SPECIFICATION RFairSpec
CONSTANTS
    Handed = {e1,e2 }
    Dests = { d1,d2 }
    QueueCap = 1
    MaxRetries = 2
    MaxSaves =  3
    MaxOutages = 1
    MaxKills = 1
 
PROPERTY ReachableDelivers
