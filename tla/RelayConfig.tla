---------------------------- MODULE RelayConfig -----------------------------
(***************************************************************************)
(* The relay's configuration: initConfig (cli/relay/command.go) validates  *)
(* the file block by block, in order, and fills in defaults; the server    *)
(* then reads the blocks again, often dropping the error it believes       *)
(* cannot happen; and an admin command, another process, derives from the  *)
(* same file where the admin listener is (adminTarget).                    *)
(*                                                                         *)
(* A value is abstracted to the cases the code tells apart.  The blocks    *)
(* nobody varies keep their defaults (Vary, chosen at the start).          *)
(***************************************************************************)
EXTENDS Integers, FiniteSets

CONSTANTS
    Vary,            \* sets of blocks: each run varies one of them
    MaxPort, DefaultPort,
    TargetBytes,     \* statsTargetBytes
    DefaultMessage   \* defaultMaxMessageLength

VARIABLES
    stage,      \* the next check, "serving", "rejected"
    why,        \* what was refused
    file,       \* the configuration as written
    cfg,        \* RelayConfig, as decoded and completed
    settings,   \* adminplane.Settings
    server      \* what newServer made of it

vars == <<stage, why, file, cfg, settings, server>>

Durations == {"none", "good", "zero", "bad"}
Flag == BOOLEAN

Nip11Blocks == [priv : {"none", "key", "bad"}, pub : {"none", "own", "other"}, url : {"none", "good", "bad"},
                auth : Flag, members : Flag, message : {0, 2 * TargetBytes}, self : {"none"}]
CacheBlocks == [zaps : Flag, stats : Flag, published : Flag, limit : {-1, 0, 3}, maxLimit : {0, 2}, targets : {-1, 2, 3}]
CheckBlocks == [refresh : Durations, interval : Durations, batch : {0, 9}, ttl : Durations \union {"0"},
                retry : Durations \union {"0"}, scoring : {"none", "known", "unknown"}]
HuddleBlocks == [on : Flag, rooms : {-1, 0}, auth : Durations, ping : Durations, rtc : Flag,
                 range : {<<>>, <<0, 2>>, <<1, 2>>, <<2, 1>>, <<1>>}, members : Flag]
MemberBlocks == [on : Flag, uses : {-1, 0}, maxTTL : Durations \union {"long"}, claims : {"unset", "true", "false"}, agent : Flag]
GroupBlocks == [roles : {{}, {"admin"}, {"mod"}, {"admin", "mod"}}, kinds : {"good", "bad"}, described : {{}, {"admin"}, {"mod"}},
                admins : {{}, {"npub"}, {"junk"}}, notices : Flag, added : {0, 7}, removed : {0, 7, 8}]
MediaBlocks == [presence : Flag, query : Flag, blossom : Flag, public : {"none", "good"}, prefix : {"", "/", "/media", "/admin"},
                uploads : {{}, {"/upload"}, {"/query"}, {"upload"}}, storage : {"", "s3", "s3 no bucket", "ftp"}]
Listens == {<<"off", 0>>, <<"", 0>>} \union ({"loop", "lan", "any"} \X {0, 1, 2})
AdminBlocks == [listen : Listens, tls : {"none", "half", "missing", "good"}, hosts : {{}, {"name"}, {"a/b"}},
                pubkeys : {"none", "good", "bad"}, dashboard : Flag, session : {"none", "good", "bad"},
                metrics : Flag, tokens : {"none", "good", "bad"}]
OtherBlocks == [port : {0, 1, MaxPort}]
MiscBlocks == [renamed : Flag, level : {"", "info", "loud"}, pow : {-1, 0, 1}]

Standard ==
    [nip11 |-> [priv |-> "key", pub |-> "own", url |-> "good", auth |-> TRUE, members |-> FALSE, message |-> 0, self |-> "none"],
     cache |-> [zaps |-> FALSE, stats |-> FALSE, published |-> FALSE, limit |-> 0, maxLimit |-> 0, targets |-> 0],
     checks |-> [refresh |-> "none", interval |-> "none", batch |-> 0, ttl |-> "none", retry |-> "none", scoring |-> "none"],
     huddle |-> [on |-> FALSE, rooms |-> 0, auth |-> "none", ping |-> "none", rtc |-> FALSE, range |-> <<>>, members |-> FALSE],
     member |-> [on |-> FALSE, uses |-> 0, maxTTL |-> "none", claims |-> "unset", agent |-> FALSE],
     group |-> [roles |-> {}, kinds |-> "good", described |-> {}, admins |-> {}, notices |-> FALSE, added |-> 0, removed |-> 0],
     media |-> [presence |-> FALSE, query |-> FALSE, blossom |-> FALSE, public |-> "none", prefix |-> "", uploads |-> {}, storage |-> ""],
     admin |-> [listen |-> <<"", 0>>, tls |-> "none", hosts |-> {}, pubkeys |-> "none", dashboard |-> FALSE, session |-> "none",
                metrics |-> FALSE, tokens |-> "none"],
     other |-> [port |-> 0],
     misc |-> [renamed |-> FALSE, level |-> "", pow |-> 0]]

\* The nip11 block with other keys alone ("keys").
KeyBlocks == {[Standard.nip11 EXCEPT !.priv = k, !.pub = p] : k \in {"none", "key", "bad"}, p \in {"none", "own", "other"}}

Blocks(v, b) ==
    IF b = "nip11" /\ "keys" \in v THEN KeyBlocks
    ELSE IF b \notin v THEN {Standard[b]}
    ELSE CASE b = "nip11" -> Nip11Blocks [] b = "cache" -> CacheBlocks [] b = "checks" -> CheckBlocks
           [] b = "huddle" -> HuddleBlocks [] b = "member" -> MemberBlocks [] b = "group" -> GroupBlocks
           [] b = "media" -> MediaBlocks [] b = "admin" -> AdminBlocks [] b = "other" -> OtherBlocks [] b = "misc" -> MiscBlocks

\* What can be in the file.
RelayConfigs(v) ==
    [nip11 : Blocks(v, "nip11"), cache : Blocks(v, "cache"), checks : Blocks(v, "checks"), huddle : Blocks(v, "huddle"),
     member : Blocks(v, "member"), group : Blocks(v, "group"), media : Blocks(v, "media"), admin : Blocks(v, "admin"),
     other : Blocks(v, "other"), misc : Blocks(v, "misc")]

Init ==
    /\ \E v \in Vary : file \in RelayConfigs(v)
    /\ stage = "keys" /\ why = "none" /\ cfg = file
    /\ settings = [on |-> FALSE] /\ server = [up |-> FALSE]

Reject(reason) == stage' = "rejected" /\ why' = reason /\ UNCHANGED <<file, cfg, settings, server>>
Goes(next, c) == stage' = next /\ cfg' = c /\ UNCHANGED <<why, file, settings, server>>

-----------------------------------------------------------------------------
(* Values *)

\* parseConfigDuration and checkHuddleDuration alike: parsed, and positive.
ParseConfigDuration(d) == d = "good"
CheckHuddleDuration(d) == d \in {"none", "good"}

\* A range is two ports from 1, the first not above the second.
ParseUDPPortRange(r) ==
    r = <<>> \/ (DOMAIN r = {1, 2} /\ r[1] >= 1 /\ r[2] >= 1 /\ r[1] <= r[2])

ParseLogLevel(l) == l \in {"info"}

\* cache.zaps is checked whether or not it is on.
ZapRanking(c) ==
    /\ c.cache.limit >= 0
    /\ c.cache.limit <= IF c.cache.maxLimit = 0 THEN 3 ELSE c.cache.maxLimit
    /\ c.checks.refresh = "none" \/ ParseConfigDuration(c.checks.refresh)

RelayStatsInterval(c) == c.checks.interval = "none" \/ ParseConfigDuration(c.checks.interval)

\* "0" turns re-checking off; it is no duration elsewhere.
VerificationSettings(c) ==
    \A d \in {c.checks.ttl, c.checks.retry} : d \in {"none", "0"} \/ ParseConfigDuration(d)

ScoringOverride(c) == c.checks.scoring # "unknown"

\* groups.roles names admin and only moderation kinds; admins are keys.
GroupModerationPolicy(c) == c.group.roles = {} \/ ("admin" \in c.group.roles /\ c.group.kinds = "good")
GroupAdmins(c) == c.group.admins \subseteq {"npub"}

\* The seat-notice kinds with their defaults, 8 and 9 here.
MemberNotices(c) ==
    [added |-> IF c.group.added = 0 THEN 8 ELSE c.group.added, removed |-> IF c.group.removed = 0 THEN 9 ELSE c.group.removed]

BlossomPublicURL(c) == c.media.public = "good" \/ c.nip11.url = "good"
UploadPaths(c) == IF c.media.uploads = {} THEN {"/upload", "/media/upload"} ELSE c.media.uploads
BlobPrefix(c) == CASE c.media.prefix = "" -> "/media" [] c.media.prefix = "/" -> "" [] OTHER -> c.media.prefix
ReservedPaths == {"/query", "/events", "/count", "/_home", "/metrics", "/admin", "/huddle"}
Paths == {"/upload", "/media/upload", "/media", "/query", "/admin"}

-----------------------------------------------------------------------------
(* initConfig, in its order *)

\* The file uses no renamed key; the keys agree, and the public one is there.
CheckKeys ==
    /\ stage = "keys"
    /\ LET n == cfg.nip11
           c == [cfg EXCEPT !.nip11.pub = IF n.priv = "key" THEN "own" ELSE @]
       IN  CASE cfg.misc.renamed -> Reject("renamed")
             [] n.priv = "bad" -> Reject("privkey")
             [] n.priv = "key" /\ n.pub = "other" -> Reject("pubkey")
             [] n.priv = "none" /\ n.pub = "none" -> Reject("no pubkey")
             [] OTHER -> Goes("cache", c)

\* Mutant: the published stats are left out of the features that sign.
CheckCacheUnsigned ==
    /\ stage = "cache"
    /\ LET c == cfg.cache
       IN  IF \/ (c.zaps \/ c.stats) /\ cfg.nip11.priv = "none"
              \/ ~ZapRanking(cfg) \/ ~RelayStatsInterval(cfg) \/ ~VerificationSettings(cfg) \/ ~ScoringOverride(cfg)
           THEN Reject("cache") ELSE Goes("huddle", cfg)

\* Features that sign need the key, published stats a usable URL, and every value parses.
CheckCacheConfig ==
    /\ stage = "cache"
    /\ LET c == cfg.cache
       IN  IF \/ (c.zaps \/ c.stats \/ c.published) /\ cfg.nip11.priv = "none"
              \/ c.published /\ cfg.nip11.url # "good"
              \/ ~ZapRanking(cfg) \/ ~RelayStatsInterval(cfg) \/ ~VerificationSettings(cfg) \/ ~ScoringOverride(cfg)
           THEN Reject("cache") ELSE Goes("huddle", cfg)

\* Mutant: the port range is looked at only with rtc, a duration not at all.
CheckHuddleLoose ==
    /\ stage = "huddle"
    /\ LET h == cfg.huddle
       IN  IF \/ cfg.nip11.auth /\ cfg.nip11.url = "none"
              \/ h.on /\ (cfg.nip11.url = "none" \/ h.rooms < 0)
           THEN Reject("huddle") ELSE Goes("logs", cfg)

\* auth_required and huddles need the URL a client's AUTH event names.
CheckAuthAndHuddle ==
    /\ stage = "huddle"
    /\ LET h == cfg.huddle
       IN  IF \/ cfg.nip11.auth /\ cfg.nip11.url = "none"
              \/ h.on /\ (\/ cfg.nip11.url = "none" \/ h.rooms < 0
                          \/ ~CheckHuddleDuration(h.auth) \/ ~CheckHuddleDuration(h.ping) \/ ~ParseUDPPortRange(h.range))
           THEN Reject("huddle") ELSE Goes("logs", cfg)

CheckLogsAndPow ==
    /\ stage = "logs"
    /\ IF (cfg.misc.level # "" /\ ~ParseLogLevel(cfg.misc.level)) \/ cfg.misc.pow < 0
       THEN Reject("logs") ELSE Goes("membership", cfg)

CheckAndDefaultMembership ==
    /\ stage = "membership"
    /\ LET m == cfg.member
       IN  IF \/ m.on /\ cfg.nip11.priv = "none"
              \/ m.uses < 0 \/ m.maxTTL \notin {"none", "good"}
           THEN Reject("membership")
           ELSE Goes("required", [cfg EXCEPT !.member.claims = IF @ = "unset" THEN "true" ELSE @])

\* membership_required and agent_auth: each needs the one before it.
CheckMembershipRequired ==
    /\ stage = "required"
    /\ IF \/ cfg.nip11.members /\ (~cfg.member.on \/ ~cfg.nip11.auth)
          \/ cfg.member.agent /\ ~cfg.nip11.members
       THEN Reject("required") ELSE Goes("groups", cfg)

CheckGroupsConfig ==
    /\ stage = "groups"
    /\ LET g == cfg.group
           known == IF g.roles = {} THEN {"admin"} ELSE g.roles
       IN  IF ~GroupModerationPolicy(cfg) \/ ~GroupAdmins(cfg) \/ ~(g.described \subseteq known)
           THEN Reject("groups") ELSE Goes("community", cfg)

\* Mutant: only the upload paths are compared with the relay's own.
CheckCommunityUploads ==
    /\ stage = "community"
    /\ IF cfg.media.blossom /\ UploadPaths(cfg) \intersect ReservedPaths # {} THEN Reject("community") ELSE Goes("admin", cfg)

\* Seat notices and presence are signed; Blossom's paths are paths, and none is the relay's own.
CheckCommunityConfig ==
    /\ stage = "community"
    /\ LET k == MemberNotices(cfg)
           m == cfg.media
       IN  IF \/ cfg.group.notices /\ (cfg.nip11.priv = "none" \/ k.added = k.removed)
              \/ m.presence /\ (cfg.nip11.priv = "none" \/ ~m.query)
              \/ /\ m.blossom
                 /\ \/ ~BlossomPublicURL(cfg) \/ BlobPrefix(cfg) = ""
                    \/ \E p \in UploadPaths(cfg) \union {BlobPrefix(cfg)} : p \notin Paths \/ p \in ReservedPaths
                    \/ m.storage \notin {"", "s3"}
           THEN Reject("community") ELSE Goes("admin", cfg)

-----------------------------------------------------------------------------
(* adminplane.Resolve *)

Port(c) == IF c.other.port = 0 THEN DefaultPort ELSE c.other.port

\* The listen address, the default being the port after the relay's.
Addr(c) == IF c.admin.listen[1] = "" THEN <<"loop", Port(c) + 1>> ELSE c.admin.listen

IsLoopback(host) == host = "loop"

AddrRefused(c) == Addr(c)[2] \notin 1..MaxPort \/ Addr(c)[2] = Port(c)

\* Mutant: a listener on every address answers only to the configured names.
HostsNoWildcard(c) ==
    LET host == Addr(c)[1]
        port == Addr(c)[2]
    IN  (IF host # "any" THEN {<<host, port>>} ELSE {}) \union {<<h, 0>> : h \in c.admin.hosts}

\* The Host values answered to: the address itself, loopback's names, and those configured.
Hosts(c) ==
    LET host == Addr(c)[1]
        port == Addr(c)[2]
    IN  (IF host # "any" THEN {<<host, port>>} ELSE {})
        \union (IF host \in {"loop", "any"} THEN {<<"loop", port>>} ELSE {})
        \union {<<h, 0>> : h \in c.admin.hosts}

TransportRefused(c) ==
    \/ "a/b" \in c.admin.hosts
    \/ c.admin.tls \in {"half", "missing"}
    \/ ~IsLoopback(Addr(c)[1]) /\ c.admin.tls = "none"
    \/ Addr(c)[1] = "any" /\ c.admin.hosts = {}

\* A CIDR or a key of the lists that does not parse.
ListsRefused(c) == c.admin.pubkeys = "bad"

\* The dashboard needs an admin, which nip11.pubkey is, and a session length in range.
DashboardRefused(c) == c.admin.dashboard /\ c.admin.session = "bad"

MetricsRefused(c) == c.admin.metrics /\ c.admin.tokens # "good"

\* What the admin listener is given.
Settings(c) == [on |-> TRUE, addr |-> Addr(c), hosts |-> Hosts(c), tls |-> c.admin.tls = "good"]

ResolveAdmin ==
    /\ stage = "admin"
    /\ LET a == cfg.admin
       IN  IF a.listen[1] = "off"
           THEN IF a.dashboard \/ a.metrics THEN Reject("admin off")
                ELSE Goes("final", [cfg EXCEPT !.other.port = Port(cfg)])
           ELSE IF \/ AddrRefused(cfg) \/ TransportRefused(cfg) \/ ListsRefused(cfg)
                   \/ DashboardRefused(cfg) \/ MetricsRefused(cfg)
                THEN Reject("admin")
                ELSE /\ stage' = "final" /\ cfg' = [cfg EXCEPT !.other.port = Port(cfg)]
                     /\ settings' = Settings(cfg)
                     /\ UNCHANGED <<why, file, server>>

\* Mutant: the message length's default is filled in after the check that uses it.
FinalizeLate(c) == [c EXCEPT !.nip11.self = IF c.member.on THEN c.nip11.pub ELSE "none"]

\* self is the relay's key only with membership on; zero limits take their defaults.
FinalizeNip11(c) ==
    [c EXCEPT !.nip11.self = IF c.member.on THEN c.nip11.pub ELSE "none",
              !.nip11.message = IF @ = 0 THEN DefaultMessage ELSE @]

CheckSearchBatching(c) == c.checks.batch \in 0..8

CheckMaxStatsTargets(c) == c.cache.targets >= 0 /\ c.cache.targets <= c.nip11.message \div TargetBytes

Final ==
    /\ stage = "final"
    /\ LET c == FinalizeNip11(cfg)
       IN  CASE ~CheckSearchBatching(c) -> Reject("batch")
             [] CheckSearchBatching(c) /\ ~CheckMaxStatsTargets(c) -> Reject("targets")
             [] OTHER -> Goes("start", c)

-----------------------------------------------------------------------------
(* The server reads the configuration; an admin command reads the file *)

\* registerHuddleRoutes: a value that does not parse silently means the default.
HuddleRead(c) ==
    IF ~c.huddle.on THEN "off"
    ELSE IF CheckHuddleDuration(c.huddle.auth) /\ CheckHuddleDuration(c.huddle.ping)
            /\ (c.huddle.rtc => ParseUDPPortRange(c.huddle.range)) THEN "as written" ELSE "defaulted"

\* applyGroupsConfig: the admins, with the relay's own key.
GroupAdminsSet(c) == IF c.group.admins = {} THEN {} ELSE c.group.admins \union {c.nip11.self}

\* newServer, which drops these errors, and the routes it mounts.
Serve ==
    /\ stage = "start" /\ stage' = "serving"
    /\ server' = [up |-> TRUE,
                  huddle |-> HuddleRead(cfg),
                  dropped |-> {x \in {"zaps", "interval", "checks", "scoring", "policy", "admins", "level"} :
                                 CASE x = "zaps" -> ~ZapRanking(cfg) [] x = "interval" -> ~RelayStatsInterval(cfg)
                                   [] x = "checks" -> ~VerificationSettings(cfg) [] x = "scoring" -> ~ScoringOverride(cfg)
                                   [] x = "policy" -> ~GroupModerationPolicy(cfg) [] x = "admins" -> ~GroupAdmins(cfg)
                                   [] x = "level" -> cfg.misc.level # "" /\ ~ParseLogLevel(cfg.misc.level)},
                  routes |-> {"/", "/query", "/events", "/count", "/_home", "/admin", "/huddle"},
                  blossom |-> IF cfg.media.blossom THEN UploadPaths(cfg) \union {BlobPrefix(cfg)} ELSE {},
                  groupAdmins |-> GroupAdminsSet(cfg)]
    /\ UNCHANGED <<why, file, cfg, settings>>

\* adminTarget, from the file alone: no default but its own has been filled in.
AdminTarget(f) ==
    LET listen == IF f.admin.listen[1] = "" THEN <<"loop", (IF f.other.port = 0 THEN DefaultPort ELSE f.other.port) + 1>>
                  ELSE f.admin.listen
    IN  [host |-> <<IF listen[1] = "any" THEN "loop" ELSE listen[1], listen[2]>>, https |-> f.admin.tls \notin {"none"}]

Next ==
    \/ CheckKeys \/ CheckCacheConfig \/ CheckAuthAndHuddle \/ CheckLogsAndPow
    \/ CheckAndDefaultMembership \/ CheckMembershipRequired \/ CheckGroupsConfig \/ CheckCommunityConfig
    \/ ResolveAdmin \/ Final \/ Serve

Spec == Init /\ [][Next]_vars

-----------------------------------------------------------------------------
(* Properties *)

Up == stage = "serving"

\* Whatever configuration is accepted, an admin command that reads the same file asks an
\* address the listener answers to, with the scheme it speaks (Resolve, adminTarget).
AdminReachable ==
    Up /\ settings.on => /\ AdminTarget(file).host \in settings.hosts
                         /\ AdminTarget(file).https = settings.tls

\* A relay that serves can sign what its features sign, with the key it is known by, and
\* each requirement of the membership chain is met (initConfig, checkCacheConfig).
PromisesCanBeKept ==
    Up => /\ (cfg.cache.zaps \/ cfg.cache.stats \/ cfg.cache.published \/ cfg.member.on \/ cfg.group.notices \/ cfg.media.presence)
                => cfg.nip11.priv = "key" /\ cfg.nip11.pub = "own"
          /\ cfg.member.agent => cfg.nip11.members
          /\ cfg.nip11.members => cfg.member.on /\ cfg.nip11.auth /\ cfg.nip11.self = "own"
          /\ cfg.nip11.auth \/ cfg.huddle.on \/ cfg.cache.published => cfg.nip11.url # "none"

\* No value the server reads with its error dropped was a typo that startup let through
\* (registerHuddleRoutes, newServer, applyGroupsConfig, RunRelay).
NothingReadByDefault == Up => server.dropped = {} /\ server.huddle # "defaulted"

\* Blossom takes none of the relay's own routes, by its blob prefix or an upload path
\* (reservedPaths, newServer).
RoutesStayOurs == Up => server.blossom \intersect server.routes = {}

\* maxTargets is refused exactly when a request naming that many keys is longer than the
\* message the relay accepts, the default length included (checkMaxStatsTargets).
TargetsReachable ==
    LET inForce == IF file.nip11.message = 0 THEN DefaultMessage ELSE file.nip11.message
    IN  /\ Up => file.cache.targets * TargetBytes <= inForce
        /\ why = "targets" => file.cache.targets < 0 \/ file.cache.targets * TargetBytes > inForce

\* The relay's own key moderates the hosted groups alongside groups.admins
\* (applyGroupsConfig).
\* It fails with membership off: the key added is Nip11.Self, which is then
\* empty.
OwnKeyModerates == Up /\ server.groupAdmins # {} => cfg.nip11.pub \in server.groupAdmins
=============================================================================
