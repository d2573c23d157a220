------------------------------- MODULE Program -------------------------------
(***************************************************************************)
(* The command: how it comes by its configuration, when it starts, and     *)
(* what its status pages show.  LoadConfig lays the configuration file     *)
(* over the defaults and the command line over both; parseFlags refuses    *)
(* what cannot work.  The status server then answers requests, each in a   *)
(* goroutine of its own, from the statistics that the tunnels count and    *)
(* a ticker samples.                                                       *)
(*                                                                         *)
(* A configuration is a function from names of options to values; the      *)
(* options here are those that a decision of the program depends on, and   *)
(* two whose value gets lost.  The counter of received bytes is like that  *)
(* of sent bytes, and one of the two counts stands for both.               *)
(***************************************************************************)
EXTENDS Integers, Sequences

CONSTANTS
  Setups,       \* command lines, and what is at the paths of the file
  Addresses,    \* where requests come from
  V4,           \* those that are IPv4
  First32,      \* the first 32 bits of each, all of an IPv4 address
  Handlers,     \* goroutines of the status server
  HistorySize,  \* samples that Stats keeps
  Width,        \* width of the byte counters
  BlockSizes,   \* lengths of the blocks that tunnels send
  MaxBytes,     \* bound: bytes sent
  MaxSamples,   \* bound: samples taken
  MaxRequests   \* bound: requests of each handler

\* The counters are unsigned, and wrap.
Modulus == 2^Width

ASSUME ProgramAssumption ==
  /\ V4 \subseteq Addresses
  /\ \A a \in V4, b \in Addresses : First32[a] = First32[b] => a = b
  /\ BlockSizes \subseteq Nat \ {0}
  /\ {HistorySize, Width, Modulus} \subseteq Nat \ {0}
  /\ {MaxBytes, MaxSamples, MaxRequests} \subseteq Nat

VARIABLES
  setup,       \* the setup of this run
  phase,       \* load, check, run, refused or stopped
  cfg,         \* the configuration
  total,       \* totalSentBytes
  tunnels,     \* tunnelCount
  clock,       \* time, in ticks
  sentHistory, timestamps,
  sampling,    \* the sample that UpdateHistory has read and not stored
  handler,     \* where each handler is, its request, the statistics it read
  gauges,      \* the values of the gauges
  sentBytes, samples, current  \* for the properties, see there

statistics == <<total, tunnels, clock>>
history == <<sentHistory, timestamps, sampling>>
pages == <<handler, gauges>>
noted == <<sentBytes, samples, current>>
programVars == <<setup, phase, cfg, statistics, history, pages, noted>>

Idle(n) == [at |-> "idle", left |-> n]

-----------------------------------------------------------------------------
(* Configuration.                                                          *)

\* A mode as it is written; capitals if it has any.
Mode(name, capitals) == [name |-> name, capitals |-> capitals]

\* An entry of status-acl: a network, a bare address, or neither.
Network(addresses) == [kind |-> "network", addresses |-> addresses]
Bare(address) == [kind |-> "bare", addresses |-> {address}]
Malformed == [kind |-> "malformed", addresses |-> {}]

\* NewDefaultConfig.
Defaults ==
  [mode |-> Mode("client", FALSE), password |-> "PASSWORD", listen |-> "addr", dest |-> "", tunnelN |-> 4,
   status |-> "", acl |-> <<>>, useSyslog |-> TRUE, sendQueueSize |-> 32]

\* What g says, and f where it says nothing.
Over(g, f) == [o \in DOMAIN f |-> IF o \in DOMAIN g THEN g[o] ELSE f[o]]

\* The file of -c, or the first that exists of those in the usual places.
ConfigFiles(s) ==
  IF s.explicit THEN s.paths ELSE SelectSeq(s.paths, LAMBDA p : p.state # "absent")

\* The options of the command line, but for one that is never looked at.
FlagsSeen(s) == [o \in DOMAIN s.flags \ {"useSyslog"} |-> s.flags[o]]

ToLower(mode) == Mode(mode.name, FALSE)

\* Mutant: the file is read after the command line.
MergedFileLast(s, file) == Over(file, Over(FlagsSeen(s), Defaults))

\* The file over the defaults, then the command line over the file.
Merged(s, file) == Over(FlagsSeen(s), Over(file, Defaults))

\* What the file of a setup says.
FileOf(s) == IF ConfigFiles(s) = <<>> THEN <<>> ELSE Head(ConfigFiles(s)).options

FileReadable(s) ==
  ~s.version /\ (ConfigFiles(s) # <<>> => Head(ConfigFiles(s)).state = "ok")

\* LoadConfig.  -version, and a file that cannot be read, end the program.
LoadConfig ==
  /\ phase = "load"
  /\ \/ /\ FileReadable(setup)
        /\ cfg' = [Merged(setup, FileOf(setup)) EXCEPT !.mode = ToLower(@)]
        /\ phase' = "check"
     \/ /\ ~FileReadable(setup)
        /\ phase' = "refused"
        /\ UNCHANGED cfg
  /\ UNCHANGED <<setup, statistics, history, pages, noted>>

Modes(names) == {Mode(n, FALSE) : n \in names}

\* The checks of parseFlags.
Valid(c) ==
  /\ c.mode \in Modes({"c", "client", "s", "server"})
  /\ c.password \notin {"", Defaults.password}
  /\ c.mode \in Modes({"c", "client"}) =>
       /\ c.listen # "" /\ (c.listen = "socks5" \/ c.dest # "")
       /\ c.tunnelN # 0

\* parseFlags and the first half of main: the size of the send queue is not
\* passed on.
ParseFlags ==
  /\ phase = "check"
  /\ phase' = IF Valid(cfg) THEN "run" ELSE "refused"
  /\ cfg' = [cfg EXCEPT !.sendQueueSize = Defaults.sendQueueSize]
  /\ UNCHANGED <<setup, statistics, history, pages, noted>>

\* SIGINT or SIGTERM: main cancels the client or server and returns, and with
\* it every goroutine ends.
Shutdown ==
  /\ phase = "run"
  /\ phase' = "stopped"
  /\ handler' = [h \in Handlers |-> Idle(0)]
  /\ sampling' = <<>> /\ current' = [h \in Handlers |-> {}]
  /\ UNCHANGED <<setup, cfg, statistics, sentHistory, timestamps, gauges, sentBytes, samples>>

-----------------------------------------------------------------------------
(* Statistics.                                                             *)

\* AddSentBytes, of a block that a tunnel has sent.
AddSentBytes(n) ==
  /\ phase = "run" /\ sentBytes + n <= MaxBytes
  /\ total' = (total + n) % Modulus
  /\ sentBytes' = sentBytes + n
  /\ UNCHANGED <<setup, phase, cfg, tunnels, clock, history, pages, samples, current>>

\* AddTunnel and RemoveTunnel count the tunnels.
CountTunnel ==
  /\ phase = "run"
  /\ tunnels' = 1 - tunnels
  /\ UNCHANGED <<setup, phase, cfg, total, clock, history, pages, noted>>

\* UpdateHistory locks the statistics and reads the counter and the clock.
UpdateHistoryReads ==
  /\ phase = "run" /\ sampling = <<>> /\ Len(samples) < MaxSamples
  /\ \E d \in {0, 1} : clock' = clock + d
  /\ sampling' = <<[bytes |-> total, time |-> clock']>>
  /\ samples' = Append(samples, [bytes |-> sentBytes, time |-> clock'])
  /\ UNCHANGED <<setup, phase, cfg, total, tunnels, sentHistory, timestamps, pages, sentBytes, current>>

Newest(s) == IF Len(s) > HistorySize THEN Tail(s) ELSE s

\* Mutant: the oldest bytes stay.
UpdateHistoryStoresKeepsBytes ==
  /\ phase = "run" /\ sampling # <<>>
  /\ sentHistory' = Append(sentHistory, Head(sampling).bytes)
  /\ timestamps' = Newest(Append(timestamps, Head(sampling).time))
  /\ sampling' = <<>>
  /\ UNCHANGED <<setup, phase, cfg, statistics, pages, noted>>

\* It appends both, drops the oldest of each and unlocks.
UpdateHistoryStores ==
  /\ phase = "run" /\ sampling # <<>>
  /\ sentHistory' = Newest(Append(sentHistory, Head(sampling).bytes))
  /\ timestamps' = Newest(Append(timestamps, Head(sampling).time))
  /\ sampling' = <<>>
  /\ UNCHANGED <<setup, phase, cfg, statistics, pages, noted>>

\* The bytes and the time that the rate is computed from.
Rate ==
  LET n == Len(timestamps)
      window == timestamps[n] - timestamps[1]
  IN  IF n < 2 \/ window <= 0 THEN [bytes |-> 0, window |-> 0]
      ELSE [bytes |-> (sentHistory[n] + Modulus - sentHistory[1]) % Modulus, window |-> window]

\* GetStats, but for the rate.
Stats == [total_sent_bytes |-> total, tunnel_count |-> tunnels]

-----------------------------------------------------------------------------
(* The status pages.                                                       *)

\* The entries of status-acl; without any, "0.0.0.0/0".
Acls == IF cfg.acl = <<>> THEN <<Network(V4)>> ELSE cfg.acl

\* Mutant: "/0" is appended to a bare address.
CoversFamily(e) ==
  IF e.kind # "bare" THEN e.addresses
  ELSE {a \in Addresses : \E b \in e.addresses : a \in V4 <=> b \in V4}

\* The addresses that an entry lets in: to a bare one "/32" is appended, whether
\* it is IPv4 or IPv6.
Covers(e) ==
  IF e.kind # "bare" THEN e.addresses
  ELSE {a \in Addresses : \E b \in e.addresses \cap Addresses : First32[a] = First32[b]}

\* IsIPInSubnets goes through the entries up to the first that is malformed.
IsIPInSubnets(a) ==
  LET bad == {i \in DOMAIN Acls : Acls[i].kind = "malformed"}
      hit == {i \in DOMAIN Acls : a \in Covers(Acls[i]) /\ \A j \in bad : i < j}
  IN  IF hit # {} THEN "allowed" ELSE IF bad # {} THEN "error" ELSE "blocked"

\* Requests for the metrics that have read the statistics.
Setting == {"set", "serve"}

Pages == {"config", "status", "metrics"}

\* checkBasicAuth, when status-server has a user.
Authorized(login) == cfg.status = "login" => login

\* A request for a page of the status server, answered with an error unless
\* the address and the user are allowed.
Request(h, a, login, page) ==
  /\ phase = "run" /\ cfg.status # ""
  /\ handler[h].at = "idle" /\ handler[h].left > 0
  /\ \/ /\ IsIPInSubnets(a) = "allowed" /\ Authorized(login)
        /\ handler' = [handler EXCEPT ![h] =
                         [at |-> page, left |-> @.left, from |-> a, login |-> login]]
        /\ current' = [current EXCEPT ![h] =
                         {handler[g].data : g \in {g \in Handlers : handler[g].at \in Setting}}]
     \/ /\ IsIPInSubnets(a) # "allowed" \/ ~Authorized(login)
        /\ handler' = [handler EXCEPT ![h] = Idle(@.left - 1)]
        /\ UNCHANGED current
  /\ UNCHANGED <<setup, phase, cfg, statistics, history, gauges, sentBytes, samples>>

\* GetStats waits for UpdateHistory, which holds the lock.
ReadStats(h) ==
  /\ phase = "run" /\ handler[h].at \in {"status", "metrics"} /\ sampling = <<>>
  /\ handler' = [handler EXCEPT ![h] =
                   [at |-> IF @.at = "metrics" THEN "set" ELSE "show", left |-> @.left,
                    data |-> Stats]]
  /\ current' = [g \in Handlers |->
                   IF handler[h].at = "metrics" /\ handler[g].at \in {"metrics"} \cup Setting
                   THEN current[g] \cup {Stats} ELSE current[g]]
  /\ UNCHANGED <<setup, phase, cfg, statistics, history, gauges, sentBytes, samples>>

\* The Go types of the statistics, and of the assertions that precede Set.
TypeOfData == [total_sent_bytes |-> "uint64", tunnel_count |-> "int32"]
TypeOfGauge == [total_sent_bytes |-> "uint64", tunnel_count |-> "int"]
Gauges == DOMAIN TypeOfGauge
Settable == {g \in Gauges : TypeOfGauge[g] = TypeOfData[g]}

\* Mutant: the page is served before the gauges are set.
UpdateMetricsLate(h) ==
  /\ phase = "run" /\ handler[h].at = "set"
  /\ handler' = [handler EXCEPT ![h].at = "serve"]
  /\ UNCHANGED <<setup, phase, cfg, statistics, history, gauges, noted>>

\* updatePrometheusMetrics sets the gauges that all handlers share.
UpdateMetrics(h) ==
  /\ phase = "run" /\ handler[h].at = "set"
  /\ gauges' = [g \in Gauges |-> IF g \in Settable THEN handler[h].data[g] ELSE gauges[g]]
  /\ handler' = [handler EXCEPT ![h].at = "serve"]
  /\ UNCHANGED <<setup, phase, cfg, statistics, history, noted>>

\* The page is written: the configuration, the statistics, or the gauges.
Reply(h) ==
  /\ phase = "run" /\ handler[h].at \in {"config", "show", "serve"}
  /\ handler' = [handler EXCEPT ![h] = Idle(@.left - 1)]
  /\ current' = [current EXCEPT ![h] = {}]
  /\ UNCHANGED <<setup, phase, cfg, statistics, history, gauges, sentBytes, samples>>

-----------------------------------------------------------------------------

ProgramInit ==
  /\ setup \in Setups
  /\ phase = "load" /\ cfg = Defaults
  /\ total = 0 /\ tunnels = 0 /\ clock = 0
  /\ sentHistory = <<>> /\ timestamps = <<>> /\ sampling = <<>>
  /\ handler = [h \in Handlers |-> Idle(MaxRequests)]
  /\ gauges = [g \in Gauges |-> 0]
  /\ sentBytes = 0 /\ samples = <<>> /\ current = [h \in Handlers |-> {}]

ProgramNext ==
  \/ LoadConfig \/ ParseFlags \/ Shutdown
  \/ \E n \in BlockSizes : AddSentBytes(n)
  \/ CountTunnel \/ UpdateHistoryReads \/ UpdateHistoryStores
  \/ \E h \in Handlers :
       \/ \E a \in Addresses, login \in BOOLEAN, page \in Pages :
            Request(h, a, login, page)
       \/ ReadStats(h) \/ UpdateMetrics(h) \/ Reply(h)

ProgramSpec == ProgramInit /\ [][ProgramNext]_programVars
-----------------------------------------------------------------------------
(* Properties.                                                             *)

\* What the first of the layers that gives option o a value gives it.
Topmost(layers, o) ==
  LET first == CHOOSE i \in 1 .. 3 : o \in DOMAIN layers[i]
                                    /\ \A j \in 1 .. i - 1 : o \notin DOMAIN layers[j]
  IN  layers[first][o]

\* "Priority: defaults, then the YAML file, then the command line."
Wanted(o) == Topmost(<<setup.flags, FileOf(setup), Defaults>>, o)

WantsClient == Wanted("mode").name \in {"c", "client"}

\* A mode that there is, in whatever letters, a password of one's own and, for a
\* client, tunnels, somewhere to listen and, unless it is a proxy, somewhere to
\* forward to.  A negative number of tunnels passes: see TunnelNumberPositive.
Workable ==
  /\ WantsClient \/ Wanted("mode").name \in {"s", "server"}
  /\ Wanted("password") \notin {"", "PASSWORD"}
  /\ WantsClient =>
       /\ Wanted("tunnelN") # 0 /\ Wanted("listen") # ""
       /\ Wanted("listen") = "socks5" \/ Wanted("dest") # ""

\* The program runs only with a configuration that works, and refuses only one
\* that does not, whichever layer an option comes from: it runs with what the
\* topmost layer says, but for the two options of OptionsTakeEffect.
RunsAsConfigured ==
  /\ phase = "run" =>
       /\ Workable /\ FileReadable(setup)
       /\ \A o \in DOMAIN Defaults \ {"mode", "useSyslog", "sendQueueSize"} : cfg[o] = Wanted(o)
  /\ phase = "refused" => ~(Workable /\ FileReadable(setup))

\* Whom the access list lets in, as the command line or else the file gives it;
\* without a list, any IPv4 address.
Listed(a) ==
  LET acl == Wanted("acl") IN
  \/ acl = <<>> /\ a \in V4
  \/ \E i \in DOMAIN acl : a \in acl[i].addresses

\* A page is made only for a user with the credentials of status-server and an
\* address that is on the access list, when it is IPv4.  An IPv6 address may
\* also share its first 32 bits with a bare one on the list.
PagesGuarded ==
  \A h \in Handlers :
    handler[h].at \in Pages =>
      /\ \/ Listed(handler[h].from)
         \/ /\ handler[h].from \notin V4
            /\ \E a \in Addresses \ V4 :
                 First32[a] = First32[handler[h].from] /\ Listed(a)
      /\ Wanted("status") = "login" => handler[h].login

\* The rate that GetStats computes is that of the last HistorySize samples, also
\* when the counter wraps between them: the two histories stay in step, and the
\* subtraction of unsigned numbers undoes the wrap.
RateIsExact ==
  LET n == Len(samples)
      first == IF n > HistorySize THEN samples[n - HistorySize + 1] ELSE samples[1]
      bytes == samples[n].bytes - first.bytes
      window == samples[n].time - first.time
  IN  phase = "run" /\ sampling = <<>> /\ n >= 2 /\ window > 0 /\ bytes < Modulus =>
        Rate = [bytes |-> bytes, window |-> window]

\* Although requests share the gauges, a metrics page shows what its own request
\* has read or one that was under way at the same time, never what an earlier
\* one left behind.  tunnel_count is excepted: its gauge is never set.
MetricsAreCurrent ==
  \A h \in Handlers :
    handler[h].at = "serve" =>
      \A g \in Gauges \ {"tunnel_count"} : \E d \in current[h] : gauges[g] = d[g]

\* Every option takes effect.
OptionsTakeEffect ==
  phase = "run" => \A o \in DOMAIN Defaults \ {"mode"} : cfg[o] = Wanted(o)

\* "Tunnel number must be positive."
TunnelNumberPositive == phase = "run" /\ WantsClient => cfg.tunnelN > 0

\* A page is made only for an address of the access list.
PagesForListed ==
  \A h \in Handlers : handler[h].at \in Pages => Listed(handler[h].from)

\* The metrics have the "Current active tunnels".
CountsAreCurrent ==
  \A h \in Handlers :
    handler[h].at = "serve" => \E d \in current[h] : gauges.tunnel_count = d.tunnel_count
=============================================================================
