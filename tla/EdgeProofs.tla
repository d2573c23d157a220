------------------------------ MODULE EdgeProofs ------------------------------
(***************************************************************************)
(* The two outer edges of a process. For every command line and            *)
(* configuration file, counter width and length of the history, what the   *)
(* program runs as and what its status pages show (Program); for queues of *)
(* any size and any number of blocks and chunks, how the server's          *)
(* connection to a target ends (OutboundConnection).                       *)
(***************************************************************************)
EXTENDS Program, OutboundConnection, TLAPS

-----------------------------------------------------------------------------
(* Unsigned arithmetic: what the wrap of a counter does to a sum and to a   *)
(* difference.                                                              *)

LEMMA Division ==
  ASSUME NEW a \in Nat, NEW M \in Nat, M > 0
  PROVE  a \div M \in Nat /\ a % M \in 0 .. M - 1 /\ a = M * (a \div M) + (a % M)
  OBVIOUS

\* A positive multiple is no smaller than what it is a multiple of.
LEMMA Multiple ==
  ASSUME NEW M \in Nat, M > 0, NEW k \in Int, k >= 1
  PROVE  M * k >= M
  OBVIOUS

LEMMA Smaller ==
  ASSUME NEW M \in Nat, M > 0, NEW p \in Nat, NEW q \in Nat, NEW r \in 0 .. M - 1,
         NEW t \in 0 .. M - 1, M * p + r = M * q + t
  PROVE  ~(p < q)
<1> SUFFICES ASSUME p < q PROVE FALSE
  OBVIOUS
<1>1. M * (q - p) >= M
  BY Multiple
<1>2. M * (q - p) = M * q - M * p
  OBVIOUS
<1>3. M * q \in Int /\ M * p \in Int
  OBVIOUS
<1> QED
  BY <1>1, <1>2, <1>3

\* A number has one remainder.
LEMMA Remainder ==
  ASSUME NEW M \in Nat, M > 0, NEW p \in Nat, NEW q \in Nat, NEW r \in 0 .. M - 1,
         NEW t \in 0 .. M - 1, M * p + r = M * q + t
  PROVE  r = t
<1>1. ~(p < q) /\ ~(q < p)
  BY Smaller
<1>2. p = q
  BY <1>1
<1>3. M * p \in Int
  OBVIOUS
<1> QED
  BY <1>2, <1>3

\* A counter that wraps at each addition is the sum, wrapped once.
LEMMA ModSum ==
  ASSUME NEW s \in Nat, NEW n \in Nat, NEW M \in Nat, M > 0
  PROVE  ((s % M) + n) % M = (s + n) % M
<1> DEFINE r == s % M
           u == (r + n) \div M
           v == (s + n) \div M
<1>1. r \in Nat /\ s \div M \in Nat /\ s = M * (s \div M) + r
  BY Division
<1>2. u \in Nat /\ (r + n) % M \in 0 .. M - 1 /\ r + n = M * u + ((r + n) % M)
  BY <1>1, Division
<1>3. v \in Nat /\ (s + n) % M \in 0 .. M - 1 /\ s + n = M * v + ((s + n) % M)
  BY Division
<1>4. M * ((s \div M) + u) = M * (s \div M) + M * u
  BY <1>1, <1>2
<1> HIDE DEF r, u, v
<1>5. M * u \in Int /\ M * v \in Int /\ M * (s \div M) \in Int
  BY <1>1, <1>2, <1>3
<1>6. M * ((s \div M) + u) + ((r + n) % M) = M * v + ((s + n) % M)
  BY <1>1, <1>2, <1>3, <1>4, <1>5
<1>7. (s \div M) + u \in Nat
  BY <1>1, <1>2
<1> QED
  BY <1>2, <1>3, <1>6, <1>7, Remainder, Zenon DEF r

\* The difference of two wrapped counts is the true one, if that is small enough.
LEMMA Unwrap ==
  ASSUME NEW a \in Nat, NEW b \in Nat, NEW M \in Nat, M > 0, b <= a, a - b < M
  PROVE  ((a % M) + M - (b % M)) % M = a - b
<1> DEFINE x == (a % M) + M - (b % M)
           k == x \div M
           p == a \div M
           q == b \div M
<1>1. p \in Nat /\ a % M \in 0 .. M - 1 /\ a = M * p + (a % M)
  BY Division
<1>2. q \in Nat /\ b % M \in 0 .. M - 1 /\ b = M * q + (b % M)
  BY Division
<1>3. x \in Nat
  BY <1>1, <1>2
<1> HIDE DEF x
<1>4. k \in Nat /\ x % M \in 0 .. M - 1 /\ x = M * k + (x % M)
  BY <1>3, Division
<1> HIDE DEF k, p, q
<1>5. M * (k + p) = M * k + M * p /\ M * (1 + q) = M + M * q
  BY <1>1, <1>2, <1>4
<1>6. M * k \in Int /\ M * p \in Int /\ M * q \in Int
  BY <1>1, <1>2, <1>4
<1>7. M * (k + p) + (x % M) = M * (1 + q) + (a - b)
  BY <1>1, <1>2, <1>4, <1>5, <1>6 DEF x
<1>8. k + p \in Nat /\ 1 + q \in Nat /\ a - b \in 0 .. M - 1
  BY <1>1, <1>2, <1>4
<1>9. x % M = a - b
  BY <1>4, <1>7, <1>8, Remainder, Zenon
<1> QED
  BY <1>9 DEF x

-----------------------------------------------------------------------------
(* The configuration.                                                       *)

\* The file that LoadConfig reads, and the configuration that it makes.
FileRead == FileOf(setup)
Loaded == [Merged(setup, FileRead) EXCEPT !.mode = ToLower(@)]

\* It is what parseFlags checks, and what runs, but for the size of the send queue;
\* what is refused cannot be read or does not pass the checks.
ConfigInv ==
  /\ phase = "check" => FileReadable(setup) /\ cfg = Loaded
  /\ phase = "run" =>
       /\ FileReadable(setup) /\ Valid(Loaded)
       /\ cfg = [Loaded EXCEPT !.sendQueueSize = Defaults.sendQueueSize]
  /\ phase = "refused" => ~(FileReadable(setup) /\ Valid(Loaded))

\* Of the command line, the file and the defaults, the first that has an option counts.
LEMMA Layers ==
  ASSUME NEW f, NEW g, NEW d, NEW o, o \in DOMAIN d
  PROVE  Topmost(<<f, g, d>>, o) =
           IF o \in DOMAIN f THEN f[o] ELSE IF o \in DOMAIN g THEN g[o] ELSE d[o]
<1> DEFINE layers == <<f, g, d>>
           P(i) == o \in DOMAIN layers[i] /\ \A j \in 1 .. i - 1 : o \notin DOMAIN layers[j]
           first == CHOOSE i \in 1 .. 3 : P(i)
<1>1. layers[1] = f /\ layers[2] = g /\ layers[3] = d
  OBVIOUS
<1> HIDE DEF layers
<1>2. \E i \in 1 .. 3 : P(i)
  <2>1. CASE o \in DOMAIN f
    BY <1>1, <2>1
  <2>2. CASE o \notin DOMAIN f /\ o \in DOMAIN g
    BY <1>1, <2>2
  <2>3. CASE o \notin DOMAIN f /\ o \notin DOMAIN g
    <3>1. P(3)
      BY <1>1, <2>3
    <3> QED
      BY <3>1
  <2> QED
    BY <2>1, <2>2, <2>3
<1>3. first \in 1 .. 3 /\ P(first)
  <2> HIDE DEF P
  <2> QED
    BY <1>2, Zenon
<1> HIDE DEF first
<1>4. layers[first][o] = IF o \in DOMAIN f THEN f[o] ELSE IF o \in DOMAIN g THEN g[o] ELSE d[o]
  <2>1. CASE first = 1
    BY <1>1, <1>3, <2>1
  <2>2. CASE first = 2
    BY <1>1, <1>3, <2>2
  <2>3. CASE first = 3
    BY <1>1, <1>3, <2>3
  <2> QED
    BY <1>3, <2>1, <2>2, <2>3
<1> QED
  BY <1>4 DEF Topmost, first, layers

\* LoadConfig takes each option from the topmost layer that has it.
LEMMA MergedIsWanted ==
  /\ DOMAIN Merged(setup, FileRead) = DOMAIN Defaults
  /\ \A o \in DOMAIN Defaults : o # "useSyslog" => Merged(setup, FileRead)[o] = Wanted(o)
<1> DEFINE g == FileRead
<1>1. DOMAIN Merged(setup, g) = DOMAIN Defaults
  BY DEF Merged, Over
<1>2. ASSUME NEW o \in DOMAIN Defaults, o # "useSyslog"
      PROVE  Merged(setup, g)[o] = Wanted(o)
  <2>1. Wanted(o) = IF o \in DOMAIN setup.flags THEN setup.flags[o]
                    ELSE IF o \in DOMAIN g THEN g[o] ELSE Defaults[o]
    BY Layers DEF Wanted, FileRead
  <2> HIDE DEF g
  <2>2. Merged(setup, g)[o] = IF o \in DOMAIN setup.flags THEN setup.flags[o]
                              ELSE IF o \in DOMAIN g THEN g[o] ELSE Defaults[o]
    BY <1>2 DEF Merged, Over, FlagsSeen
  <2> QED
    BY <2>1, <2>2
<1> QED
  BY <1>1, <1>2

\* Every step but the first two and the last leaves the configuration alone.
LEMMA ConfigStays ==
  ASSUME [ProgramNext]_programVars, ~LoadConfig, ~ParseFlags, ~Shutdown
  PROVE  setup' = setup /\ phase' = phase /\ cfg' = cfg
  BY Zenon
     DEF ProgramNext, AddSentBytes, CountTunnel, UpdateHistoryReads, UpdateHistoryStores,
    Request, ReadStats, UpdateMetrics, Reply, programVars

\* The files and the command line do not change.
LEMMA SetupStays == ASSUME [ProgramNext]_programVars PROVE setup' = setup
  BY ConfigStays, Zenon DEF LoadConfig, ParseFlags, Shutdown

LEMMA ConfigStarts == ProgramInit => ConfigInv
  BY DEF ProgramInit, ConfigInv

LEMMA ConfigKept == ASSUME ConfigInv, [ProgramNext]_programVars PROVE ConfigInv'
<1>1. Loaded' = Loaded /\ FileReadable(setup)' = FileReadable(setup)
  BY SetupStays, Zenon DEF Loaded, Merged, FlagsSeen, FileRead, FileOf, FileReadable
<1>2. Valid(Loaded)' = Valid(Loaded)
  BY <1>1, Zenon DEF Valid
<1>3. CASE LoadConfig
  <2>1. \/ phase' = "check" /\ cfg' = Loaded /\ FileReadable(setup)
        \/ phase' = "refused" /\ ~FileReadable(setup)
    BY <1>3, Zenon DEF LoadConfig, Loaded, FileRead
  <2> QED
    BY <1>1, <1>2, <2>1 DEF ConfigInv
<1>4. CASE ParseFlags
  <2>1. /\ phase' = IF Valid(Loaded) THEN "run" ELSE "refused"
        /\ cfg' = [Loaded EXCEPT !.sendQueueSize = Defaults.sendQueueSize]
        /\ FileReadable(setup)
    BY <1>4, Zenon DEF ParseFlags, ConfigInv
  <2> QED
    BY <1>1, <1>2, <2>1 DEF ConfigInv
<1>5. CASE Shutdown
  BY <1>5 DEF Shutdown, ConfigInv
<1>6. CASE ~LoadConfig /\ ~ParseFlags /\ ~Shutdown
  BY <1>1, <1>2, <1>6, ConfigStays, Zenon DEF ConfigInv
<1> QED
  BY <1>3, <1>4, <1>5, <1>6

\* A mode of one of the names passes when it has lost its capitals.
LEMMA ModesOf == ASSUME NEW S, NEW m PROVE ToLower(m) \in Modes(S) <=> m.name \in S
  BY DEF ToLower, Modes, Mode

\* The checks of parseFlags are passed by what is workable, and by nothing else.
LEMMA ValidIsWorkable == Valid(Loaded) <=> Workable
<1> DEFINE m == Merged(setup, FileRead)
           Wide == DOMAIN Defaults
<1>1. DOMAIN m = Wide /\ \A o \in Wide : o # "useSyslog" => m[o] = Wanted(o)
  BY MergedIsWanted, Zenon
<1>2. Wide = {"mode", "password", "listen", "dest", "tunnelN", "status", "acl", "useSyslog",
              "sendQueueSize"}
  BY DEF Defaults
<1>3. Loaded = [m EXCEPT !.mode = ToLower(@)]
  BY Zenon DEF Loaded
<1> HIDE DEF m, Wide
<1>4. Loaded["mode"] = ToLower(Wanted("mode"))
  BY <1>1, <1>2, <1>3
<1>5. /\ Loaded["password"] = Wanted("password") /\ Loaded["listen"] = Wanted("listen")
      /\ Loaded["dest"] = Wanted("dest") /\ Loaded["tunnelN"] = Wanted("tunnelN")
  BY <1>1, <1>2, <1>3
<1>6. /\ Loaded["mode"] \in Modes({"c", "client", "s", "server"}) <=>
           Wanted("mode").name \in {"c", "client", "s", "server"}
      /\ Loaded["mode"] \in Modes({"c", "client"}) <=> Wanted("mode").name \in {"c", "client"}
  BY <1>4, ModesOf, Zenon
<1>7. Defaults["password"] = "PASSWORD"
  BY DEF Defaults
<1> QED
  BY <1>5, <1>6, <1>7, Zenon DEF Valid, Workable, WantsClient

LEMMA ConfigFollows == ConfigInv => RunsAsConfigured
<1> SUFFICES ASSUME ConfigInv PROVE RunsAsConfigured
  OBVIOUS
<1> DEFINE m == Merged(setup, FileRead)
           Wide == DOMAIN Defaults
<1>1. ASSUME phase = "run", NEW o \in Wide \ {"mode", "useSyslog", "sendQueueSize"}
      PROVE  cfg[o] = Wanted(o)
  <2>1. cfg = [Loaded EXCEPT !.sendQueueSize = Defaults.sendQueueSize]
    BY <1>1, Zenon DEF ConfigInv
  <2>2. DOMAIN m = Wide /\ \A p \in Wide : p # "useSyslog" => m[p] = Wanted(p)
    BY MergedIsWanted, Zenon
  <2>3. Loaded = [m EXCEPT !.mode = ToLower(@)]
    BY Zenon DEF Loaded
  <2> HIDE DEF m, Wide
  <2> QED
    BY <1>1, <2>1, <2>2, <2>3, Zenon
<1> QED
  BY <1>1, ValidIsWorkable, Zenon DEF ConfigInv, RunsAsConfigured

-----------------------------------------------------------------------------
(* Types.                                                                   *)

Data == [total_sent_bytes : Nat, tunnel_count : {0, 1}]
\* What a handler holds between requests, on its way to a page, and with the
\* statistics it has read; and a sample of the history.
Free == [at : {"idle"}, left : Nat]
Asked == [at : Pages, left : Nat \ {0}, from : Addresses, login : BOOLEAN]
Served == [at : {"show"} \cup Setting, left : Nat \ {0}, data : Data]
Samples == [bytes : Nat, time : Nat]

\* The types of the state, as far as the proofs need them.
ProgramTypes ==
  /\ total \in Nat /\ tunnels \in {0, 1} /\ clock \in Nat /\ sentBytes \in Nat
  /\ sentHistory \in Seq(Nat) /\ timestamps \in Seq(Nat)
  /\ sampling \in Seq(Samples) /\ samples \in Seq(Samples)
  /\ handler \in [Handlers -> Free \cup Asked \cup Served]
  /\ gauges \in [Gauges -> Nat]
  /\ current \in [Handlers -> SUBSET Data]

LEMMA Bounds ==
  /\ Modulus \in Nat /\ Modulus > 0 /\ HistorySize \in Nat /\ HistorySize > 0
  /\ MaxRequests \in Nat /\ BlockSizes \subseteq Nat
  BY ProgramAssumption

LEMMA Handling ==
  ASSUME NEW r \in Free \cup Asked \cup Served
  PROVE  /\ r.at \in {"idle", "show"} \cup Pages \cup Setting /\ r.left \in Nat
         /\ r.at # "idle" => r.left # 0
         /\ r.at \in Pages => r \in Asked
         /\ r.at \in {"show"} \cup Setting => r \in Served
  BY DEF Free, Asked, Served, Pages, Setting

LEMMA IdleType == \A n \in Nat : Idle(n) \in Free /\ Idle(n).at = "idle"
  BY DEF Idle, Free

\* Of the gauges only the byte count is set: see TypeOfGauge.
LEMMA GaugeNames == Gauges = {"total_sent_bytes", "tunnel_count"} /\ Settable = {"total_sent_bytes"}
  BY DEF Gauges, Settable, TypeOfGauge, TypeOfData

LEMMA NewestType == \A S : \A s \in Seq(S) : Newest(s) \in Seq(S)
  BY Bounds DEF Newest

LEMMA TypesStart == ProgramInit => ProgramTypes
<1> SUFFICES ASSUME ProgramInit PROVE ProgramTypes
  OBVIOUS
<1>1. Idle(MaxRequests) \in Free
  BY Bounds, IdleType
<1> QED
  BY <1>1 DEF ProgramInit, ProgramTypes

LEMMA ProgramTypesKept == ASSUME ProgramTypes, [ProgramNext]_programVars PROVE ProgramTypes'
<1> USE DEF ProgramTypes
<1>1. CASE LoadConfig \/ ParseFlags \/ UNCHANGED programVars
  BY <1>1, Zenon DEF LoadConfig, ParseFlags, statistics, history, pages, noted, programVars
<1>2. CASE Shutdown
  <2>1. Idle(0) \in Free
    BY IdleType
  <2> QED
    BY <1>2, <2>1 DEF Shutdown, statistics
<1>3. ASSUME NEW n \in BlockSizes, AddSentBytes(n) PROVE ProgramTypes'
  <2>1. total' \in Nat /\ sentBytes' \in Nat
    BY <1>3, Bounds DEF AddSentBytes
  <2> QED
    BY <1>3, <2>1, Zenon DEF AddSentBytes, history, pages
<1>4. CASE CountTunnel
  BY <1>4 DEF CountTunnel, history, pages, noted
<1>5. CASE UpdateHistoryReads
  <2>1. clock' \in Nat /\ sampling' = <<[bytes |-> total, time |-> clock']>>
        /\ samples' = Append(samples, [bytes |-> sentBytes, time |-> clock'])
    BY <1>5 DEF UpdateHistoryReads
  <2>2. [bytes |-> total, time |-> clock'] \in Samples /\ [bytes |-> sentBytes, time |-> clock'] \in Samples
    BY <2>1 DEF Samples
  <2>3. sampling' \in Seq(Samples) /\ samples' \in Seq(Samples)
    BY <2>1, <2>2
  <2> QED
    BY <1>5, <2>1, <2>3, Zenon DEF UpdateHistoryReads, pages
<1>6. CASE UpdateHistoryStores
  <2>1. Head(sampling) \in Samples
    BY <1>6 DEF UpdateHistoryStores
  <2>2. Append(sentHistory, Head(sampling).bytes) \in Seq(Nat)
        /\ Append(timestamps, Head(sampling).time) \in Seq(Nat)
    BY <2>1 DEF Samples
  <2>3. sentHistory' \in Seq(Nat) /\ timestamps' \in Seq(Nat)
    BY <1>6, <2>2, NewestType, Zenon DEF UpdateHistoryStores
  <2>4. sampling' \in Seq(Samples)
    BY <1>6 DEF UpdateHistoryStores
  <2> QED
    BY <1>6, <2>3, <2>4, Zenon DEF UpdateHistoryStores, statistics, pages, noted
<1>7. ASSUME NEW h \in Handlers, NEW a \in Addresses, NEW login \in BOOLEAN, NEW page \in Pages,
             Request(h, a, login, page)
      PROVE  ProgramTypes'
  <2>0. handler[h].left > 0
    BY <1>7, Zenon DEF Request
  <2>1. handler[h] \in Free \cup Asked \cup Served /\ handler[h].left \in Nat \ {0}
    BY <2>0, Handling
  <2>2. [at |-> page, left |-> handler[h].left, from |-> a, login |-> login] \in Asked
    BY <2>1 DEF Asked
  <2>3. Idle(handler[h].left - 1) \in Free
    BY <2>1, IdleType
  <2>4. \/ handler' = [handler EXCEPT ![h] =
                         [at |-> page, left |-> handler[h].left, from |-> a, login |-> login]]
        \/ handler' = [handler EXCEPT ![h] = Idle(handler[h].left - 1)]
    BY <1>7, Zenon DEF Request
  <2>5. handler' \in [Handlers -> Free \cup Asked \cup Served]
    BY <2>2, <2>3, <2>4
  <2>6. current' \in [Handlers -> SUBSET Data]
    <3>1. CASE current' = current
      BY <3>1
    <3>2. CASE current' = [current EXCEPT ![h] =
                            {handler[g].data : g \in {g \in Handlers : handler[g].at \in Setting}}]
      <4>1. \A g \in Handlers : handler[g].at \in Setting => handler[g].data \in Data
        BY Handling DEF Served
      <4> QED
        BY <3>2, <4>1
    <3> QED
      BY <1>7, <3>1, <3>2, Zenon DEF Request
  <2> QED
    BY <1>7, <2>5, <2>6, Zenon DEF Request, statistics, history
<1>8. ASSUME NEW h \in Handlers, ReadStats(h) PROVE ProgramTypes'
  <2>1. handler[h] \in Free \cup Asked \cup Served /\ handler[h].left \in Nat \ {0}
    BY <1>8, Handling DEF ReadStats, Pages
  <2>2. Stats \in Data
    BY DEF Stats, Data
  <2>3. \A w \in {"set", "show"} : [at |-> w, left |-> handler[h].left, data |-> Stats] \in Served
    BY <2>1, <2>2 DEF Served, Setting
  <2>4. \E w \in {"set", "show"} :
          handler' = [handler EXCEPT ![h] = [at |-> w, left |-> handler[h].left, data |-> Stats]]
    BY <1>8, Zenon DEF ReadStats
  <2>5. handler' \in [Handlers -> Free \cup Asked \cup Served]
    BY <2>3, <2>4
  <2>6. current' \in [Handlers -> SUBSET Data]
    BY <1>8, <2>2 DEF ReadStats
  <2> QED
    BY <1>8, <2>5, <2>6, Zenon DEF ReadStats, statistics, history
<1>9. ASSUME NEW h \in Handlers, UpdateMetrics(h) PROVE ProgramTypes'
  <2>1. handler[h] \in Served /\ handler[h].data \in Data
    BY <1>9, Handling DEF UpdateMetrics, Setting, Served
  <2>2. [handler[h] EXCEPT !.at = "serve"] \in Served
    BY <2>1, Zenon DEF Served, Setting
  <2>3. handler' \in [Handlers -> Free \cup Asked \cup Served]
    BY <1>9, <2>2 DEF UpdateMetrics
  <2>4. \A g \in Gauges : handler[h].data[g] \in Nat
    BY <2>1, GaugeNames DEF Data
  <2>5. gauges' \in [Gauges -> Nat]
    BY <1>9, <2>4 DEF UpdateMetrics
  <2> QED
    BY <1>9, <2>3, <2>5, Zenon DEF UpdateMetrics, statistics, history, noted
<1>10. ASSUME NEW h \in Handlers, Reply(h) PROVE ProgramTypes'
  <2>1. handler[h] \in Free \cup Asked \cup Served /\ handler[h].left \in Nat \ {0}
    BY <1>10, Handling DEF Reply, Pages, Setting
  <2>2. Idle(handler[h].left - 1) \in Free
    BY <2>1, IdleType
  <2>3. handler' \in [Handlers -> Free \cup Asked \cup Served]
    BY <1>10, <2>2 DEF Reply
  <2>4. current' \in [Handlers -> SUBSET Data]
    BY <1>10 DEF Reply
  <2> QED
    BY <1>10, <2>3, <2>4, Zenon DEF Reply, statistics, history
<1> QED
  BY <1>1, <1>2, <1>3, <1>4, <1>5, <1>6, <1>7, <1>8, <1>9, <1>10, Zenon DEF ProgramNext

-----------------------------------------------------------------------------
\* Of the requests that were let in.
Admitted(from, login) ==
  /\ \/ Listed(from)
     \/ from \notin V4 /\ \E a \in Addresses \ V4 : First32[a] = First32[from] /\ Listed(a)
  /\ Wanted("status") = "login" => login

\* Only requests and the shutdown change the handlers and the gauges.
LEMMA HandlersStay ==
  ASSUME [ProgramNext]_programVars, ~Shutdown,
         \A h \in Handlers, a \in Addresses, login \in BOOLEAN, page \in Pages :
           ~Request(h, a, login, page),
         \A h \in Handlers : ~ReadStats(h) /\ ~UpdateMetrics(h) /\ ~Reply(h)
  PROVE  handler' = handler /\ gauges' = gauges /\ current' = current
  BY Zenon
     DEF ProgramNext, LoadConfig, ParseFlags, AddSentBytes, CountTunnel, UpdateHistoryReads,
    UpdateHistoryStores, pages, noted, programVars

\* A request that the access list and the login let pass is one that is wanted.
LEMMA Allowed ==
  ASSUME ConfigInv, phase = "run", NEW a \in Addresses, NEW login \in BOOLEAN,
         IsIPInSubnets(a) = "allowed", Authorized(login)
  PROVE  Admitted(a, login)
<1>1. cfg["acl"] = Wanted("acl") /\ cfg["status"] = Wanted("status")
  <2>1. {"acl", "status"} \subseteq DOMAIN Defaults \ {"mode", "useSyslog", "sendQueueSize"}
    BY DEF Defaults
  <2> QED
    BY <2>1, ConfigFollows, Zenon DEF RunsAsConfigured
<1>2. PICK i \in DOMAIN Acls : a \in Covers(Acls[i])
  <2>1. \E i \in DOMAIN Acls : a \in Covers(Acls[i])
    BY DEF IsIPInSubnets
  <2> QED
    BY <2>1, Zenon
<1>3. CASE cfg["acl"] = <<>>
  <2>1. Acls = <<Network(V4)>>
    BY <1>3, Zenon DEF Acls
  <2>2. i = 1 /\ Covers(Acls[1]) = V4
    BY <1>2, <2>1 DEF Network, Covers
  <2> QED
    BY <1>1, <1>2, <1>3, <2>2, Zenon DEF Admitted, Authorized, Listed
<1>4. CASE cfg["acl"] # <<>>
  <2>1. Acls = Wanted("acl")
    BY <1>1, <1>4, Zenon DEF Acls
  <2>2. \A b \in Acls[i].addresses : Listed(b)
    BY <1>2, <2>1, Zenon DEF Listed
  <2>3. CASE Acls[i].kind # "bare"
    BY <1>1, <1>2, <2>2, <2>3, Zenon DEF Admitted, Authorized, Covers
  <2>4. CASE Acls[i].kind = "bare"
    <3>1. PICK b \in Acls[i].addresses \cap Addresses : First32[a] = First32[b]
      BY <1>2, <2>4, Zenon DEF Covers
    <3>2. a # b => a \notin V4 /\ b \notin V4
      BY <3>1, ProgramAssumption, Zenon
    <3> QED
      BY <1>1, <2>2, <3>1, <3>2, Zenon DEF Admitted, Authorized
  <2> QED
    BY <2>3, <2>4
<1> QED
  BY <1>3, <1>4

\* A request is at a page only if it may be.
GuardInv == \A h \in Handlers : handler[h].at \in Pages => Admitted(handler[h].from, handler[h].login)

LEMMA GuardKept ==
  ASSUME ProgramTypes, ConfigInv, GuardInv, [ProgramNext]_programVars
  PROVE  GuardInv'
<1>1. setup' = setup
  BY SetupStays
<1>2. \A f, l : Admitted(f, l)' <=> Admitted(f, l)
  <2>1. Wanted("acl")' = Wanted("acl") /\ Wanted("status")' = Wanted("status")
    BY <1>1, Zenon DEF Wanted, FileOf
  <2> QED
    BY <2>1, Zenon DEF Admitted, Listed
<1> SUFFICES ASSUME NEW k \in Handlers, handler'[k].at \in Pages
             PROVE  Admitted(handler'[k].from, handler'[k].login)
  BY <1>2, Zenon DEF GuardInv
<1>3. CASE handler'[k] = handler[k]
  BY <1>3, Zenon DEF GuardInv
<1>4. CASE Shutdown
  <2>1. handler'[k] = Idle(0)
    BY <1>4, Zenon DEF Shutdown
  <2> QED
    BY <2>1, IdleType DEF Pages
<1>5. ASSUME NEW h \in Handlers, NEW a \in Addresses, NEW login \in BOOLEAN, NEW page \in Pages,
             Request(h, a, login, page), handler'[k] # handler[k]
      PROVE  Admitted(handler'[k].from, handler'[k].login)
  <2>1. k = h
    BY <1>5, Zenon DEF Request, ProgramTypes
  <2>2. CASE IsIPInSubnets(a) = "allowed" /\ Authorized(login)
    <3>1. handler'[h] = [at |-> page, left |-> handler[h].left, from |-> a, login |-> login]
      BY <1>5, <2>2, Zenon DEF Request, ProgramTypes
    <3>2. Admitted(a, login)
      BY <1>5, <2>2, Allowed, Zenon DEF Request
    <3> QED
      BY <2>1, <3>1, <3>2
  <2>3. CASE IsIPInSubnets(a) # "allowed" \/ ~Authorized(login)
    <3>1. handler'[h] = Idle(handler[h].left - 1)
      BY <1>5, <2>3, Zenon DEF Request, ProgramTypes
    <3> QED
      BY <2>1, <3>1 DEF Idle, Pages
  <2> QED
    BY <2>2, <2>3
<1>6. ASSUME NEW h \in Handlers, ReadStats(h) \/ UpdateMetrics(h) \/ Reply(h), handler'[k] # handler[k]
      PROVE  FALSE
  <2>1. k = h
    BY <1>6 DEF ReadStats, UpdateMetrics, Reply, ProgramTypes
  <2>2. handler'[h].at \in {"idle", "show", "set", "serve"}
    <3>1. CASE ReadStats(h)
      BY <3>1 DEF ReadStats, ProgramTypes
    <3>2. CASE UpdateMetrics(h)
      <4>1. handler[h] \in Served
        BY <3>2, Handling DEF UpdateMetrics, Setting, ProgramTypes
      <4> QED
        BY <3>2, <4>1 DEF UpdateMetrics, ProgramTypes, Served
    <3>3. CASE Reply(h)
      <4>1. handler'[h] = Idle(handler[h].left - 1)
        BY <3>3 DEF Reply, ProgramTypes
      <4> QED
        BY <4>1 DEF Idle
    <3> QED
      BY <1>6, <3>1, <3>2, <3>3
  <2> QED
    BY <2>1, <2>2 DEF Pages
<1> QED
  BY <1>3, <1>4, <1>5, <1>6, HandlersStay, Zenon

-----------------------------------------------------------------------------
(* The metrics.                                                             *)

Metering == {"metrics"} \cup Setting

\* Of a request for the metrics: what it or another one may put into the gauges
\* is noted for it, and so is what one has put there.
MetricsInv ==
  /\ \A h, g \in Handlers :
       handler[h].at \in Metering /\ handler[g].at \in Setting => handler[g].data \in current[h]
  /\ \A h \in Handlers :
       handler[h].at = "serve" =>
         \E d \in current[h] : gauges["total_sent_bytes"] = d["total_sent_bytes"]

LEMMA MetricsKept == ASSUME ProgramTypes, MetricsInv, [ProgramNext]_programVars PROVE MetricsInv'
<1>0. DOMAIN handler = Handlers /\ DOMAIN current = Handlers
  BY DEF ProgramTypes
<1>1. CASE handler' = handler /\ gauges' = gauges /\ current' = current
  BY <1>1, Zenon DEF MetricsInv
<1>2. CASE Shutdown
  <2>1. \A h \in Handlers : handler'[h].at = "idle"
    BY <1>2, IdleType DEF Shutdown
  <2> QED
    BY <2>1 DEF MetricsInv, Metering, Setting
<1>3. ASSUME NEW k \in Handlers, NEW a \in Addresses, NEW login \in BOOLEAN, NEW page \in Pages,
             Request(k, a, login, page)
      PROVE  MetricsInv'
  <2>1. gauges' = gauges /\ \A h \in Handlers : h # k => handler'[h] = handler[h] /\ current'[h] = current[h]
    BY <1>0, <1>3, Zenon DEF Request
  <2>2. handler'[k].at \notin Setting
    <3>1. \/ handler'[k] = [at |-> page, left |-> handler[k].left, from |-> a, login |-> login]
          \/ handler'[k] = Idle(handler[k].left - 1)
      BY <1>0, <1>3, Zenon DEF Request
    <3> QED
      BY <3>1 DEF Idle, Pages, Setting
  <2>3. handler'[k].at = "metrics" =>
          \A g \in Handlers : handler[g].at \in Setting => handler[g].data \in current'[k]
    <3>1. CASE IsIPInSubnets(a) = "allowed" /\ Authorized(login)
      <4>1. current'[k] = {handler[g].data : g \in {g \in Handlers : handler[g].at \in Setting}}
        BY <1>0, <1>3, <3>1, Zenon DEF Request
      <4> QED
        BY <4>1
    <3>2. CASE IsIPInSubnets(a) # "allowed" \/ ~Authorized(login)
      <4>1. handler'[k] = Idle(handler[k].left - 1)
        BY <1>0, <1>3, <3>2, Zenon DEF Request
      <4> QED
        BY <4>1 DEF Idle
    <3> QED
      BY <3>1, <3>2
  <2>4. ASSUME NEW h \in Handlers, NEW g \in Handlers, handler'[h].at \in Metering, handler'[g].at \in Setting
        PROVE  handler'[g].data \in current'[h]
    <3>1. g # k /\ handler'[g] = handler[g]
      BY <2>1, <2>2, <2>4
    <3>2. CASE h = k
      BY <2>2, <2>3, <2>4, <3>1, <3>2 DEF Metering
    <3>3. CASE h # k
      BY <2>1, <2>4, <3>1, <3>3, Zenon DEF MetricsInv
    <3> QED
      BY <3>2, <3>3
  <2>5. ASSUME NEW h \in Handlers, handler'[h].at = "serve"
        PROVE  \E d \in current'[h] : gauges'["total_sent_bytes"] = d["total_sent_bytes"]
    <3>1. h # k
      BY <2>2, <2>5 DEF Setting
    <3> QED
      BY <2>1, <2>5, <3>1, Zenon DEF MetricsInv
  <2> QED
    BY <2>4, <2>5, Zenon DEF MetricsInv
<1>4. ASSUME NEW k \in Handlers, ReadStats(k) PROVE MetricsInv'
  <2>1. /\ gauges' = gauges /\ handler[k].at \in {"status", "metrics"}
        /\ \A h \in Handlers : h # k => handler'[h] = handler[h]
    BY <1>0, <1>4 DEF ReadStats
  <2>2. handler'[k].at = (IF handler[k].at = "metrics" THEN "set" ELSE "show") /\ handler'[k].data = Stats
    BY <1>0, <1>4 DEF ReadStats
  <2>3. \A h \in Handlers : current[h] \subseteq current'[h]
    BY <1>4 DEF ReadStats
  <2>4. handler[k].at = "metrics" =>
          \A h \in Handlers : handler[h].at \in Metering => Stats \in current'[h]
    BY <1>4 DEF ReadStats, Metering
  <2>5. \A h \in Handlers : handler'[h].at \in Metering => handler[h].at \in Metering
    BY <2>1, <2>2 DEF Metering, Setting
  <2>6. ASSUME NEW h \in Handlers, NEW g \in Handlers, handler'[h].at \in Metering, handler'[g].at \in Setting
        PROVE  handler'[g].data \in current'[h]
    <3>1. CASE g = k
      BY <2>2, <2>4, <2>5, <2>6, <3>1 DEF Setting
    <3>2. CASE g # k
      BY <2>1, <2>3, <2>5, <2>6, <3>2, Zenon DEF MetricsInv
    <3> QED
      BY <3>1, <3>2
  <2>7. ASSUME NEW h \in Handlers, handler'[h].at = "serve"
        PROVE  \E d \in current'[h] : gauges'["total_sent_bytes"] = d["total_sent_bytes"]
    <3>1. h # k
      BY <2>2, <2>7
    <3> QED
      BY <2>1, <2>3, <2>7, <3>1, Zenon DEF MetricsInv
  <2> QED
    BY <2>6, <2>7, Zenon DEF MetricsInv
<1>5. ASSUME NEW k \in Handlers, UpdateMetrics(k) PROVE MetricsInv'
  <2>1. /\ current' = current /\ handler[k].at = "set"
        /\ \A h \in Handlers : h # k => handler'[h] = handler[h]
    BY <1>0, <1>5 DEF UpdateMetrics, noted
  <2>2. handler'[k].at = "serve" /\ handler'[k].data = handler[k].data
    <3>1. handler[k] \in Served
      BY <2>1, Handling DEF ProgramTypes, Setting
    <3>2. handler'[k] = [handler[k] EXCEPT !.at = "serve"]
      BY <1>0, <1>5 DEF UpdateMetrics
    <3> QED
      BY <3>1, <3>2 DEF Served
  <2>3. gauges'["total_sent_bytes"] = handler[k].data["total_sent_bytes"]
    BY <1>5, GaugeNames DEF UpdateMetrics
  <2>4. \A h \in Handlers : /\ handler'[h].at \in Metering => handler[h].at \in Metering
                            /\ handler'[h].at \in Setting => handler[h].at \in Setting
                            /\ handler'[h].at \in Setting => handler'[h].data = handler[h].data
    BY <2>1, <2>2 DEF Metering, Setting
  <2>5. ASSUME NEW h \in Handlers, handler'[h].at = "serve"
        PROVE  handler[k].data \in current'[h]
    <3>1. handler[k].at \in Setting /\ handler[h].at \in Metering
      BY <2>1, <2>4, <2>5 DEF Metering, Setting
    <3> QED
      BY <2>1, <3>1, Zenon DEF MetricsInv
  <2> QED
    BY <2>1, <2>3, <2>4, <2>5, Zenon DEF MetricsInv
<1>6. ASSUME NEW k \in Handlers, Reply(k) PROVE MetricsInv'
  <2>1. gauges' = gauges /\ \A h \in Handlers : h # k => handler'[h] = handler[h] /\ current'[h] = current[h]
    BY <1>0, <1>6 DEF Reply
  <2>2. handler'[k].at = "idle"
    BY <1>0, <1>6 DEF Reply, Idle
  <2>3. handler'[k].at \notin Metering /\ handler'[k].at \notin Setting /\ handler'[k].at # "serve"
    BY <2>2 DEF Metering, Setting
  <2> QED
    BY <2>1, <2>3, Zenon DEF MetricsInv
<1> QED
  BY <1>1, <1>2, <1>3, <1>4, <1>5, <1>6, HandlersStay, Zenon

-----------------------------------------------------------------------------
(* The history of samples.                                                  *)

\* Samples that are in the histories.
Stored == Len(samples) - Len(sampling)

\* The counter is the true count, wrapped; samples of the true count only grow.
CountInv ==
  /\ total = sentBytes % Modulus
  /\ \A i, j \in 1 .. Len(samples) : i <= j => samples[i].bytes <= samples[j].bytes
  /\ \A i \in 1 .. Len(samples) : samples[i].bytes <= sentBytes

\* The history is the newest true samples, wrapped, without the one that
\* UpdateHistory has read and not stored yet.
HistoryInv ==
  phase # "stopped" =>
    /\ Len(sampling) \in {0, 1} /\ Len(sampling) <= Len(samples)
    /\ Len(sampling) = 1 =>
         /\ sampling[1].bytes = samples[Len(samples)].bytes % Modulus
         /\ sampling[1].time = samples[Len(samples)].time
    /\ Len(timestamps) = Len(sentHistory)
    /\ Len(sentHistory) = IF Stored <= HistorySize THEN Stored ELSE HistorySize
    /\ \A i \in 1 .. Len(sentHistory) :
         /\ sentHistory[i] = samples[Stored - Len(sentHistory) + i].bytes % Modulus
         /\ timestamps[i] = samples[Stored - Len(sentHistory) + i].time

LEMMA SampleTypes ==
  ASSUME NEW s \in Seq(Samples), NEW i \in 1 .. Len(s)
  PROVE  s[i].bytes \in Nat /\ s[i].time \in Nat
<1>1. s[i] \in Samples
  OBVIOUS
<1> QED
  BY <1>1 DEF Samples

\* t is s with x at its end, and without its first element if s was full.
Shifted(s, x, t) ==
  /\ Len(s) < HistorySize => /\ Len(t) = Len(s) + 1 /\ t[Len(s) + 1] = x
                             /\ \A i \in 1 .. Len(s) : t[i] = s[i]
  /\ Len(s) = HistorySize => /\ Len(t) = Len(s) /\ t[Len(s)] = x
                             /\ \A i \in 1 .. Len(s) - 1 : t[i] = s[i + 1]

\* What storing a sample does to a history that has room, and to a full one.
LEMMA NewestLaw ==
  ASSUME NEW s \in Seq(Nat), NEW x \in Nat, Len(s) <= HistorySize
  PROVE  Shifted(s, x, Newest(Append(s, x)))
<1> DEFINE w == Append(s, x)
           t == Newest(w)
<1>1. w \in Seq(Nat) /\ Len(w) = Len(s) + 1 /\ w[Len(s) + 1] = x /\ \A i \in 1 .. Len(s) : w[i] = s[i]
  OBVIOUS
<1> HIDE DEF w
<1>2. ASSUME Len(s) < HistorySize PROVE Shifted(s, x, t)
  <2>1. t = w
    BY <1>1, <1>2, Bounds DEF Newest
  <2> HIDE DEF t
  <2> QED
    BY <1>1, <1>2, <2>1 DEF Shifted
<1>3. ASSUME Len(s) = HistorySize PROVE Shifted(s, x, t)
  <2>1. t = Tail(w)
    BY <1>1, <1>3, Bounds DEF Newest
  <2>2. Tail(w) \in Seq(Nat) /\ Len(Tail(w)) = HistorySize
    BY <1>1, <1>3, Bounds
  <2>3. \A i \in 1 .. HistorySize : Tail(w)[i] = w[i + 1]
    BY <1>1, <1>3, <2>2, Bounds
  <2>4. Tail(w)[HistorySize] = x
    BY <1>1, <1>3, <2>3, Bounds
  <2>5. \A i \in 1 .. HistorySize - 1 : Tail(w)[i] = s[i + 1]
    BY <1>1, <1>3, <2>3, Bounds
  <2> HIDE DEF t
  <2> QED
    BY <1>3, <2>1, <2>2, <2>4, <2>5, Bounds DEF Shifted
<1> HIDE DEF t
<1>4. Shifted(s, x, t)
  BY <1>2, <1>3, Bounds
<1> QED
  BY <1>4, Zenon DEF t, w

\* What neither counts nor samples leaves the statistics alone.
LEMMA StatisticsStay ==
  ASSUME [ProgramNext]_programVars, ~Shutdown, \A n \in BlockSizes : ~AddSentBytes(n),
         ~UpdateHistoryReads, ~UpdateHistoryStores
  PROVE  /\ UNCHANGED <<total, sentBytes, samples, sampling, sentHistory, timestamps>>
         /\ phase' # "stopped" => phase # "stopped"
<1>1. UNCHANGED <<total, sentBytes, samples, sampling, sentHistory, timestamps>>
  BY Zenon
     DEF ProgramNext, LoadConfig, ParseFlags, CountTunnel, Request, ReadStats,
     UpdateMetrics,
    Reply, statistics, history, noted, programVars
<1>2. phase = "stopped" => phase' = "stopped"
  BY ConfigStays DEF LoadConfig, ParseFlags
<1> QED
  BY <1>1, <1>2, Zenon

LEMMA CountKept == ASSUME ProgramTypes, CountInv, [ProgramNext]_programVars PROVE CountInv'
<1>1. ASSUME NEW n \in BlockSizes, AddSentBytes(n) PROVE CountInv'
  <2>1. total' = (total + n) % Modulus /\ sentBytes' = sentBytes + n /\ samples' = samples
    BY <1>1, Zenon DEF AddSentBytes
  <2>2. sentBytes \in Nat /\ n \in Nat /\ Modulus \in Nat /\ Modulus > 0
    BY Bounds, Zenon DEF ProgramTypes
  <2>3. total' = sentBytes' % Modulus
    BY <2>1, <2>2, ModSum, Zenon DEF CountInv
  <2>4. \A i \in 1 .. Len(samples) : samples[i].bytes \in Nat
    BY SampleTypes, Zenon DEF ProgramTypes
  <2>5. \A i \in 1 .. Len(samples) : samples[i].bytes <= sentBytes'
    BY <2>1, <2>2, <2>4 DEF CountInv
  <2> QED
    BY <2>1, <2>3, <2>5, Zenon DEF CountInv
<1>2. CASE UpdateHistoryReads
  <2> DEFINE n == Len(samples)
  <2>1. PICK c \in Nat : samples' = Append(samples, [bytes |-> sentBytes, time |-> c])
    BY <1>2 DEF UpdateHistoryReads, ProgramTypes
  <2>2. total' = total /\ sentBytes' = sentBytes
    BY <1>2, Zenon DEF UpdateHistoryReads
  <2>3. [bytes |-> sentBytes, time |-> c] \in Samples /\ samples \in Seq(Samples) /\ sentBytes \in Nat
    BY DEF ProgramTypes, Samples
  <2>4. /\ n \in Nat /\ Len(samples') = n + 1 /\ samples'[n + 1].bytes = sentBytes
        /\ \A i \in 1 .. n : samples'[i] = samples[i]
    BY <2>1, <2>3
  <2>5. \A i \in 1 .. n + 1 : samples'[i].bytes <= sentBytes
    BY <2>3, <2>4 DEF CountInv
  <2>6. ASSUME NEW i \in 1 .. n + 1, NEW j \in 1 .. n + 1, i <= j
        PROVE  samples'[i].bytes <= samples'[j].bytes
    <3>1. CASE j = n + 1
      BY <2>4, <2>5, <3>1
    <3>2. CASE j # n + 1
      BY <2>4, <2>6, <3>2 DEF CountInv
    <3> QED
      BY <3>1, <3>2
  <2> QED
    BY <2>2, <2>4, <2>5, <2>6, Zenon DEF CountInv
<1>3. CASE Shutdown \/ UpdateHistoryStores
  BY <1>3, Zenon DEF Shutdown, UpdateHistoryStores, statistics, noted, CountInv
<1>4. CASE UNCHANGED <<total, sentBytes, samples>>
  BY <1>4, Zenon DEF CountInv
<1> QED
  BY <1>1, <1>2, <1>3, <1>4, StatisticsStay, Zenon

LEMMA HistoryKept ==
  ASSUME ProgramTypes, CountInv, HistoryInv, [ProgramNext]_programVars
  PROVE  HistoryInv'
<1>0. /\ samples \in Seq(Samples) /\ sampling \in Seq(Samples)
      /\ sentHistory \in Seq(Nat) /\ timestamps \in Seq(Nat)
  BY Zenon DEF ProgramTypes
<1>1. CASE Shutdown
  BY <1>1, Zenon DEF Shutdown, HistoryInv
<1>2. CASE /\ UNCHANGED <<samples, sampling, sentHistory, timestamps>>
           /\ phase' # "stopped" => phase # "stopped"
  BY <1>2, Zenon DEF HistoryInv, Stored
<1>3. ASSUME NEW n \in BlockSizes, AddSentBytes(n) PROVE HistoryInv'
  BY <1>3, Zenon DEF AddSentBytes, history, HistoryInv, Stored
<1>4. CASE UpdateHistoryReads
  <2> DEFINE n == Len(samples)
  <2>1. PICK c \in Nat : /\ samples' = Append(samples, [bytes |-> sentBytes, time |-> c])
                         /\ sampling' = <<[bytes |-> total, time |-> c]>>
    BY <1>4 DEF UpdateHistoryReads, ProgramTypes
  <2>2. sampling = <<>> /\ sentHistory' = sentHistory /\ timestamps' = timestamps /\ phase = "run"
    BY <1>4, Zenon DEF UpdateHistoryReads
  <2>3. [bytes |-> sentBytes, time |-> c] \in Samples
    BY DEF ProgramTypes, Samples
  <2>4. /\ n \in Nat /\ Len(samples') = n + 1
        /\ samples'[n + 1].bytes = sentBytes /\ samples'[n + 1].time = c
        /\ \A i \in 1 .. n : samples'[i] = samples[i]
    BY <1>0, <2>1, <2>3
  <2>5. Len(sampling') = 1 /\ sampling'[1].bytes = sentBytes % Modulus /\ sampling'[1].time = c
    BY <2>1 DEF CountInv
  <2>6. Stored = n /\ Stored' = n
    BY <2>2, <2>4, <2>5 DEF Stored
  <2> HIDE DEF n
  <2>7. /\ Len(timestamps) = Len(sentHistory) /\ Len(sentHistory) \in Nat
        /\ Len(sentHistory) = IF n <= HistorySize THEN n ELSE HistorySize
        /\ \A i \in 1 .. Len(sentHistory) :
             /\ sentHistory[i] = samples[n - Len(sentHistory) + i].bytes % Modulus
             /\ timestamps[i] = samples[n - Len(sentHistory) + i].time
    BY <1>0, <2>2, <2>6 DEF HistoryInv
  <2>8. \A i \in 1 .. Len(sentHistory) : n - Len(sentHistory) + i \in 1 .. n
    BY <2>4, <2>7, Bounds
  <2>9. \A i \in 1 .. Len(sentHistory) :
          /\ sentHistory'[i] = samples'[n - Len(sentHistory) + i].bytes % Modulus
          /\ timestamps'[i] = samples'[n - Len(sentHistory) + i].time
    BY <2>2, <2>4, <2>7, <2>8, Zenon
  <2>10. Len(sampling') \in {0, 1} /\ Len(sampling') <= Len(samples')
    BY <2>4, <2>5
  <2> QED
    BY <2>2, <2>4, <2>5, <2>6, <2>7, <2>9, <2>10, Zenon DEF HistoryInv
<1>5. CASE UpdateHistoryStores
  <2> DEFINE n == Len(samples)
             m == Len(sentHistory)
             b == Head(sampling).bytes
             t == Head(sampling).time
  <2>1. /\ sampling # <<>> /\ sampling' = <<>> /\ phase = "run" /\ samples' = samples
        /\ sentHistory' = Newest(Append(sentHistory, b))
        /\ timestamps' = Newest(Append(timestamps, t))
    BY <1>5, Zenon DEF UpdateHistoryStores, noted
  <2>0. Len(sampling) \in {0, 1} /\ Len(sampling) <= n
    BY <2>1 DEF HistoryInv
  <2>2. Len(sampling) = 1 /\ n >= 1 /\ n \in Nat /\ m \in Nat /\ Stored = n - 1 /\ Stored' = n
    <3>1. Len(sampling) = 1 /\ n \in Nat /\ m \in Nat
      BY <1>0, <2>0, <2>1
    <3>2. Len(sampling') = 0
      BY <2>1
    <3> QED
      BY <2>0, <2>1, <3>1, <3>2 DEF Stored
  <2>13. Head(sampling) = sampling[1] /\ Head(sampling) \in Samples
    BY <1>0, <2>1
  <2>3. b = samples[n].bytes % Modulus /\ t = samples[n].time
    BY <2>1, <2>2, <2>13 DEF HistoryInv
  <2>4. b \in Nat /\ t \in Nat
    BY <2>13 DEF Samples
  <2> HIDE DEF b, t
  <2>5. /\ Len(timestamps) = m /\ m = IF n - 1 <= HistorySize THEN n - 1 ELSE HistorySize
        /\ \A i \in 1 .. m : /\ sentHistory[i] = samples[n - 1 - m + i].bytes % Modulus
                             /\ timestamps[i] = samples[n - 1 - m + i].time
    BY <2>1, <2>2, Zenon DEF HistoryInv
  <2>6. m <= HistorySize
    BY <2>2, <2>5, Bounds
  <2>7. Shifted(sentHistory, b, sentHistory')
    BY <1>0, <2>1, <2>4, <2>6, NewestLaw, Zenon
  <2>8. Shifted(timestamps, t, timestamps')
    BY <1>0, <2>1, <2>4, <2>5, <2>6, NewestLaw, Zenon
  <2>14. /\ m < HistorySize => /\ Len(sentHistory') = m + 1 /\ sentHistory'[m + 1] = b
                               /\ \A i \in 1 .. m : sentHistory'[i] = sentHistory[i]
         /\ m = HistorySize => /\ Len(sentHistory') = m /\ sentHistory'[m] = b
                               /\ \A i \in 1 .. m - 1 : sentHistory'[i] = sentHistory[i + 1]
    BY <2>7, Zenon DEF Shifted
  <2>15. /\ m < HistorySize => /\ Len(timestamps') = m + 1 /\ timestamps'[m + 1] = t
                               /\ \A i \in 1 .. m : timestamps'[i] = timestamps[i]
         /\ m = HistorySize => /\ Len(timestamps') = m /\ timestamps'[m] = t
                               /\ \A i \in 1 .. m - 1 : timestamps'[i] = timestamps[i + 1]
    BY <2>5, <2>8, Zenon DEF Shifted
  <2> DEFINE l == Len(sentHistory')
  <2> HIDE DEF n, m
  <2>9. l = Len(timestamps') /\ l = IF n <= HistorySize THEN n ELSE HistorySize
    <3>1. /\ m < HistorySize => l = m + 1 /\ Len(timestamps') = m + 1
          /\ m = HistorySize => l = m /\ Len(timestamps') = m
          /\ m = IF n - 1 <= HistorySize THEN n - 1 ELSE HistorySize
      BY <2>5, <2>14, <2>15, Zenon
    <3> QED
      BY ONLY <2>2, <2>6, <3>1, Bounds
  <2>10. ASSUME NEW i \in 1 .. l
         PROVE  /\ sentHistory'[i] = samples[n - l + i].bytes % Modulus
                /\ timestamps'[i] = samples[n - l + i].time
    <3>1. CASE m < HistorySize
      <4>1. l = m + 1 /\ n = m + 1
        BY <2>2, <2>5, <2>14, <3>1, Bounds
      <4>2. CASE i = m + 1
        <5>1. n - l + i = n
          BY <2>2, <4>1, <4>2
        <5> QED
          BY <2>3, <2>14, <2>15, <3>1, <4>2, <5>1, Zenon
      <4>3. CASE i # m + 1
        <5>1. i \in 1 .. m /\ n - 1 - m + i = n - l + i
          BY <2>2, <4>1, <4>3
        <5> QED
          BY <2>5, <2>14, <2>15, <3>1, <5>1, Zenon
      <4> QED
        BY <4>2, <4>3
    <3>2. CASE m = HistorySize
      <4>1. l = m
        BY <2>14, <3>2
      <4>2. CASE i = m
        <5>1. n - l + i = n
          BY <2>2, <4>1, <4>2
        <5> QED
          BY <2>3, <2>14, <2>15, <3>2, <4>2, <5>1, Zenon
      <4>3. CASE i # m
        <5>1. i \in 1 .. m - 1 /\ i + 1 \in 1 .. m /\ n - 1 - m + (i + 1) = n - l + i
          BY <2>2, <4>1, <4>3
        <5> QED
          BY <2>5, <2>14, <2>15, <3>2, <5>1, Zenon
      <4> QED
        BY <4>2, <4>3
    <3>3. m < HistorySize \/ m = HistorySize
      BY ONLY <2>2, <2>6, Bounds
    <3> QED
      BY <3>1, <3>2, <3>3, Zenon
  <2>11. Len(sampling') = 0 /\ Len(samples') \in Nat
    BY <2>1, <2>2 DEF n
  <2>12. Len(sampling') \in {0, 1} /\ Len(sampling') <= Len(samples') /\ Len(sampling') # 1
    BY <2>11
  <2> QED
    BY <2>1, <2>2, <2>9, <2>10, <2>12, Zenon DEF HistoryInv
<1> QED
  BY <1>1, <1>2, <1>3, <1>4, <1>5, StatisticsStay, Zenon

\* GetStats subtracts the first sample of the history from the last.
LEMMA RateFollows == ProgramTypes /\ CountInv /\ HistoryInv => RateIsExact
<1> DEFINE n == Len(samples)
           first == IF n > HistorySize THEN samples[n - HistorySize + 1] ELSE samples[1]
           bytes == samples[n].bytes - first.bytes
           window == samples[n].time - first.time
           m == Len(timestamps)
<1> SUFFICES ASSUME ProgramTypes, CountInv, HistoryInv, phase = "run", sampling = <<>>, n >= 2,
                    window > 0, bytes < Modulus
             PROVE  Rate = [bytes |-> bytes, window |-> window]
  BY Zenon DEF RateIsExact
<1>1. n \in Nat /\ Stored = n
  BY DEF ProgramTypes, Stored
<1>2. /\ Len(sentHistory) = m /\ m = IF n <= HistorySize THEN n ELSE HistorySize
      /\ \A i \in 1 .. m : /\ sentHistory[i] = samples[n - m + i].bytes % Modulus
                           /\ timestamps[i] = samples[n - m + i].time
  BY <1>1, Zenon DEF HistoryInv
<1> HIDE DEF n, m
<1>3. m \in 1 .. n /\ n - m + 1 \in 1 .. n /\ n - m + m = n
  BY <1>1, <1>2, Bounds
<1>4. first = samples[n - m + 1]
  <2>1. CASE n > HistorySize
    BY <1>1, <1>2, <2>1, Bounds
  <2>2. CASE ~(n > HistorySize)
    <3>1. n - m + 1 = 1
      BY <1>1, <1>2, <2>2, Bounds
    <3> QED
      BY <2>2, <3>1
  <2> QED
    BY <2>1, <2>2
<1>5. \A i \in 1 .. n : samples[i].bytes \in Nat /\ samples[i].time \in Nat
  BY SampleTypes, Zenon DEF ProgramTypes, n
<1>6. /\ sentHistory[1] = first.bytes % Modulus /\ timestamps[1] = first.time
      /\ sentHistory[m] = samples[n].bytes % Modulus /\ timestamps[m] = samples[n].time
  <2>1. 1 \in 1 .. m /\ m \in 1 .. m
    BY <1>3
  <2> QED
    BY <1>2, <1>3, <1>4, <2>1, Zenon
<1>7. /\ first.bytes \in Nat /\ samples[n].bytes \in Nat /\ first.time \in Nat
      /\ samples[n].time \in Nat /\ first.bytes <= samples[n].bytes
  <2>1. n - m + 1 <= n /\ n \in 1 .. n
    BY <1>1, <1>3
  <2>2. samples[n - m + 1].bytes <= samples[n].bytes
    BY <1>3, <2>1, Zenon DEF CountInv, n
  <2> QED
    BY <1>3, <1>4, <1>5, <2>1, <2>2, Zenon
<1>8. m # 1
  <2>1. m = 1 => first = samples[n]
    BY <1>1, <1>4
  <2> QED
    BY <1>7, <2>1
<1> HIDE DEF first
<1>9. (sentHistory[m] + Modulus - sentHistory[1]) % Modulus = bytes
  <2>1. ((samples[n].bytes % Modulus) + Modulus - (first.bytes % Modulus)) % Modulus = bytes
    BY <1>7, Bounds, Unwrap, Zenon
  <2> QED
    BY <1>6, <2>1, Zenon
<1>10. timestamps[m] - timestamps[1] = window /\ ~(window <= 0) /\ ~(m < 2)
  BY <1>3, <1>6, <1>7, <1>8
<1> QED
  BY <1>9, <1>10, Zenon DEF Rate, m

-----------------------------------------------------------------------------
(* The theorems.                                                            *)

ProgramInv ==
  /\ ProgramTypes /\ ConfigInv /\ GuardInv /\ MetricsInv
  /\ CountInv /\ HistoryInv

LEMMA ProgramStarts == ProgramInit => ProgramInv
<1> SUFFICES ASSUME ProgramInit PROVE ProgramInv
  OBVIOUS
<1>1. ProgramTypes /\ ConfigInv
  BY TypesStart, ConfigStarts
<1>2. \A h \in Handlers : handler[h].at = "idle"
  BY Bounds, IdleType DEF ProgramInit
<1>3. GuardInv /\ MetricsInv
  BY <1>2 DEF GuardInv, MetricsInv, Metering, Setting, Pages
<1>4. 0 = 0 % Modulus
  BY Bounds
<1>5. CountInv
  BY <1>4 DEF ProgramInit, CountInv
<1>6. /\ samples = <<>> /\ sampling = <<>> /\ sentHistory = <<>> /\ timestamps = <<>>
  BY Zenon DEF ProgramInit
<1>7. HistoryInv
  BY <1>6, Bounds DEF HistoryInv, Stored
<1> QED
  BY <1>1, <1>3, <1>5, <1>7 DEF ProgramInv

\* The inductive invariant that the theorems below follow from: the
\* configuration is what LoadConfig made of the layers, whoever has a page was
\* let in, what may reach the gauges is noted for the requests under way, and
\* the two histories are the last samples, in step.
THEOREM ProgramInvariance == ProgramSpec => []ProgramInv
<1>1. ProgramInit => ProgramInv
  BY ProgramStarts
<1>2. ProgramInv /\ [ProgramNext]_programVars => ProgramInv'
  BY ProgramTypesKept, ConfigKept, GuardKept, MetricsKept, CountKept, HistoryKept,
     Zenon DEF ProgramInv
<1> QED
  BY <1>1, <1>2, PTL DEF ProgramSpec

\* LoadConfig and parseFlags let the program run exactly with the configurations
\* that are readable and workable, and it has the options that the command line,
\* else the file, else the defaults give it, for every command line and file.  A
\* negative number of tunnels is workable to them.
THEOREM ConfigHolds == ProgramSpec => []RunsAsConfigured
<1>1. ProgramInv => RunsAsConfigured
  BY ConfigFollows DEF ProgramInv
<1> QED
  BY <1>1, ProgramInvariance, PTL

\* A page of the status server is made only for a user with the configured
\* credentials and an address of the configured list, or an IPv6 address with
\* the first 32 bits of a listed one, for every list and any number of handlers.
THEOREM PagesHold == ProgramSpec => []PagesGuarded
<1>1. ProgramInv => PagesGuarded
  BY Zenon DEF ProgramInv, GuardInv, Admitted, PagesGuarded
<1> QED
  BY <1>1, ProgramInvariance, PTL

\* The rate of GetStats is that of the last samples, for every size of the
\* history and every width of the counters.
THEOREM RateHolds == ProgramSpec => []RateIsExact
<1>1. ProgramInv => RateIsExact
  BY RateFollows DEF ProgramInv
<1> QED
  BY <1>1, ProgramInvariance, PTL

\* What a metrics page shows was read by its own request or by one that was
\* under way at the same time, for any number of handlers.
THEOREM MetricsHold == ProgramSpec => []MetricsAreCurrent
<1>1. Gauges \ {"tunnel_count"} = {"total_sent_bytes"}
  BY GaugeNames
<1>2. MetricsInv => MetricsAreCurrent
  BY <1>1, Zenon DEF MetricsInv, MetricsAreCurrent
<1>3. ProgramInv => MetricsAreCurrent
  BY <1>2 DEF ProgramInv
<1> QED
  BY <1>3, ProgramInvariance, PTL
-----------------------------------------------------------------------------
(* The connection to a target: OutboundConnection.                         *)

Types == sent \in Seq(OutBlocks) /\ chunks \in Nat /\ chunksRead \in Nat

\* A relay has won the compare-and-swap and is to send the Disconnect.
RecvTurn == recvRelay = "disconnect"
SendTurn == sendRelay \in {"disconnect", "disconnectGoOn"}

\* The relays run only after a dial that succeeded, a failed dial sends the
\* Disconnect otherwise; of the relays only one gets its turn, and only once.
TurnInv ==
  /\ recvRelay = "none" <=> sendRelay = "none"
  /\ connector # "ended" => recvRelay = "none" /\ Disconnects = {}
  /\ recvRelay # "none" /\ ~closed => Disconnects = {} /\ ~RecvTurn /\ ~SendTurn
  /\ RecvTurn \/ SendTurn => Disconnects = {}
  /\ ~(RecvTurn /\ SendTurn)
  /\ OneDisconnect

\* A relay on its way to the Disconnect.
Ending ==
  \/ recvRelay \in {"swap", "disconnect"}
  \/ sendRelay \in {"swap", "swapGoOn", "disconnect", "disconnectGoOn"}

Pushing == recvRelay \in {"push", "pushLast"}

\* The connection ends before any Disconnect, and one that RecvRelay has ended
\* at EOF has nothing left to read or to queue.
CompleteInv ==
  /\ Disconnects # {} \/ Ending \/ socket = "closed" => ctxDone
  /\ endedBy = "target" =>
       ctxDone /\ socket = "closed" /\ recvRelay \in {"swap", "disconnect", "ended"}
  /\ endedBy = "target" /\ targetEnd = "eof" => chunksRead = chunks
  /\ IF Pushing THEN chunksRead <= Len(sent) + 1 ELSE chunksRead <= Len(sent)
  /\ CompleteBeforeDisconnect

Inv == Types /\ TurnInv /\ CompleteInv

-----------------------------------------------------------------------------

\* Nothing has been sent at the beginning.
LEMMA StartsEmpty == ASSUME Init PROVE Types /\ Disconnects = {} /\ Len(sent) = 0
<1>1. sent = <<>> /\ chunks = 0 /\ chunksRead = 0
  BY Zenon DEF Init
<1>2. sent \in Seq(OutBlocks) /\ Len(sent) = 0 /\ DOMAIN sent = {}
  BY <1>1
<1> QED
  BY <1>1, <1>2 DEF Types, Disconnects

\* sendQueue <- blk adds one block to what the client gets.
LEMMA SendAppends ==
  ASSUME Types, NEW blk \in OutBlocks, Send(blk)
  PROVE  /\ sent' \in Seq(OutBlocks) /\ Len(sent') = Len(sent) + 1
         /\ Disconnects' = IF blk = "disconnect" THEN Disconnects \cup {Len(sent) + 1}
                           ELSE Disconnects
<1>1. sent' = Append(sent, blk) /\ sent \in Seq(OutBlocks)
  BY DEF Send, Types
<1>2. sent' \in Seq(OutBlocks) /\ Len(sent') = Len(sent) + 1 /\ sent'[Len(sent) + 1] = blk
  BY <1>1
<1>3. \A i \in 1 .. Len(sent) : sent'[i] = sent[i]
  BY <1>1
<1>4. DOMAIN sent = 1 .. Len(sent) /\ DOMAIN sent' = 1 .. Len(sent) + 1 /\ Len(sent) \in Nat
  BY <1>1, <1>2
<1>5. \A i : i \in 1 .. Len(sent) + 1 <=> i \in 1 .. Len(sent) \/ i = Len(sent) + 1
  BY <1>4
<1> QED
  BY <1>2, <1>3, <1>4, <1>5 DEF Disconnects

\* Nobody but connect and the two relays sends a Disconnect.
LEMMA TurnKept ==
  ASSUME TurnInv,
         UNCHANGED <<connector, recvRelay, sendRelay, closed>>, UNCHANGED sent
  PROVE  TurnInv'
BY DEF TurnInv, RecvTurn, SendTurn, OneDisconnect, Disconnects

\* A relay moves to where it holds no turn and leaves the socket and the queue.
LEMMA TurnMoves ==
  ASSUME TurnInv, UNCHANGED <<connector, closed>>, Disconnects' = Disconnects,
         recvRelay # "none",
         recvRelay' # "none", sendRelay' # "none",
         RecvTurn' => RecvTurn, SendTurn' => SendTurn
  PROVE  TurnInv'
BY DEF TurnInv, RecvTurn, SendTurn, OneDisconnect

\* A relay that swaps closed takes a turn only if it found it false.
LEMMA TurnTaken ==
  ASSUME TurnInv, UNCHANGED connector, closed', Disconnects' = Disconnects,
         recvRelay # "none", recvRelay' # "none", sendRelay' # "none",
         \/ (RecvTurn' => ~closed) /\ (SendTurn' <=> SendTurn)
         \/ (SendTurn' => ~closed) /\ (RecvTurn' <=> RecvTurn)
  PROVE  TurnInv'
<1>1. ~closed => Disconnects = {} /\ ~RecvTurn /\ ~SendTurn
  BY Zenon DEF TurnInv
<1>2. /\ RecvTurn' \/ SendTurn' => Disconnects = {}
      /\ ~(RecvTurn' /\ SendTurn')
  BY <1>1, Zenon DEF TurnInv
<1>3. OneDisconnect'
  BY Zenon DEF OneDisconnect, TurnInv
<1> QED
  BY <1>2, <1>3, Zenon DEF TurnInv

USE DEF client, target, context, queue

\* Every step keeps the types.
LEMMA TypesKept == ASSUME Types, [Next]_vars PROVE Types'
<1> USE DEF Types
<1>1. ASSUME NEW blk \in OutBlocks, Send(blk), UNCHANGED <<chunks, chunksRead>>
      PROVE  Types'
  BY <1>1, SendAppends
<1>2. CASE DialFailureSent \/ RecvDisconnect \/ SendDisconnect \/ PushChunk
  <2>1. "disconnect" \in OutBlocks /\ "data" \in OutBlocks
    BY DEF OutBlocks
  <2> QED
    BY <1>1, <1>2, <2>1 DEF DialFailureSent, RecvDisconnect, SendDisconnect, PushChunk
<1>3. CASE ReadChunk \/ TargetSends
  <2>1. UNCHANGED sent
    BY <1>3, Zenon DEF ReadChunk, TargetSends
  <2>2. chunks' \in {chunks, chunks + 1} /\ chunksRead' \in {chunksRead, chunksRead + 1}
    BY <1>3, Zenon DEF ReadChunk, TargetSends
  <2> QED
    BY <2>1, <2>2
<1>4. ASSUME UNCHANGED <<sent, chunks, chunksRead>> PROVE Types'
  BY <1>4
<1>5. CASE RecvConnect \/ (\E blk \in InBlocks : RecvBlock(blk)) \/ DialOK \/ DialFails
  BY <1>4, <1>5, Zenon DEF RecvConnect, RecvBlock, DialOK, DialFails
<1>6. CASE ReadTimeout \/ CheckContext \/ ReadEnds \/ LastReadFails \/ RecvSwap
  BY <1>4, <1>6, Zenon DEF ReadTimeout, CheckContext, ReadEnds, LastReadFails, RecvSwap
<1>7. CASE \/ TakeHarmless \/ WriteFails \/ TakeShutdown \/ TakeDisconnect
           \/ SendRelayEnds \/ SendSwap
  BY <1>4, <1>7, Zenon
     DEF TakeHarmless, WriteFails, TakeShutdown, TakeDisconnect, TakeBlock,
                    SendRelayEnds, SendSwap
<1>8. CASE \/ TargetEnds("eof") \/ TargetEnds("reset")
           \/ HoleCancels \/ PoolEnds \/ PoolTakes
  BY <1>4, <1>8, Zenon DEF TargetEnds, HoleCancels, PoolEnds, PoolTakes
<1>9. CASE UNCHANGED vars
  BY <1>4, <1>9 DEF vars
<1> QED
  BY <1>2, <1>3, <1>5, <1>6, <1>7, <1>8, <1>9 DEF Next

\* Every step keeps the order of the turns.
LEMMA TurnsKept == ASSUME Types, TurnInv, [Next]_vars PROVE TurnInv'
<1>1. CASE RecvConnect \/ DialFails
  BY <1>1, Zenon
     DEF RecvConnect, DialFails, TurnInv, RecvTurn, SendTurn, OneDisconnect, Disconnects
<1>2. CASE \/ (\E blk \in InBlocks : RecvBlock(blk)) \/ TargetSends
           \/ TargetEnds("eof") \/ TargetEnds("reset")
           \/ HoleCancels \/ PoolEnds \/ PoolTakes
  BY <1>2, TurnKept, Zenon
     DEF RecvBlock, TargetSends, TargetEnds, HoleCancels, PoolEnds, PoolTakes
<1>3. CASE TakeHarmless \/ TakeShutdown \/ TakeDisconnect
  BY <1>3, TurnKept DEF TakeHarmless, TakeShutdown, TakeDisconnect, TakeBlock
<1>4. CASE UNCHANGED vars
  BY <1>4, TurnKept DEF vars
<1>5. CASE DialOK
  BY <1>5, Zenon DEF DialOK, TurnInv, RecvTurn, SendTurn, OneDisconnect, Disconnects
<1>6. CASE DialFailureSent
  <2>1. Disconnects' = Disconnects \cup {Len(sent) + 1}
    BY <1>6, SendAppends DEF DialFailureSent, OutBlocks
  <2>2. Disconnects = {} /\ recvRelay = "none" /\ sendRelay = "none"
    BY <1>6 DEF DialFailureSent, TurnInv
  <2>3. connector' = "ended" /\ recvRelay' = "none" /\ sendRelay' = "none"
    BY <1>6, <2>2 DEF DialFailureSent
  <2> QED
    BY <2>1, <2>2, <2>3 DEF TurnInv, RecvTurn, SendTurn, OneDisconnect
<1>7. CASE ReadChunk \/ ReadTimeout \/ CheckContext \/ ReadEnds \/ LastReadFails
  <2>1. /\ UNCHANGED <<connector, closed, sent, sendRelay>> /\ recvRelay # "none"
        /\ recvRelay' \notin {"none", "disconnect"}
    BY <1>7, Zenon DEF ReadChunk, ReadTimeout, CheckContext, ReadEnds, LastReadFails
  <2>2. Disconnects' = Disconnects /\ sendRelay # "none"
    BY <2>1 DEF Disconnects, TurnInv
  <2> QED
    BY <2>1, <2>2, TurnMoves DEF RecvTurn, SendTurn
<1>8. CASE PushChunk
  <2>1. /\ UNCHANGED <<connector, closed, sendRelay>> /\ recvRelay # "none"
        /\ recvRelay' \notin {"none", "disconnect"}
    BY <1>8 DEF PushChunk
  <2>2. Disconnects' = Disconnects
    BY <1>8, SendAppends DEF PushChunk, OutBlocks
  <2>3. sendRelay # "none"
    BY <2>1 DEF TurnInv
  <2> QED
    BY <2>1, <2>2, <2>3, TurnMoves DEF RecvTurn, SendTurn
<1>9. CASE WriteFails \/ SendRelayEnds
  <2>1. /\ UNCHANGED <<connector, closed, sent, recvRelay>> /\ sendRelay # "none"
        /\ sendRelay' \in {"swap", "swapGoOn"}
    BY <1>9 DEF WriteFails, SendRelayEnds, TakeBlock
  <2>2. Disconnects' = Disconnects /\ recvRelay # "none"
    BY <2>1 DEF Disconnects, TurnInv
  <2> QED
    BY <2>1, <2>2, TurnMoves DEF RecvTurn, SendTurn
<1>10. CASE RecvSwap
  <2>1. /\ UNCHANGED <<connector, sent, sendRelay>> /\ closed'
        /\ recvRelay # "none" /\ recvRelay' # "none"
    BY <1>10, Zenon DEF RecvSwap
  <2>2. RecvTurn' => ~closed
    BY <1>10, Zenon DEF RecvSwap, RecvTurn
  <2>3. Disconnects' = Disconnects /\ sendRelay # "none"
    BY <2>1, Zenon DEF Disconnects, TurnInv
  <2>4. SendTurn' <=> SendTurn
    BY <2>1, Zenon DEF SendTurn
  <2> QED
    BY <2>1, <2>2, <2>3, <2>4, TurnTaken, Zenon
<1>11. CASE SendSwap
  <2>1. /\ UNCHANGED <<connector, sent, recvRelay>> /\ closed'
        /\ sendRelay # "none" /\ sendRelay' # "none"
    BY <1>11, Zenon DEF SendSwap
  <2>2. SendTurn' => ~closed
    BY <1>11, Zenon DEF SendSwap, SendTurn
  <2>3. Disconnects' = Disconnects /\ recvRelay # "none"
    BY <2>1, Zenon DEF Disconnects, TurnInv
  <2>4. RecvTurn' <=> RecvTurn
    BY <2>1, Zenon DEF RecvTurn
  <2> QED
    BY <2>1, <2>2, <2>3, <2>4, TurnTaken, Zenon
<1>12. CASE RecvDisconnect
  <2>1. Disconnects' = Disconnects \cup {Len(sent) + 1}
    BY <1>12, SendAppends DEF RecvDisconnect, OutBlocks
  <2> QED
    BY <1>12, <2>1 DEF RecvDisconnect, TurnInv, RecvTurn, SendTurn, OneDisconnect
<1>13. CASE SendDisconnect
  <2>1. Disconnects' = Disconnects \cup {Len(sent) + 1}
    BY <1>13, SendAppends DEF SendDisconnect, OutBlocks
  <2> QED
    BY <1>13, <2>1, Zenon DEF SendDisconnect, TurnInv, RecvTurn, SendTurn, OneDisconnect
<1> QED
  BY <1>1, <1>2, <1>3, <1>4, <1>5, <1>6, <1>7, <1>8, <1>9, <1>10, <1>11, <1>12, <1>13
  DEF Next

\* However many goroutines end the connection at the same time, and whatever
\* the sizes of the queues, the client gets at most one Disconnect.
THEOREM DisconnectsOnce == Spec => []OneDisconnect
<1>1. Init => Types /\ TurnInv
  <2> SUFFICES ASSUME Init PROVE Types /\ TurnInv
    OBVIOUS
  <2>1. Types /\ Disconnects = {}
    BY StartsEmpty
  <2> QED
    BY <2>1, Zenon DEF Init, TurnInv, RecvTurn, SendTurn, OneDisconnect
<1>2. Types /\ TurnInv /\ [Next]_vars => (Types /\ TurnInv)'
  BY TypesKept, TurnsKept
<1>3. TurnInv => OneDisconnect
  BY DEF TurnInv
<1> QED
  BY <1>1, <1>2, <1>3, PTL DEF Spec

-----------------------------------------------------------------------------

\* CompleteInv does not depend on the rest of the state.
LEMMA CompleteKept ==
  ASSUME CompleteInv,
         UNCHANGED <<recvRelay, sendRelay, socket, ctxDone, endedBy, targetEnd, sent,
                     chunks, chunksRead>>
  PROVE  CompleteInv'
BY DEF CompleteInv, Ending, Pushing, CompleteBeforeDisconnect, Disconnects

\* The context is cancelled by another than RecvRelay at the end of the stream.
LEMMA CompleteAfterCancel ==
  ASSUME Types, CompleteInv, NEW who, Cancel(who), who # "target" \/ ctxDone,
         UNCHANGED <<recvRelay, targetEnd, sent, chunks, chunksRead>>,
         socket' \in {socket, "closed"}
  PROVE  CompleteInv'
<1>1. ctxDone' = TRUE /\ (endedBy' = "target" => endedBy = "target")
  BY DEF Cancel, CompleteInv
<1>2. endedBy = "target" => socket' = "closed"
  BY DEF CompleteInv
<1> QED
  BY <1>1, <1>2 DEF CompleteInv, Ending, Pushing, CompleteBeforeDisconnect, Disconnects

\* A Disconnect is queued after all that RecvRelay has read, unless it holds
\* a chunk.
LEMMA CompleteAfterDisconnect ==
  ASSUME Types, CompleteInv, Send("disconnect"), NEW who, Cancel(who),
         who # "target" \/ ctxDone,
         UNCHANGED <<socket, targetEnd, chunks, chunksRead>>,
         UNCHANGED recvRelay \/ (~Pushing /\ recvRelay' = "ended")
  PROVE  CompleteInv'
<1>1. ctxDone' = TRUE /\ (endedBy' = "target" => endedBy = "target")
  BY DEF Cancel, CompleteInv
<1>2. Disconnects' = Disconnects \cup {Len(sent) + 1} /\ Len(sent') = Len(sent) + 1
  BY SendAppends DEF OutBlocks
<1>3. Len(sent) \in Nat
  BY DEF Types
<1>4. IF Pushing' THEN chunksRead' <= Len(sent') + 1 ELSE chunksRead' <= Len(sent')
  BY <1>2, <1>3 DEF CompleteInv, Pushing, Types
<1>5. endedBy' = "target" =>
        ctxDone' /\ socket' = "closed" /\ recvRelay' \in {"swap", "disconnect", "ended"}
  BY <1>1 DEF CompleteInv
<1>6. CompleteBeforeDisconnect'
  <2> SUFFICES ASSUME endedBy = "target", targetEnd = "eof", NEW i \in Disconnects'
               PROVE  i > chunks
    BY <1>1 DEF CompleteBeforeDisconnect
  <2>1. ~Pushing /\ chunksRead = chunks
    BY DEF CompleteInv, Pushing
  <2>2. CASE i = Len(sent) + 1
    BY <1>3, <2>1, <2>2 DEF CompleteInv, Types
  <2>3. CASE i \in Disconnects
    BY <2>3 DEF CompleteInv, CompleteBeforeDisconnect
  <2> QED
    BY <1>2, <2>2, <2>3
<1> QED
  BY <1>1, <1>4, <1>5, <1>6 DEF CompleteInv

\* Every step keeps the Disconnect behind the data.
LEMMA CompletesKept == ASSUME Types, TurnInv, CompleteInv, [Next]_vars PROVE CompleteInv'
<1>1. CASE \/ RecvConnect \/ (\E blk \in InBlocks : RecvBlock(blk)) \/ DialFails
           \/ TakeHarmless \/ TakeShutdown \/ PoolTakes
  BY <1>1, CompleteKept, Zenon DEF RecvConnect, RecvBlock, DialFails, TakeHarmless,
                            TakeShutdown, TakeBlock, PoolTakes
<1>2. CASE UNCHANGED vars
  BY <1>2, CompleteKept DEF vars
<1>3. CASE DialOK
  <2>1. recvRelay = "none" /\ Disconnects = {}
    BY <1>3 DEF DialOK, TurnInv
  <2>2. /\ recvRelay' = "read" /\ sendRelay' = "select" /\ socket' = "open"
        /\ UNCHANGED <<ctxDone, endedBy, targetEnd, sent, chunks, chunksRead>>
    BY <1>3 DEF DialOK
  <2> QED
    BY <2>1, <2>2 DEF CompleteInv, Ending, Pushing, CompleteBeforeDisconnect, Disconnects
<1>4. CASE DialFailureSent
  BY <1>4, CompleteAfterDisconnect DEF DialFailureSent
<1>5. CASE ReadChunk
  <2>1. /\ recvRelay \in {"read", "last"} /\ recvRelay' \in {"push", "pushLast"}
        /\ chunksRead' = chunksRead + 1
        /\ UNCHANGED <<sendRelay, socket, ctxDone, endedBy, targetEnd, sent, chunks>>
    BY <1>5 DEF ReadChunk
  <2>2. /\ Disconnects' = Disconnects /\ Pushing' /\ ~Pushing
        /\ chunksRead' <= Len(sent') + 1
    <3>1. ~Pushing /\ Pushing' /\ Disconnects' = Disconnects
      BY <2>1, Zenon DEF Pushing, Disconnects
    <3>2. chunksRead <= Len(sent)
      BY <3>1, Zenon DEF CompleteInv
    <3> QED
      BY ONLY Types, <2>1, <3>1, <3>2 DEF Types
  <2> QED
    BY <2>1, <2>2 DEF CompleteInv, Ending, CompleteBeforeDisconnect
<1>6. CASE PushChunk
  <2>1. /\ Pushing /\ recvRelay' \in {"check", "last"}
        /\ UNCHANGED <<sendRelay, socket, ctxDone, endedBy, targetEnd, chunks, chunksRead>>
    BY <1>6 DEF PushChunk, Pushing
  <2>2. Disconnects' = Disconnects /\ Len(sent') = Len(sent) + 1
    BY <1>6, SendAppends DEF PushChunk, OutBlocks
  <2> QED
    BY <2>1, <2>2 DEF CompleteInv, Ending, Pushing, CompleteBeforeDisconnect
<1>7. CASE ReadTimeout \/ CheckContext \/ LastReadFails
  <2>1. /\ recvRelay \in {"read", "check", "expired", "last"}
        /\ recvRelay' \in {"read", "expired", "last", "ended"}
        /\ UNCHANGED <<sendRelay, socket, ctxDone, endedBy, targetEnd, sent, chunks, chunksRead>>
    BY <1>7, Zenon DEF ReadTimeout, CheckContext, LastReadFails
  <2> QED
    BY <2>1, Zenon DEF CompleteInv, Ending, Pushing, CompleteBeforeDisconnect, Disconnects
<1>8. CASE ReadEnds
  <2>1. /\ recvRelay = "read" /\ recvRelay' = "swap" /\ socket' = "closed" /\ ctxDone' = TRUE
        /\ UNCHANGED <<sendRelay, targetEnd, sent, chunks, chunksRead>>
    BY <1>8 DEF ReadEnds, Cancel
  <2>2. endedBy # "target"
    BY <2>1 DEF CompleteInv
  <2>3. CASE ctxDone
    <3>1. endedBy' # "target"
      BY <1>8, <2>2, <2>3 DEF ReadEnds, Cancel
    <3> QED
      BY <2>1, <3>1 DEF CompleteInv, Pushing, CompleteBeforeDisconnect, Disconnects
  <2>4. CASE ~ctxDone
    <3>1. Disconnects = {} /\ socket # "closed"
      BY <2>4 DEF CompleteInv
    <3>2. targetEnd = "eof" => chunksRead = chunks
      BY <1>8, <3>1 DEF ReadEnds, AtEOF, ReadError
    <3> QED
      BY <2>1, <3>1, <3>2, Zenon
         DEF CompleteInv, Pushing, CompleteBeforeDisconnect, Disconnects
  <2> QED
    BY <2>3, <2>4
<1>9. CASE RecvSwap
  <2>1. /\ recvRelay = "swap" /\ recvRelay' \in {"disconnect", "ended"}
        /\ UNCHANGED <<sendRelay, socket, ctxDone, endedBy, targetEnd, sent, chunks, chunksRead>>
    BY <1>9 DEF RecvSwap
  <2> QED
    BY <2>1, Zenon DEF CompleteInv, Ending, Pushing, CompleteBeforeDisconnect, Disconnects
<1>10. CASE RecvDisconnect
  <2>1. ctxDone /\ ~Pushing
    BY <1>10 DEF RecvDisconnect, CompleteInv, Ending, Pushing
  <2> QED
    BY <1>10, <2>1, CompleteAfterDisconnect DEF RecvDisconnect
<1>11. CASE WriteFails
  BY <1>11, CompleteAfterCancel DEF WriteFails, TakeBlock
<1>12. CASE TakeDisconnect
  BY <1>12, CompleteAfterCancel DEF TakeDisconnect, TakeBlock
<1>13. CASE SendRelayEnds
  <2>1. /\ ctxDone /\ socket' = "closed"
        /\ UNCHANGED <<recvRelay, ctxDone, endedBy, targetEnd, sent, chunks, chunksRead>>
    BY <1>13 DEF SendRelayEnds
  <2> QED
    BY <2>1 DEF CompleteInv, Pushing, CompleteBeforeDisconnect, Disconnects
<1>14. CASE SendSwap
  <2>1. /\ Ending
        /\ UNCHANGED <<recvRelay, socket, ctxDone, endedBy, targetEnd, sent, chunks, chunksRead>>
    BY <1>14 DEF SendSwap, Ending
  <2> QED
    BY <2>1 DEF CompleteInv, Pushing, CompleteBeforeDisconnect, Disconnects
<1>15. CASE SendDisconnect
  BY <1>15, CompleteAfterDisconnect DEF SendDisconnect
<1>16. CASE TargetSends \/ TargetEnds("eof") \/ TargetEnds("reset")
  <2>1. /\ socket = "open"
        /\ UNCHANGED <<recvRelay, sendRelay, socket, ctxDone, endedBy, sent, chunksRead>>
    BY <1>16, Zenon DEF TargetSends, TargetEnds
  <2> QED
    BY <2>1, Zenon DEF CompleteInv, Ending, Pushing, CompleteBeforeDisconnect, Disconnects
<1>17. CASE HoleCancels \/ PoolEnds
  BY <1>17, CompleteAfterCancel DEF HoleCancels, PoolEnds
<1> QED
  BY <1>1, <1>2, <1>3, <1>4, <1>5, <1>6, <1>7, <1>8, <1>9, <1>10, <1>11, <1>12, <1>13,
     <1>14, <1>15, <1>16, <1>17 DEF Next

\* All that a target sends before it closes is queued before the Disconnect,
\* whatever the sizes of the queues and whichever relay sends the Disconnect.
THEOREM AnswerIsComplete == Spec => []CompleteBeforeDisconnect
<1>1. Init => Inv
  <2> SUFFICES ASSUME Init PROVE Inv
    OBVIOUS
  <2>1. Types /\ Disconnects = {} /\ Len(sent) = 0
    BY StartsEmpty
  <2>2. TurnInv
    BY <2>1, Zenon DEF Init, TurnInv, RecvTurn, SendTurn, OneDisconnect
  <2>3. CompleteInv
    <3>1. ~Ending /\ ~Pushing /\ socket # "closed"
      BY Zenon DEF Init, Ending, Pushing
    <3>2. chunksRead <= Len(sent)
      <4>1. chunksRead = 0
        BY Zenon DEF Init
      <4> QED
        BY <2>1, <4>1
    <3>3. endedBy # "target"
      BY Zenon DEF Init
    <3> QED
      BY <2>1, <3>1, <3>2, <3>3 DEF CompleteInv, CompleteBeforeDisconnect
  <2> QED
    BY <2>1, <2>2, <2>3 DEF Inv
<1>2. Inv /\ [Next]_vars => Inv'
  BY TypesKept, TurnsKept, CompletesKept DEF Inv
<1>3. Inv => CompleteBeforeDisconnect
  BY DEF Inv, CompleteInv
<1> QED
  BY <1>1, <1>2, <1>3, PTL DEF Spec
=============================================================================
