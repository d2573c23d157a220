------------------------------ MODULE MCProgram ------------------------------
(* Program for TLC: files and command lines that agree, disagree, or are     *)
(* wrong.                                                                    *)
EXTENDS Program, TLC

HandlerSymmetry == Permutations(Handlers)

Local == "127.0.0.1"
Lan == "192.168.0.2"
Six == "2001:db8::1"
Sibling == "2001:db8::2"

FirstBits == [a \in Addresses |-> IF a \in {Six, Sibling} THEN "2001:db8" ELSE a]

File(options) == [state |-> "ok", options |-> options]
Absent == [state |-> "absent", options |-> <<>>]
Broken == [state |-> "broken", options |-> <<>>]

Setup(paths, flags) == [paths |-> paths, explicit |-> FALSE, version |-> FALSE, flags |-> flags]

Client == [mode |-> Mode("c", FALSE), password |-> "secret", listen |-> "socks5", tunnelN |-> 2]
Server == [mode |-> Mode("server", TRUE), password |-> "secret", status |-> "login", sendQueueSize |-> 64,
           acl |-> <<Network({Local, Lan})>>]

SomeSetups ==
  { Setup(<<Absent, File(Client), Broken>>, [status |-> "login"]),
    Setup(<<File(Server), Absent, Absent>>, [acl |-> <<Bare(Local), Malformed>>]),
    Setup(<<Absent, Absent, File(Server)>>, [password |-> ""]),
    Setup(<<Absent, Absent, Absent>>, [useSyslog |-> FALSE]),
    Setup(<<File(Client), Broken, Absent>>, [listen |-> "addr"]),
    Setup(<<File(Client), Broken, Absent>>, [tunnelN |-> 0, useSyslog |-> FALSE]),
    Setup(<<File(Client), Absent, Absent>>, [mode |-> Mode("x", FALSE)]),
    Setup(<<File(Client), Absent, Absent>>,
          [mode |-> Mode("client", TRUE), tunnelN |-> -1, status |-> "open",
           acl |-> <<Bare(Six)>>]),
    Setup(<<Absent, Broken, File(Client)>>, <<>>),
    [Setup(<<Absent>>, Client) EXCEPT !.explicit = TRUE],
    [Setup(<<File(Server)>>, <<>>) EXCEPT !.version = TRUE] }
=============================================================================
