------------------------- MODULE MCConnectorReload --------------------------
(* Small instances of ConnectorReload for TLC.                             *)
EXTENDS ConnectorReload

H == [timeout |-> 0, maxConcurrent |-> 9, errorPercent |-> 0, volume |-> 0,
      sleep |-> 7, queue |-> -1]

\* Two ways to set what a reload can change, and a third.
X == [username |-> Nil, dialTimeout |-> 0, poolSize |-> 4, hystrix |-> H,
      hystrixEnabled |-> TRUE, readMode |-> "", maxRedirects |-> 3,
      ignoreReadOnly |-> FALSE, tls |-> FALSE, db |-> 0]
Y == [X EXCEPT !.username = "u", !.dialTimeout = 80, !.hystrixEnabled = FALSE,
               !.readMode = "readRandomly", !.maxRedirects = 0, !.tls = TRUE]
Z == [Y EXCEPT !.hystrixEnabled = TRUE, !.hystrix.queue = 0, !.poolSize = 6,
               !.readMode = "readByLatency", !.ignoreReadOnly = TRUE]

Has(s, mode, as) ==
  [f \in DOMAIN s \cup {"clientMode", "addrs"} |->
     CASE f = "clientMode" -> mode [] f = "addrs" -> as [] OTHER -> s[f]]
Host(a, s) == Has(s, "singleHost", <<a>>)
Group(as, s) == Has(s, "masterSlaveGroup", as)
Conf(all, main, loads) ==
  [hot |-> TRUE, all |-> all, sched |-> "", main |-> main, loads |-> loads]

MCFirst == Conf(FALSE, Host(0, X), <<Host(2, X)>>)

MCConfig ==
  { \* two load-test clients of one name
    Conf(FALSE, Host(0, X), <<Host(2, X), Host(2, Y)>>),
    [MCFirst EXCEPT !.hot = FALSE, !.all = TRUE],
    [MCFirst EXCEPT !.sched = "b", !.all = TRUE],
    Conf(TRUE, Has(Z, "singleHost", <<>>), <<Host(3, X), Host(2, Z)>>),
    \* a group whose master is not the first of its sorted addresses
    Conf(TRUE, Host(0, X), <<Group(<<4, 3>>, X)>>),
    Conf(TRUE, Host(0, X), <<Group(<<3, 4>>, Y)>>),
    \* rejected: no client mode, the main client's mode, a load test's mode after
    \* a client that is new, a load test on the main client's address
    Conf(TRUE, Host(0, Y), <<Has(Y, "", <<2>>)>>),
    Conf(TRUE, Group(<<0>>, Y), <<>>),
    Conf(TRUE, Host(0, Y), <<Host(1, Y), Group(<<2>>, Y)>>),
    Conf(TRUE, Host(0, X), <<Host(0, X), Host(2, X)>>) }
=============================================================================
