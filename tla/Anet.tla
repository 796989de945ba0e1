--------------------------------- MODULE Anet ---------------------------------
(***************************************************************************)
(* The socket helpers of anet.c, as their callers see them: each makes     *)
(* several system calls, gives a descriptor or ANET_ERR back, and what     *)
(* matters is which descriptor the failure of each call leaves open.  The  *)
(* kernel gives the lowest free number, so a number closed is soon used    *)
(* again.                                                                  *)
(***************************************************************************)
EXTENDS Integers, FiniteSets

CONSTANT NumFds   \* the numbers below are the descriptors the process may open

ASSUME AnetAssumption == NumFds \in Nat \ {0}

Fds == 0 .. NumFds - 1
ANET_ERR == -1
Rets == Fds \cup {ANET_ERR}

VARIABLES
  open,   \* the descriptors that are open
  lost    \* history: those of them left open by a helper that returned ANET_ERR

anetVars == <<open, lost>>

Free == Fds \ open

\* A system call fails with no socket open, or the helper closes the one it has.
Fails(ret) == ret = ANET_ERR /\ UNCHANGED anetVars

\* socket and accept return the lowest free number.
Lowest(fd) == fd \in Free /\ \A g \in Free : fd <= g

\* The helper gives the new socket to its caller.
Gives(ret) ==
  /\ Lowest(ret)
  /\ open' = open \cup {ret}
  /\ UNCHANGED lost

\* The helper returns ANET_ERR and nobody has the new socket.
Loses(ret) ==
  /\ ret = ANET_ERR
  /\ \E fd \in Free : /\ Lowest(fd)
                      /\ open' = open \cup {fd}
                      /\ lost' = lost \cup {fd}

\* socket fails; setsockopt(SO_REUSEADDR) fails, with the socket open; or neither.
anetCreateSocket(ret) == Fails(ret) \/ Loses(ret) \/ Gives(ret)

\* When fcntl fails in anetNonBlock the socket stays open; when the name does not
\* resolve or connect fails it is closed.  A non-blocking connect in progress gives
\* the socket back too, and *flag tells the caller of the Ex variant.
anetTcpGenericConnectEx(ret, flag) ==
  \/ anetCreateSocket(ret) /\ ret = ANET_ERR /\ flag = 0
  \/ Loses(ret) /\ flag = 0
  \/ Fails(ret) /\ flag = 0
  \/ Gives(ret) /\ flag \in {0, 1}

\* anetTcpGenericConnect and anetUnixGenericConnect: only ANET_CONNECT_NONBLOCK
\* calls anetNonBlock.
anetGenericConnect(nonblock, ret) ==
  \/ anetCreateSocket(ret) /\ ret = ANET_ERR
  \/ nonblock /\ Loses(ret)
  \/ Fails(ret)
  \/ Gives(ret)

\* anetListen that forgets to close the socket.
anetListen_NoClose(ret) ==
  \/ Gives(ret)
  \/ ret = ANET_ERR /\ UNCHANGED lost /\ \E fd \in Free : Lowest(fd) /\ open' = open \cup {fd}

\* bind or listen fails, with the socket closed; or neither.
anetListen(ret) == Fails(ret) \/ Gives(ret)

\* anetTcpServer and anetUnixServer; an address that is none closes the socket.
anetServer(ret) ==
  \/ anetCreateSocket(ret) /\ ret = ANET_ERR
  \/ Fails(ret)
  \/ anetListen(ret)

\* anetTcpAccept and anetUnixAccept over anetGenericAccept, which tries again
\* after EINTR.
anetAccept(ret) == Fails(ret) \/ Gives(ret)
===============================================================================
