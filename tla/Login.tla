-------------------------------- MODULE Login --------------------------------
(***************************************************************************)
(* The login: login.c, the list of servers of dns.c, and the handlers of   *)
(* LOGIN and LOGOUT requests in iothread.c.                                *)
(*                                                                         *)
(* login_process() is a state machine that the networking thread calls     *)
(* once per pass for every running LOGIN request until it returns 1 or an  *)
(* error.  Each of its cases is one action here, together with what        *)
(* process_login_request() does with the value that it returns.  The order *)
(* in which the walk of iothread() meets the requests is left open.        *)
(*                                                                         *)
(* The network is the environment: the records and the addresses that the  *)
(* resolver returns, and what becomes of a connection to each address.     *)
(* Sockets are file descriptors, of which the process has NumFds.          *)
(***************************************************************************)
EXTENDS Integers, Sequences, FiniteSets

CONSTANTS NumHosts,   \* servers that the resolver knows
          Prios,      \* the priorities they may have
          Addresses,  \* the addresses of each server, as getaddrinfo() lists them
          Address,    \* all addresses
          MaxPolls,   \* MAX_WAIT_MS / WAIT_MS: 15
          SlowPolls,  \* polls after which a slow server has answered connect()
          NumFds,     \* file descriptors that may be open
          NumLogins,  \* bound on the calls of sp_session_login()
          NumLogouts  \* bound on the calls of sp_session_logout()

(* What becomes of a connection: the address is of another family; there   *)
(* is no socket for its family; connect() fails at once; it is refused; it *)
(* is never answered; it is answered late; it breaks at any time; or it is *)
(* answered and stays.                                                     *)
Fates == {"other", "nosocket", "noroute", "refused", "silent", "slow", "flaky", "up"}

ASSUME LoginAssumption ==
  /\ NumHosts \in Nat \ {0} /\ Prios \subseteq Nat /\ Prios # {}
  /\ Addresses \in [1 .. NumHosts -> Seq(Address)]
  /\ MaxPolls \in Nat \ {0} /\ SlowPolls \in Nat \ {0}
  /\ NumFds \in Nat /\ NumLogins \in Nat /\ NumLogouts \in Nat

VARIABLES fate,      \* the network: what becomes of a connection to an address
          login,     \* session->login is not NULL
          state,     \* login->state
          error,     \* login->error
          list,      \* login->service_records, while being built or complete
          answer,    \* history: the priorities of the records of
                     \* the lookup under way
          skip,      \* login->server_ai_skip
          wait,      \* login->server_ai_wait, in polls
          polls,     \* polls since the connect() to the current address
          tried,     \* history: positions connected to since the lookup
          sock,      \* login->sock, 0 for -1
          parameters,\* the connection that client_ and server_parameters are of
          open,      \* open descriptors
          ssock,     \* session->sock, 0 for -1
          keys,      \* the connection that the session's keys are of
          conn,      \* session->connectionstate
          req,       \* each LOGIN request: its state, or how it returned
          logouts,   \* calls of sp_session_logout() so far
          orderly    \* history: the application has waited for the result of
                     \* each login, and logged out, before the next call

ctxVars == <<state, error, list, answer, skip, wait, polls, tried, sock, parameters>>
sessionVars == <<ssock, keys, conn, orderly>>
loginVars == <<fate, login, ctxVars, open, sessionVars, req, logouts>>

Host == 1 .. NumHosts    \* in the order of the resolver's answer
Login == 1 .. NumLogins
Fds == 1 .. NumFds
Closed(fd) == open \ {fd}
-----------------------------------------------------------------------------
(* list_insert_by_prio() and the assignments to the entry it returns.  In  *)
(* the middle of the list the entry takes the place of its successor.      *)
Insert(l, e) ==
  IF l = <<>> \/ e.prio <= Head(l).prio THEN <<e>> \o l
  ELSE LET w == CHOOSE i \in 1 .. Len(l) :
                  /\ \A j \in 2 .. i : e.prio > l[j].prio
                  /\ i < Len(l) => e.prio <= l[i + 1].prio
       IN SubSeq(l, 1, w) \o <<e>> \o SubSeq(l, w + 2, Len(l))

-----------------------------------------------------------------------------
(* A context as login_create() leaves it; also what stands for none.       *)
NewContext ==
  /\ state' = 0 /\ error' = "OK"
  /\ list' = <<>> /\ answer' = <<>>
  /\ skip' = 0 /\ wait' = 0 /\ polls' = 0 /\ tried' = {}
  /\ sock' = 0 /\ parameters' = "none"

LoginInit ==
  /\ fate \in [Address -> Fates]
  /\ login = FALSE
  /\ state = 0 /\ error = "OK"
  /\ list = <<>> /\ answer = <<>>
  /\ skip = 0 /\ wait = 0 /\ polls = 0 /\ tried = {}
  /\ sock = 0 /\ parameters = "none"
  /\ open = {}
  /\ ssock = 0 /\ keys = "none" /\ conn = "LOGGED_OUT"
  /\ orderly = TRUE
  /\ req = [r \in Login |-> "absent"]
  /\ logouts = 0

(* The networking thread is inside of dns_get_service_list().              *)
LookingUp == login /\ state = 0

Outstanding == \E r \in Login : req[r] \in {"NEW", "RUNNING"}

(* sp_session_login()                                                      *)
AppLogin(r) ==
  /\ req[r] = "absent" /\ \A q \in Login : q < r => req[q] # "absent"
  /\ req' = [req EXCEPT ![r] = "NEW"]
  /\ orderly' = (orderly /\ ~Outstanding /\ conn # "LOGGED_IN")
  /\ UNCHANGED <<fate, login, ctxVars, open, ssock, keys, conn, logouts>>

(* process_login_request() for a new request: login_create(), after which  *)
(* login_process() is called at once.  The context of another login that   *)
(* is under way is forgotten.                                              *)
StartLogin(r) ==
  /\ req[r] = "NEW" /\ \A q \in Login : q < r => req[q] # "NEW"
  /\ ~LookingUp
  /\ req' = [req EXCEPT ![r] = "RUNNING"]
  /\ login' = TRUE
  /\ NewContext
  /\ UNCHANGED <<fate, open, sessionVars, logouts>>

(* A logout, or another login request, has taken the context away.         *)
LoginCancelled(r) ==
  /\ req[r] = "RUNNING" /\ ~login
  /\ req' = [req EXCEPT ![r] = "failed"]
  /\ UNCHANGED <<fate, login, ctxVars, open, sessionVars, logouts>>

(* The guard of every case of login_process().  Only the call that has     *)
(* created the context finds it in state 0.                                *)
In(r, s) ==
  /\ req[r] = "RUNNING" /\ login /\ state = s
  /\ s = 0 => \A q \in Login : q > r => req[q] # "RUNNING"

(* login_process() returns 0.                                              *)
Continue(s, e) ==
  /\ state' = s /\ error' = e
  /\ UNCHANGED <<fate, login, req, sessionVars, logouts>>

(* Slip: the socket is not closed although the login failed.               *)
FailsOpen(r) ==
  /\ login' = FALSE /\ NewContext
  /\ req' = [req EXCEPT ![r] = "failed"]
  /\ UNCHANGED <<fate, open, sessionVars, logouts>>

(* login_process() returns -1 with an error, which is never OK then:       *)
(* login_release() closes the socket and the request returns an sp_error.  *)
Fails(r) ==
  /\ open' = Closed(sock)
  /\ login' = FALSE /\ NewContext
  /\ req' = [req EXCEPT ![r] = "failed"]
  /\ UNCHANGED <<fate, sessionVars, logouts>>
-----------------------------------------------------------------------------
(* Case 0: dns_get_service_list(), one record at a time.                   *)
LookupRecord(r, p) ==
  /\ In(r, 0) /\ Len(answer) < NumHosts
  /\ answer' = Append(answer, p)
  /\ list' = Insert(list, [host |-> Len(answer) + 1, prio |-> p])
  /\ UNCHANGED <<fate, login, state, error, skip, wait, polls, tried, sock, parameters,
                 open, sessionVars, req, logouts>>

LookupDone(r) ==
  /\ In(r, 0) /\ list # <<>>
  /\ Continue(1, "OK")
  /\ answer' = <<>>
  /\ UNCHANGED <<list, skip, wait, polls, tried, sock, parameters, open>>

LookupFails(r) == In(r, 0) /\ list = <<>> /\ Fails(r)

(* Case 1: the first server of the list, as no server is ever marked as    *)
(* tried, and its addresses.                                               *)
PickServer(r) ==
  /\ In(r, 1)
  /\ Continue(2, "OK")
  /\ skip' = 0 /\ wait' = 0 /\ tried' = {}
  /\ UNCHANGED <<list, answer, polls, sock, parameters, open>>

PickFails(r) == In(r, 1) /\ Fails(r)

(* login->server_ai, from case 2 on.                                       *)
server_ai == Addresses[Head(list).host]

(* Case 2: the first address of a suitable family that was not skipped.    *)
IsNextAddress(i) ==
  /\ fate[server_ai[i]] # "other"
  /\ i > skip /\ \A j \in skip + 1 .. i - 1 : fate[server_ai[j]] = "other"

(* socket(), once the socket of the previous attempt is closed.            *)
Reopen(kept, i, fd) ==
  /\ fd \in Fds \ kept /\ \A lower \in 1 .. fd - 1 : lower \in kept
  /\ open' = kept \union {fd}
  /\ sock' = fd /\ polls' = 0 /\ tried' = tried \union {i}
  /\ parameters' = IF parameters = "none" THEN "none" ELSE "old"
  /\ fate[server_ai[i]] # "nosocket"
  /\ UNCHANGED <<list, answer, wait>>

(* connect().  If it fails at once the addresses are looked up anew.       *)
Connect(r, i, fd) ==
  /\ In(r, 2) /\ IsNextAddress(i)
  /\ Reopen(Closed(sock), i, fd) /\ skip' = i
  /\ Continue(IF fate[server_ai[i]] = "noroute" THEN 1 ELSE 3, "OK")

(* socket() fails: the old one is closed already.                          *)
NoSocket(r, i) ==
  /\ In(r, 2) /\ IsNextAddress(i)
  /\ fate[server_ai[i]] = "nosocket" \/ Fds \subseteq Closed(sock)
  /\ Fails(r)

(* Slip: the server is given up after its first address.                   *)
NoAddressEarly(r) ==
  /\ In(r, 2) /\ skip > 0
  /\ Continue(1, "OK")
  /\ UNCHANGED <<list, answer, skip, wait, polls, tried, sock, parameters, open>>

(* Out of addresses: pick a server again.                                  *)
NoAddress(r) ==
  /\ In(r, 2) /\ \A i \in 1 .. Len(server_ai) : ~IsNextAddress(i)
  /\ skip' = Len(server_ai)
  /\ Continue(1, "OK")
  /\ UNCHANGED <<list, answer, wait, polls, tried, sock, parameters, open>>

(* The connection of case 3 and later, by what becomes of it.              *)
Connection(fates) == fate[server_ai[skip]] \in fates

(* Case 3: select() for 200 ms.                                            *)
Answered == Connection({"flaky", "up"}) \/ (Connection({"slow"}) /\ polls + 1 >= SlowPolls)

Connected(r) ==
  /\ In(r, 3) /\ Answered
  /\ wait' = wait + 1 /\ polls' = polls + 1
  /\ Continue(4, "OK")
  /\ UNCHANGED <<list, answer, skip, tried, sock, parameters, open>>

Refused(r) ==
  /\ In(r, 3) /\ Connection({"refused", "flaky"})
  /\ wait' = wait + 1 /\ polls' = polls + 1
  /\ open' = Closed(sock) /\ sock' = 0
  /\ Continue(2, "OK")
  /\ UNCHANGED <<list, answer, skip, tried, parameters>>

(* Slips: the attempt is given up but the state is kept; it is never given *)
(* up.                                                                     *)
UnansweredStays(r) ==
  /\ In(r, 3) /\ Connection({"silent", "slow"}) /\ ~Answered
  /\ wait' = wait + 1 /\ polls' = polls + 1
  /\ IF wait + 1 >= MaxPolls THEN open' = Closed(sock) /\ sock' = 0 ELSE UNCHANGED <<open, sock>>
  /\ Continue(3, "OK")
  /\ UNCHANGED <<list, answer, skip, tried, parameters>>
UnansweredForever(r) ==
  /\ In(r, 3) /\ Connection({"silent", "slow"}) /\ ~Answered
  /\ polls' = IF polls < SlowPolls THEN polls + 1 ELSE polls
  /\ Continue(3, "OK")
  /\ UNCHANGED <<list, answer, skip, wait, tried, sock, parameters, open>>

(* Nothing yet; given up if MAX_WAIT_MS were spent on this server.         *)
Unanswered(r) ==
  /\ In(r, 3) /\ Connection({"silent", "slow"}) /\ ~Answered
  /\ wait' = wait + 1 /\ polls' = polls + 1
  /\ IF wait + 1 >= MaxPolls
     THEN open' = Closed(sock) /\ sock' = 0 /\ Continue(2, "OK")
     ELSE UNCHANGED <<open, sock>> /\ Continue(3, "OK")
  /\ UNCHANGED <<list, answer, skip, tried, parameters>>

(* select() or getsockopt() fails.                                         *)
PollFails(r) == In(r, 3) /\ Connection({"flaky"}) /\ Fails(r)

(* Case 4: send_client_parameters().                                       *)
SendParameters(r) ==
  /\ In(r, 4)
  /\ parameters' = "client"
  /\ Continue(5, "OK")
  /\ UNCHANGED <<list, answer, skip, wait, polls, tried, sock, open>>

(* Slip: only the parameters are sent again, over the old socket.          *)
ExchangeRetries(r) ==
  /\ In(r, 4) \/ In(r, 5)
  /\ Connection({"flaky"})
  /\ parameters' = "old"
  /\ Continue(5, "SOCKET_ERROR")
  /\ UNCHANGED <<list, answer, skip, wait, polls, tried, sock, open>>

(* Cases 4 and 5 when the connection breaks: on to the next address.       *)
ExchangeBreaks(r) ==
  /\ In(r, 4) \/ In(r, 5)
  /\ Connection({"flaky"})
  /\ Continue(2, "SOCKET_ERROR")
  /\ UNCHANGED <<list, answer, skip, wait, polls, tried, sock, parameters, open>>

(* Case 5: receive_server_parameters().                                    *)
ReceiveParameters(r) ==
  /\ In(r, 5)
  /\ parameters' = IF parameters = "client" THEN "both" ELSE "old"
  /\ Continue(6, "OK")
  /\ UNCHANGED <<list, answer, skip, wait, polls, tried, sock, open>>

(* The server refuses the client or the user, or sets another puzzle.      *)
Denied(r) == In(r, 5) /\ Fails(r)

(* Case 6: the keys, the puzzle and the HMAC.                              *)
Compute(r) ==
  /\ In(r, 6)
  /\ Continue(7, "OK")
  /\ UNCHANGED <<list, answer, skip, wait, polls, tried, sock, parameters, open>>

(* Case 7: send_client_auth_packet().                                      *)
SendAuth(r) ==
  /\ In(r, 7)
  /\ Continue(8, "OK")
  /\ UNCHANGED <<list, answer, skip, wait, polls, tried, sock, parameters, open>>

(* Case 8: receive_server_auth_response(), login_export_session(); the     *)
(* release finds no error and leaves the socket to the session.            *)
LoggedIn(r) ==
  /\ In(r, 8)
  /\ ssock' = sock
  /\ keys' = parameters
  /\ conn' = "LOGGED_IN"
  /\ login' = FALSE /\ NewContext
  /\ req' = [req EXCEPT ![r] = "OK"]
  /\ UNCHANGED <<fate, open, orderly, logouts>>

AuthFails(r) ==
  /\ In(r, 8) \/ (In(r, 7) /\ Connection({"flaky"}))
  /\ Fails(r)
-----------------------------------------------------------------------------
(* sp_session_logout() and process_logout_request(): login_release() and   *)
(* the session's own socket.                                               *)
Logout ==
  /\ ~LookingUp
  /\ logouts < NumLogouts /\ logouts' = logouts + 1
  /\ orderly' = (orderly /\ ~Outstanding)
  /\ open' = open \ ({ssock} \union IF login /\ error # "OK" THEN {sock} ELSE {})
  /\ login' = FALSE /\ NewContext
  /\ ssock' = 0 /\ keys' = "none" /\ conn' = "LOGGED_OUT"
  /\ UNCHANGED <<fate, req>>

(* The connection is lost while logged in: iothread() closes the socket.   *)
Disconnect ==
  /\ conn = "LOGGED_IN" /\ ~LookingUp
  /\ open' = Closed(ssock) /\ ssock' = 0
  /\ conn' = "DISCONNECTED"
  /\ UNCHANGED <<fate, login, ctxVars, keys, orderly, req, logouts>>

Process(r) ==
  \/ StartLogin(r) \/ LoginCancelled(r)
  \/ (\E p \in Prios : LookupRecord(r, p)) \/ LookupDone(r) \/ LookupFails(r)
  \/ PickServer(r) \/ PickFails(r)
  \/ state = 2 /\ \E i \in 1 .. Len(server_ai) :
       NoSocket(r, i) \/ \E fd \in Fds : Connect(r, i, fd)
  \/ NoAddress(r)
  \/ Connected(r) \/ Refused(r) \/ Unanswered(r) \/ PollFails(r)
  \/ SendParameters(r) \/ ExchangeBreaks(r) \/ ReceiveParameters(r) \/ Denied(r)
  \/ Compute(r) \/ SendAuth(r) \/ LoggedIn(r) \/ AuthFails(r)

LoginNext ==
  \/ \E r \in Login : AppLogin(r) \/ Process(r)
  \/ Logout \/ Disconnect

LoginSpec == LoginInit /\ [][LoginNext]_loginVars

(* The networking thread goes on processing every request that is due.     *)
LoginFairSpec == LoginSpec /\ \A r \in Login : WF_loginVars(Process(r))
-----------------------------------------------------------------------------
(* The context and the session hold what their structures declare.         *)
LoginTypeOK ==
  /\ login \in BOOLEAN /\ state \in 0 .. 8
  /\ error \in {"OK", "SOCKET_ERROR"}
  /\ list \in Seq([host : Host, prio : Prios]) /\ answer \in Seq(Prios)
  /\ skip \in Nat /\ wait \in Nat /\ polls \in Nat /\ tried \subseteq Nat
  /\ sock \in Fds \union {0} /\ ssock \in Fds \union {0} /\ open \subseteq Fds
  /\ parameters \in {"none", "old", "client", "both"}
  /\ keys \in {"none", "old", "client", "both"}
  /\ conn \in {"LOGGED_OUT", "LOGGED_IN", "DISCONNECTED"}
  /\ fate \in [Address -> Fates] /\ logouts \in Nat /\ orderly \in BOOLEAN
  /\ req \in [Login -> {"absent", "NEW", "RUNNING", "failed", "OK"}]

(* The order of the list survives every insertion of the resolver's        *)
(* records, and the server at its head is one of lowest priority among all *)
(* that the resolver returned: insertions in the middle lose records, but  *)
(* never the one that the login is going to use.                           *)
BestServerFirst ==
  /\ \A i, j \in 1 .. Len(list) : i <= j => list[i].prio <= list[j].prio
  /\ answer # <<>> => list # <<>> /\ \A i \in 1 .. Len(answer) : Head(list).prio <= answer[i]

(* No descriptor is used after it was closed and none serves two: the      *)
(* login from connect() on and the session while logged in own an open     *)
(* socket each, and never the same.                                        *)
SocketsAreOwned ==
  /\ login /\ state >= 3 => sock \in open
  /\ conn = "LOGGED_IN" => ssock \in open
  /\ login /\ sock # 0 => sock \in open /\ sock # ssock
  /\ ssock # 0 => conn = "LOGGED_IN"

(* A context is that of a running request, and from case 1 on it has a     *)
(* server to try; without one nothing of it is left.                       *)
ContextIsOwned ==
  /\ login => \E r \in Login : req[r] = "RUNNING"
  /\ ~login => state = 0 /\ list = <<>> /\ sock = 0
  /\ state >= 1 => list # <<>>

(* The addresses of the server up to the one in use were connected to, but *)
(* for those of another family, and no others.                             *)
TriedSoFar ==
  /\ list = <<>> \/ state = 0 => skip = 0 /\ tried = {}
  /\ list # <<>> =>
       /\ skip <= Len(server_ai)
       /\ tried = {i \in 1 .. skip : fate[server_ai[i]] # "other"}

(* An orderly application has at most one login under way, and none while  *)
(* it is logged in.                                                        *)
OneAtATime ==
  orderly =>
    /\ \A r, q \in Login : {req[r], req[q]} \subseteq {"NEW", "RUNNING"} => r = q
    /\ Outstanding => conn # "LOGGED_IN"

(* No socket is leaked by any sequence of attempts, failures, logins and   *)
(* disconnections, if the application waits for each login to return and   *)
(* logs out before it logs in again.                                       *)
NoSocketLeak == orderly => open \subseteq {ssock} \union IF login THEN {sock} ELSE {}

(* The keys of a session were negotiated over the connection that it uses, *)
(* however many connections broke in the middle of the exchange before.    *)
KeysFitSocket ==
  /\ conn = "LOGGED_IN" => keys = "both"
  /\ login /\ state = 5 => parameters = "client"
  /\ login /\ state >= 6 => parameters = "both"

(* A server is given up in two ways and no other: each of its addresses    *)
(* that is of a suitable family was connected to, or connect() has failed  *)
(* at once for one of them and the addresses before that were tried, in    *)
(* their order.  Those behind it are passed over then.                     *)
Suitable == {i \in 1 .. Len(server_ai) : fate[server_ai[i]] # "other"}
AddressesAreTried ==
  [][state = 2 /\ state' = 1 =>
       \/ tried = Suitable /\ tried' = tried
       \/ \E i \in Suitable \ tried : /\ fate[server_ai[i]] = "noroute"
                                      /\ tried' = {j \in Suitable : j <= i}]_loginVars

(* The position at which the addresses of a server end the login: an       *)
(* address that answers in the time that is left of MAX_WAIT_MS, or that   *)
(* there is no socket for, before any that connect() fails for.            *)
PollsBefore(l, i) == Cardinality({j \in 1 .. i - 1 : fate[l[j]] \in {"refused", "flaky"}})
Decides(l, i) ==
  /\ \/ fate[l[i]] \in {"up", "nosocket"}
     \/ /\ fate[l[i]] = "slow"
        /\ \A j \in 1 .. i - 1 : fate[l[j]] \notin {"silent", "slow"}
        /\ PollsBefore(l, i) + SlowPolls <= MaxPolls
  /\ \A j \in 1 .. i - 1 : fate[l[j]] # "noroute"

(* A login ends, one way or the other, if every server has an address that *)
(* decides it; the addresses before it may be refused, break or time out.  *)
LoginEnds ==
  (\A h \in Host : \E i \in 1 .. Len(Addresses[h]) : Decides(Addresses[h], i))
    => \A r \in Login : req[r] = "NEW" ~> req[r] \notin {"NEW", "RUNNING"}

(* What the login keeps at every step: its types, a list of servers that   *)
(* is headed by the best one, a socket of its own, and a context that fits *)
(* the requests and the addresses that were tried.                         *)
LoginInv ==
  /\ LoginTypeOK /\ BestServerFirst /\ SocketsAreOwned
  /\ ContextIsOwned /\ TriedSoFar /\ OneAtATime
=============================================================================
