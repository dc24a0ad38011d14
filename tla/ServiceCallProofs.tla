------------------------- MODULE ServiceCallProofs -------------------------
(***************************************************************************)
(* Theorems about ServiceCall, for every number of applications, nodes,    *)
(* connections and calls, and every length of the backlog.                 *)
(***************************************************************************)
EXTENDS ServiceCall, TLAPS

Queued(k, n) == \E i \in 1..Len(backlog[n]) : backlog[n][i] = k

\* The client's end of a connection is open while a caller holds it, and
\* leads to the node it calls; no two callers hold the same connection.
HeldByCallers ==
  /\ \A c \in Callers : chan[c] # None =>
       conn[chan[c]].client /\ conn[chan[c]].to = call[c].to
  /\ \A c, d \in Callers : chan[c] # None /\ chan[c] = chan[d] => c = d

\* The server's end is open exactly while the connection is in the backlog
\* of its node, once, or is the one the node serves.
HeldByServers ==
  /\ \A k \in Connections : conn[k].server =>
       \E n \in Nodes : serving[n] = k \/ Queued(k, n)
  /\ \A n \in Nodes, k \in Connections : serving[n] = k \/ Queued(k, n) =>
       conn[k].server /\ conn[k].to = n
  /\ \A n \in Nodes : ~Queued(serving[n], n)
  /\ \A n \in Nodes : \A i, j \in 1..Len(backlog[n]) :
       backlog[n][i] = backlog[n][j] => i = j

\* A connection both of whose ends are closed is as good as new.
Closed ==
  \A k \in Connections :
    /\ up[k] # None => conn[k].server
    /\ down[k] # None => conn[k].client
    /\ conn[k].client \/ conn[k].server <=> conn[k].to # None
    /\ ran[k] # None => conn[k].to # None

Unanswered(k) == down[k] = None /\ ran[k] = None
Unread(k) == \A n \in Nodes : serving[n] = k => srv[n] = "receive"

\* A connection carries one request: until it is sent, and until the server
\* has handled it, nothing was run and nothing answered; what is answered
\* then is a refusal or the value of the service it ran.
OneRequest ==
  /\ \A c \in Callers : pc[c] = "send" =>
       up[chan[c]] = None /\ Unanswered(chan[c]) /\ Unread(chan[c])
  /\ \A k \in Connections : up[k] # None => Unanswered(k) /\ Unread(k)
  /\ \A n \in Nodes : srv[n] \in {"dispatch", "function"} => Unanswered(serving[n])
  /\ \A n \in Nodes : srv[n] = "reply" =>
       reply[n] \in {Refused, Unencodable, ran[serving[n]]}
  /\ \A k \in Connections : down[k] # None => down[k] \in {Refused, ran[k]}

\* The thread of a server calls a node only from inside a service.
Nested == \A n \in Nodes : pc[n] # "idle" => srv[n] = "function"

\* Who made a server read, run or send what it cannot handle is on record.
OnRecord ==
  /\ \A k \in Connections : up[k] = "misnamed" => conn[k].to \in blamed
  /\ \A n \in Nodes : job[n] = "misnamed" => n \in blamed
  /\ \A n \in Nodes : reply[n] = Unencodable => n \in blamed
  /\ \A n \in Nodes : srv[n] = "dead" => n \in blamed

Inv ==
  /\ TypeOK /\ HeldByCallers /\ HeldByServers /\ Closed
  /\ OneRequest /\ Nested /\ OnRecord

\* None is no connection, node, request or number; no application is a node.
LEMMA Distinct ==
  /\ None \notin Connections /\ None \notin Nodes /\ None \notin Nat
  /\ None \notin Kinds
  /\ Unencodable \notin Nat /\ Unencodable # None /\ Refused \in Nat
  /\ \A c \in Clients : c \notin Nodes /\ c \in Callers
  /\ \A n \in Nodes : n \in Callers
  /\ \A n \in Nodes, r \in Kinds : [to |-> n, request |-> r] # NoCall
BY NoneAssumption, CallersAssumption DEF Callers, Refused, NoCall

\* A call that ends leaves only its own connection, and that one to the
\* server.
LEMMA HangupEffect ==
  ASSUME TypeOK, NEW c \in Callers, Hangup(c)
  PROVE  /\ chan' = [chan EXCEPT ![c] = None]
         /\ call' = [call EXCEPT ![c] = NoCall]
         /\ up' = up
         /\ down' \in [Connections -> Nat \cup {None}]
         /\ ran' \in [Connections -> Nat \cup {None}]
         /\ conn' \in [Connections -> [to : Nodes \cup {None}, client : BOOLEAN,
                                       server : BOOLEAN]]
         /\ \A k \in Connections : conn'[k].server = conn[k].server
         /\ \A k \in Connections :
              IF k = chan[c]
                THEN /\ ~conn'[k].client /\ down'[k] = None
                     /\ IF conn[k].server
                          THEN conn'[k].to = conn[k].to /\ ran'[k] = ran[k]
                          ELSE conn'[k] = Unused /\ ran'[k] = None
                ELSE /\ conn'[k] = conn[k] /\ ran'[k] = ran[k]
                     /\ down'[k] = down[k]
<1> USE Distinct
<1>1. CASE chan[c] = None
  BY <1>1 DEF Hangup, CloseClient, wire, TypeOK
<1>2. CASE chan[c] # None
  <2> DEFINE k == chan[c]
             open == conn[k].server
             rest == IF open THEN [to |-> conn[k].to, client |-> FALSE, server |-> open]
                             ELSE Unused
  <2>1. k \in Connections /\ conn[k].to \in Nodes \cup {None} /\ open \in BOOLEAN
    BY <1>2 DEF TypeOK
  <2>2. /\ conn' = [conn EXCEPT ![k] = rest]
        /\ ran' = [ran EXCEPT ![k] = IF open THEN ran[k] ELSE None]
        /\ down' = [down EXCEPT ![k] = None] /\ up' = up
        /\ chan' = [chan EXCEPT ![c] = None]
        /\ call' = [call EXCEPT ![c] = NoCall]
    BY <1>2 DEF Hangup, CloseClient, Close
  <2>3. /\ rest \in [to : Nodes \cup {None}, client : BOOLEAN, server : BOOLEAN]
        /\ ~rest.client /\ rest.server = open
        /\ IF open THEN rest.to = conn[k].to ELSE rest = Unused
    BY <2>1 DEF Unused
  <2> HIDE DEF open, rest, k
  <2> QED BY <2>1, <2>2, <2>3 DEF TypeOK, k, open
<1> QED BY <1>1, <1>2

\* Its connection is in no other caller's hands, and stays with its server.
LEMMA HangupInv ==
  ASSUME Inv, NEW c \in Callers, NEW label \in {"idle", "crashed"},
         Go(c, label), Hangup(c), c \in Nodes => label = "idle",
         UNCHANGED <<got, server, calls, blamed>>
  PROVE  Inv'
<1>a. /\ pc' = [pc EXCEPT ![c] = label]
      /\ chan' = [chan EXCEPT ![c] = None]
      /\ call' = [call EXCEPT ![c] = NoCall]
  BY HangupEffect DEF Inv, Go
<1>b. /\ pc' \in [Callers -> ClientLabels]
      /\ call' \in [Callers -> [to : Nodes, request : Kinds] \cup {NoCall}]
      /\ chan' \in [Callers -> Connections \cup {None}]
  BY <1>a DEF Inv, TypeOK, ClientLabels
<1> USE Distinct, HangupEffect DEF Inv, Go
<1>0. UNCHANGED <<got, srv, shouldRun, backlog, serving, job, reply, executed,
                  calls, blamed>>
  BY DEF server, work
<1>1. TypeOK'
  <2>1. /\ pc' \in [Callers -> ClientLabels]
        /\ call' \in [Callers -> [to : Nodes, request : Kinds] \cup {NoCall}]
        /\ chan' \in [Callers -> Connections \cup {None}]
    BY <1>b
  <2>2. \A d \in Callers :
          /\ chan'[d] # None <=> pc'[d] \in {"send", "waiting", "callback"}
          /\ call'[d] # NoCall <=> pc'[d] \notin {"idle", "crashed"}
    <3>1. /\ \A d \in Callers : d # c => chan'[d] = chan[d] /\ call'[d] = call[d] /\ pc'[d] = pc[d]
          /\ chan'[c] = None /\ call'[c] = NoCall /\ pc'[c] = label
      BY DEF TypeOK
    <3> QED BY <3>1 DEF TypeOK
  <2> QED BY <1>0, <2>1, <2>2 DEF TypeOK
<1>2. HeldByCallers'
  <2>1. \A d \in Callers : d # c => chan'[d] = chan[d] /\ call'[d] = call[d]
    BY DEF TypeOK
  <2>2. chan'[c] = None
    BY DEF TypeOK
  <2>3. \A d \in Callers : chan'[d] # None => d # c /\ chan[d] # chan[c] /\ chan[d] \in Connections
    BY <2>1, <2>2 DEF HeldByCallers, TypeOK
  <2> QED BY <2>1, <2>2, <2>3 DEF HeldByCallers
<1>3. HeldByServers'
  <2>1. \A n \in Nodes, k \in Connections : Queued(k, n)' <=> Queued(k, n)
    BY <1>0 DEF Queued
  <2>2. \A n \in Nodes : Queued(serving[n], n)' <=> Queued(serving[n], n)
    BY <1>0 DEF Queued
  <2>3. \A k \in Connections : conn'[k].server =>
          /\ conn[k].server /\ conn'[k].to = conn[k].to
    OBVIOUS
  <2>4. \A n \in Nodes, k \in Connections : serving'[n] = k \/ Queued(k, n)' =>
          conn'[k].server /\ conn'[k].to = n
    BY <1>0, <2>1 DEF HeldByServers
  <2>5. \A n \in Nodes : \A i, j \in 1..Len(backlog'[n]) :
          backlog'[n][i] = backlog'[n][j] => i = j
    BY <1>0 DEF HeldByServers
  <2> QED BY <1>0, <2>1, <2>2, <2>3, <2>4, <2>5 DEF HeldByServers
<1>4. Closed'
  BY DEF Closed, Unused, TypeOK
<1>5. OneRequest'
  <2>1. \A d \in Callers : pc'[d] = "send" =>
           /\ d # c /\ pc[d] = "send" /\ chan'[d] = chan[d]
           /\ chan[d] # chan[c] /\ chan[d] \in Connections
    BY DEF TypeOK, HeldByCallers
  <2>2. \A k \in Connections : Unanswered(k) => Unanswered(k)'
    BY DEF Unanswered
  <2>3. \A k \in Connections : Unread(k) => Unread(k)'
    BY <1>0 DEF Unread
  <2>4. \A d \in Callers : pc'[d] = "send" =>
           up'[chan'[d]] = None /\ Unanswered(chan[d])' /\ Unread(chan[d])'
    BY <2>1, <2>2, <2>3 DEF OneRequest
  <2>5. \A k \in Connections : up'[k] # None => Unanswered(k)' /\ Unread(k)'
    BY <2>2, <2>3 DEF OneRequest
  <2>6. \A n \in Nodes : serving[n] # None =>
          /\ serving[n] \in Connections /\ serving'[n] = serving[n]
          /\ ran'[serving[n]] = ran[serving[n]]
    BY <1>0 DEF TypeOK, HeldByServers
  <2>7. \A n \in Nodes : srv'[n] \in {"dispatch", "function"} => Unanswered(serving[n])'
    BY <1>0, <2>2, <2>6 DEF OneRequest, TypeOK, Holding
  <2>8. \A n \in Nodes : srv'[n] = "reply" =>
            reply'[n] \in {Refused, Unencodable, ran'[serving'[n]]}
    BY <1>0, <2>6 DEF OneRequest, TypeOK, Holding
  <2>9. \A k \in Connections : down'[k] # None => down'[k] \in {Refused, ran'[k]}
    BY DEF OneRequest
  <2> QED BY <2>4, <2>5, <2>7, <2>8, <2>9 DEF OneRequest
<1>6. Nested'
  BY <1>0 DEF Nested, TypeOK
<1>7. OnRecord'
  <2>1. \A k \in Connections : up'[k] = "misnamed" => conn[k].server /\ conn'[k].to = conn[k].to
    BY DEF Closed, Kinds
  <2> QED BY <1>0, <2>1 DEF OnRecord
<1> QED BY <1>1, <1>2, <1>3, <1>4, <1>5, <1>6, <1>7

\* A server that is done with a connection leaves it to the client.
LEMMA ReleaseEffect ==
  ASSUME TypeOK, NEW n \in Nodes, serving[n] # None, NEW label, Release(n, label)
  PROVE  /\ serving[n] \in Connections
         /\ serving' = [serving EXCEPT ![n] = None]
         /\ job' = [job EXCEPT ![n] = None]
         /\ reply' = [reply EXCEPT ![n] = None]
         /\ srv' = [srv EXCEPT ![n] = label]
         /\ up' = [up EXCEPT ![serving[n]] = None]
         /\ down' = down
         /\ ran' \in [Connections -> Nat \cup {None}]
         /\ conn' \in [Connections -> [to : Nodes \cup {None}, client : BOOLEAN,
                                       server : BOOLEAN]]
         /\ \A k \in Connections : conn'[k].client = conn[k].client
         /\ \A k \in Connections :
              IF k = serving[n]
                THEN /\ ~conn'[k].server
                     /\ IF conn[k].client
                          THEN conn'[k].to = conn[k].to /\ ran'[k] = ran[k]
                          ELSE conn'[k] = Unused /\ ran'[k] = None
                ELSE conn'[k] = conn[k] /\ ran'[k] = ran[k]
<1> USE Distinct
<1> DEFINE k == serving[n]
           open == conn[k].client
           rest == IF open THEN [to |-> conn[k].to, client |-> open, server |-> FALSE]
                           ELSE Unused
<1>1. k \in Connections /\ conn[k].to \in Nodes \cup {None} /\ open \in BOOLEAN
  BY DEF TypeOK
<1>2. /\ conn' = [conn EXCEPT ![k] = rest]
      /\ ran' = [ran EXCEPT ![k] = IF open THEN ran[k] ELSE None]
      /\ up' = [up EXCEPT ![k] = None] /\ down' = down
      /\ serving' = [serving EXCEPT ![n] = None]
      /\ job' = [job EXCEPT ![n] = None]
      /\ reply' = [reply EXCEPT ![n] = None]
      /\ srv' = [srv EXCEPT ![n] = label]
  BY DEF Release, CloseServer, Close, Serve
<1>3. /\ rest \in [to : Nodes \cup {None}, client : BOOLEAN, server : BOOLEAN]
      /\ ~rest.server /\ rest.client = open
      /\ IF open THEN rest.to = conn[k].to ELSE rest = Unused
  BY <1>1 DEF Unused
<1> HIDE DEF open, rest, k
<1> QED BY <1>1, <1>2, <1>3 DEF TypeOK, k, open

\* The server's end is closed once, and nothing of the connection is left when
\* the client's is closed too.
LEMMA ReleaseInv ==
  ASSUME Inv, NEW n \in Nodes, NEW label \in {"loop", "dead"},
         srv[n] \in {"receive", "dispatch", "reply"}, Release(n, label),
         label = "dead" => n \in blamed,
         UNCHANGED <<client, shouldRun, backlog, executed, calls, blamed>>
  PROVE  Inv'
<1> USE Distinct DEF Inv
<1>0. UNCHANGED <<pc, call, chan, got, shouldRun, backlog, executed, calls, blamed>>
  BY DEF client
<1>1. serving[n] # None
  BY DEF TypeOK, Holding
<1>e. /\ serving[n] \in Connections
      /\ serving' = [serving EXCEPT ![n] = None]
      /\ job' = [job EXCEPT ![n] = None]
      /\ reply' = [reply EXCEPT ![n] = None]
      /\ srv' = [srv EXCEPT ![n] = label]
      /\ up' = [up EXCEPT ![serving[n]] = None]
      /\ down' = down
  BY <1>1, ReleaseEffect
<1>2. TypeOK'
  <2>1. srv' \in [Nodes -> ServerLabels] /\ up' \in [Connections -> Kinds \cup {None}]
    BY <1>e DEF TypeOK, ServerLabels
  <2>2. \A m \in Nodes : serving'[m] # None <=> srv'[m] \in Holding
    BY <1>e DEF TypeOK, Holding
  <2>3. /\ serving' \in [Nodes -> Connections \cup {None}]
        /\ job' \in [Nodes -> Kinds \cup {None}]
        /\ reply' \in [Nodes -> Nat \cup {Unencodable, None}]
    BY <1>e DEF TypeOK
  <2>4. /\ conn' \in [Connections -> [to : Nodes \cup {None}, client : BOOLEAN,
                                       server : BOOLEAN]]
        /\ ran' \in [Connections -> Nat \cup {None}] /\ down' = down
    BY <1>1, ReleaseEffect
  <2> QED BY <1>0, <2>1, <2>2, <2>3, <2>4 DEF TypeOK
<1>3. HeldByCallers'
  <2>1. \A k \in Connections : conn[k].client => conn'[k].client /\ conn'[k].to = conn[k].to
    BY <1>1, ReleaseEffect
  <2> QED BY <1>0, <2>1 DEF HeldByCallers, TypeOK
<1>4. HeldByServers'
  <2>1. \A m \in Nodes, k \in Connections : Queued(k, m)' <=> Queued(k, m)
    BY <1>0 DEF Queued
  <2>2. \A m \in Nodes, k \in Connections :
           serving'[m] = k \/ Queued(k, m)
             => (serving[m] = k \/ Queued(k, m)) /\ k # serving[n]
    BY <1>1, ReleaseEffect DEF HeldByServers, TypeOK
  <2>3. \A k \in Connections : conn'[k].server => conn[k].server /\ k # serving[n]
    BY <1>1, ReleaseEffect
  <2>4. \A k \in Connections : conn'[k].server =>
          \E m \in Nodes : serving'[m] = k \/ Queued(k, m)
    BY <1>1, <2>3, ReleaseEffect DEF HeldByServers, TypeOK
  <2>5. \A m \in Nodes, k \in Connections : serving'[m] = k \/ Queued(k, m) =>
          conn'[k].server /\ conn'[k].to = m
    BY <1>1, <2>2, ReleaseEffect DEF HeldByServers
  <2>6. \A m \in Nodes : ~Queued(serving[m], m)'
    <3> SUFFICES ASSUME NEW m \in Nodes PROVE ~Queued(serving[m], m)'
      OBVIOUS
    <3>1. CASE m = n
      <4>1. serving'[m] = None
        BY <1>1, <3>1, ReleaseEffect DEF TypeOK
      <4>2. \A i \in 1..Len(backlog[m]) : backlog[m][i] \in Connections
        BY DEF TypeOK
      <4> QED BY <1>0, <4>1, <4>2 DEF Queued
    <3>2. CASE m # n
      <4>1. serving'[m] = serving[m]
        BY <1>1, <3>2, ReleaseEffect DEF TypeOK
      <4> QED BY <1>0, <4>1 DEF HeldByServers, Queued
    <3> QED BY <3>1, <3>2
  <2> QED BY <1>0, <2>1, <2>4, <2>5, <2>6 DEF HeldByServers
<1>5. Closed'
  BY <1>1, ReleaseEffect DEF Closed, Unused, TypeOK
<1>6. OneRequest'
  <2>1. \A k \in Connections : Unanswered(k) => Unanswered(k)'
    BY <1>1, ReleaseEffect DEF Unanswered
  <2>2. \A k \in Connections : Unread(k) => Unread(k)'
    BY <1>e DEF Unread, TypeOK
  <2>3. \A k \in Connections : up[k] = None => up'[k] = None
    BY <1>1, ReleaseEffect DEF TypeOK
  <2>4. \A d \in Callers : pc'[d] = "send" =>
           up'[chan'[d]] = None /\ Unanswered(chan[d])' /\ Unread(chan[d])'
    BY <1>0, <2>1, <2>2, <2>3 DEF OneRequest, TypeOK
  <2>5. \A k \in Connections : up'[k] # None => Unanswered(k)' /\ Unread(k)'
    BY <2>1, <2>2, <2>3 DEF OneRequest
  <2>6. \A m \in Nodes : m # n =>
          /\ srv'[m] = srv[m] /\ serving'[m] = serving[m] /\ reply'[m] = reply[m]
          /\ serving[m] # None => serving[m] \in Connections /\ serving[m] # serving[n]
    BY <1>1, ReleaseEffect DEF TypeOK, HeldByServers
  <2>7. srv'[n] \notin Holding
    BY <1>1, ReleaseEffect DEF TypeOK, Holding
  <2>8. \A m \in Nodes : srv'[m] \in {"dispatch", "function"} => Unanswered(serving[m])'
    BY <2>1, <2>6, <2>7 DEF OneRequest, TypeOK, Holding
  <2>9. \A m \in Nodes : srv'[m] = "reply" =>
            reply'[m] \in {Refused, Unencodable, ran'[serving'[m]]}
    <3> SUFFICES ASSUME NEW m \in Nodes, srv'[m] = "reply"
                 PROVE  reply'[m] \in {Refused, Unencodable, ran'[serving'[m]]}
      OBVIOUS
    <3>1. m # n
      BY <2>7 DEF Holding
    <3>2. serving[m] \in Connections /\ serving[m] # serving[n]
      BY <2>6, <3>1 DEF TypeOK, Holding
    <3>3. ran'[serving[m]] = ran[serving[m]]
      BY <1>1, <3>2, ReleaseEffect
    <3> QED BY <2>6, <3>1, <3>3 DEF OneRequest
  <2>10. \A k \in Connections : down'[k] # None => down'[k] \in {Refused, ran'[k]}
    BY <1>1, ReleaseEffect DEF OneRequest, Closed
  <2> QED BY <2>4, <2>5, <2>8, <2>9, <2>10 DEF OneRequest
<1>7. Nested'
  BY <1>0, <1>1, ReleaseEffect DEF Nested, TypeOK
<1>8. OnRecord'
  <2>1. \A k \in Connections : up'[k] = "misnamed" => conn'[k].to \in blamed
    <3>1. \A k \in Connections : up'[k] = "misnamed" => up[k] = "misnamed" /\ k # serving[n]
      BY <1>e DEF TypeOK, Kinds
    <3>2. \A k \in Connections : k # serving[n] => conn'[k] = conn[k]
      BY <1>1, ReleaseEffect
    <3> QED BY <3>1, <3>2 DEF OnRecord
  <2>2. \A m \in Nodes : /\ job'[m] = "misnamed" => m \in blamed
                         /\ reply'[m] = Unencodable => m \in blamed
                         /\ srv'[m] = "dead" => m \in blamed
    BY <1>e DEF OnRecord, TypeOK, Kinds
  <2> QED BY <1>0, <2>1, <2>2 DEF OnRecord
<1> QED BY <1>2, <1>3, <1>4, <1>5, <1>6, <1>7, <1>8

\* A connection joins the backlog at its end, ...
LEMMA Appended ==
  ASSUME NEW s \in Seq(Connections), NEW k \in Connections
  PROVE  /\ Append(s, k) \in Seq(Connections)
         /\ \A j : (\E i \in 1..Len(Append(s, k)) : Append(s, k)[i] = j)
                   <=> j = k \/ \E i \in 1..Len(s) : s[i] = j
         /\ (\A i \in 1..Len(s) : s[i] # k)
              /\ (\A i, j \in 1..Len(s) : s[i] = s[j] => i = j)
            => \A i, j \in 1..Len(Append(s, k)) :
                 Append(s, k)[i] = Append(s, k)[j] => i = j
<1> DEFINE t == Append(s, k)
<1>1. /\ t \in Seq(Connections) /\ Len(s) \in Nat /\ Len(t) = Len(s) + 1
      /\ \A i \in 1..Len(s) : t[i] = s[i]
      /\ t[Len(s) + 1] = k
  OBVIOUS
<1> HIDE DEF t
<1>2. 1..Len(t) = (1..Len(s)) \cup {Len(s) + 1}
  BY <1>1
<1>3. \A i \in 1..Len(s) : i # Len(s) + 1
  BY <1>1
<1>4. \A j : (\E i \in 1..Len(t) : t[i] = j) <=> j = k \/ \E i \in 1..Len(s) : s[i] = j
  BY <1>1, <1>2
<1>5. ASSUME \A i \in 1..Len(s) : s[i] # k,
             \A i, j \in 1..Len(s) : s[i] = s[j] => i = j
      PROVE  \A i, j \in 1..Len(t) : t[i] = t[j] => i = j
  BY <1>1, <1>2, <1>3, <1>5
<1> QED BY <1>1, <1>4, <1>5 DEF t

\* ... and leaves it at its head.
LEMMA Tailed ==
  ASSUME NEW s \in Seq(Connections), s # <<>>,
         \A i, j \in 1..Len(s) : s[i] = s[j] => i = j
  PROVE  /\ Tail(s) \in Seq(Connections) /\ Head(s) \in Connections
         /\ \E i \in 1..Len(s) : s[i] = Head(s)
         /\ \A j : (\E i \in 1..Len(Tail(s)) : Tail(s)[i] = j)
                   <=> j # Head(s) /\ \E i \in 1..Len(s) : s[i] = j
         /\ \A i, j \in 1..Len(Tail(s)) : Tail(s)[i] = Tail(s)[j] => i = j
<1> DEFINE t == Tail(s)
           n == Len(s)
<1>1. /\ t \in Seq(Connections) /\ Head(s) \in Connections
      /\ n \in Nat /\ n > 0 /\ Head(s) = s[1] /\ Len(t) = n - 1
      /\ \A i \in 1..(n - 1) : t[i] = s[i + 1]
  OBVIOUS
<1> HIDE DEF t
<1>2. \A i \in 1..Len(t) : i + 1 \in 1..n /\ i + 1 # 1 /\ t[i] = s[i + 1]
  BY <1>1
<1>3. \A i \in 1..n : i # 1 => i - 1 \in 1..Len(t) /\ t[i - 1] = s[i]
  BY <1>1
<1>4. 1 \in 1..n
  BY <1>1
<1>5. \A j : (\E i \in 1..Len(t) : t[i] = j)
             <=> j # Head(s) /\ \E i \in 1..n : s[i] = j
  BY <1>1, <1>2, <1>3, <1>4
<1>6. \A i, j \in 1..Len(t) : t[i] = t[j] => i = j
  BY <1>1, <1>2
<1> QED BY <1>1, <1>4, <1>5, <1>6 DEF t, n

\* A connection nobody uses is held by nobody and carries nothing.
LEMMA UnusedIsFree ==
  ASSUME Inv, NEW k \in Connections, conn[k] = Unused
  PROVE  /\ up[k] = None /\ down[k] = None /\ ran[k] = None
         /\ \A d \in Callers : chan[d] # k
         /\ \A n \in Nodes : serving[n] # k /\ ~Queued(k, n)
<1>1. ~conn[k].client /\ ~conn[k].server /\ conn[k].to = None
  BY DEF Unused
<1>2. k # None
  BY Distinct
<1> QED BY <1>1, <1>2 DEF Inv, Closed, HeldByCallers, HeldByServers

\* A connection is made at both ends: with a caller, and in a backlog.
LEMMA ConnectInv ==
  ASSUME Inv, NEW c \in Callers, Connect(c)
  PROVE  Inv'
<1> USE Distinct
<1> DEFINE k == NewConnection
           n == call[c].to
           new == [to |-> n, client |-> TRUE, server |-> TRUE]
<1>1. k \in Connections /\ conn[k] = Unused
  BY DEF Connect, NewConnection, Idle
<1>2. n \in Nodes
  BY DEF Connect, Inv, TypeOK, NoCall
<1>3. /\ conn' = [conn EXCEPT ![k] = new]
      /\ chan' = [chan EXCEPT ![c] = k]
      /\ backlog' = [backlog EXCEPT ![n] = Append(@, k)]
      /\ pc[c] = "connect" /\ pc' = [pc EXCEPT ![c] = "send"]
      /\ srv[n] # "off"
      /\ UNCHANGED <<call, got, up, down, ran, srv, shouldRun, serving, job, reply,
                     executed, calls, blamed>>
  BY DEF Connect, Go, work
<1>4. /\ up[k] = None /\ down[k] = None /\ ran[k] = None
      /\ \A d \in Callers : chan[d] # k
      /\ \A m \in Nodes : serving[m] # k /\ ~Queued(k, m)
  BY <1>1, UnusedIsFree
<1>5. new \in [to : Nodes \cup {None}, client : BOOLEAN, server : BOOLEAN]
  BY <1>2
<1>6. new.to = n /\ new.client /\ new.server
  OBVIOUS
<1>7. /\ backlog[n] \in Seq(Connections) /\ backlog'[n] = Append(backlog[n], k)
      /\ \A m \in Nodes : m # n => backlog'[m] = backlog[m]
  BY <1>2, <1>3 DEF Inv, TypeOK
<1> HIDE DEF k, n, new
<1>8. \A m \in Nodes, j \in Connections :
        Queued(j, m)' <=> Queued(j, m) \/ (m = n /\ j = k)
  <2> SUFFICES ASSUME NEW m \in Nodes, NEW j \in Connections
               PROVE  Queued(j, m)' <=> Queued(j, m) \/ (m = n /\ j = k)
    OBVIOUS
  <2>1. CASE m # n
    BY <1>7, <2>1 DEF Queued
  <2>2. CASE m = n
    <3> DEFINE t == Append(backlog[n], k)
    <3>1. backlog[n] \in Seq(Connections) /\ k \in Connections
      BY <1>1, <1>7
    <3>2. (\E i \in 1..Len(t) : t[i] = j)
            <=> j = k \/ \E i \in 1..Len(backlog[n]) : backlog[n][i] = j
      BY <3>1, Appended
    <3>3. backlog'[m] = t
      BY <1>7, <2>2
    <3> HIDE DEF t
    <3> QED BY <2>2, <3>2, <3>3, Zenon DEF Queued
  <2> QED BY <2>1, <2>2
<1>9. TypeOK'
  <2>1. /\ pc' \in [Callers -> ClientLabels]
        /\ chan' \in [Callers -> Connections \cup {None}]
        /\ \A d \in Callers :
             /\ chan'[d] # None <=> pc'[d] \in {"send", "waiting", "callback"}
             /\ call'[d] # NoCall <=> pc'[d] \notin {"idle", "crashed"}
    BY <1>1, <1>3 DEF Inv, TypeOK, ClientLabels
  <2>2. /\ conn' \in [Connections -> [to : Nodes \cup {None}, client : BOOLEAN,
                                      server : BOOLEAN]]
        /\ backlog' \in [Nodes -> Seq(Connections)]
    BY <1>1, <1>2, <1>3, <1>5, <1>7, Appended DEF Inv, TypeOK
  <2> QED BY <1>3, <2>1, <2>2 DEF Inv, TypeOK
<1>10. \A j \in Connections : j # k => conn'[j] = conn[j]
  BY <1>3 DEF Inv, TypeOK
<1>11. conn'[k] = new
  BY <1>1, <1>3 DEF Inv, TypeOK
<1>12. HeldByCallers'
  <2>1. \A d \in Callers : d # c => chan'[d] = chan[d] /\ chan[d] # k
    BY <1>3, <1>4 DEF Inv, TypeOK
  <2>2. chan'[c] = k /\ call'[c].to = n
    BY <1>3 DEF Inv, TypeOK, n
  <2>3. \A d \in Callers : chan'[d] # None =>
           conn'[chan'[d]].client /\ conn'[chan'[d]].to = call'[d].to
    BY <1>3, <1>6, <1>10, <1>11, <2>1, <2>2 DEF Inv, TypeOK, HeldByCallers
  <2>4. \A d, e \in Callers : chan'[d] # None /\ chan'[d] = chan'[e] => d = e
    BY <2>1, <2>2 DEF Inv, HeldByCallers
  <2> QED BY <2>3, <2>4 DEF HeldByCallers
<1>13. HeldByServers'
  <2>1. \A j \in Connections : conn'[j].server =>
          \E m \in Nodes : serving'[m] = j \/ Queued(j, m)'
    BY <1>2, <1>3, <1>8, <1>10 DEF Inv, HeldByServers
  <2>2. \A m \in Nodes, j \in Connections : serving'[m] = j \/ Queued(j, m)' =>
          conn'[j].server /\ conn'[j].to = m
    BY <1>3, <1>4, <1>6, <1>8, <1>10, <1>11 DEF Inv, HeldByServers
  <2>3. \A m \in Nodes : ~Queued(serving[m], m)'
    <3> SUFFICES ASSUME NEW m \in Nodes PROVE ~Queued(serving[m], m)'
      OBVIOUS
    <3>1. \A i \in 1..Len(backlog'[m]) : backlog'[m][i] \in Connections
      BY <1>9 DEF TypeOK
    <3>2. CASE serving[m] = None
      BY <1>3, <3>1, <3>2 DEF Queued
    <3>3. CASE serving[m] # None
      <4>1. serving[m] \in Connections /\ serving[m] # k /\ ~Queued(serving[m], m)
        BY <1>4, <3>3 DEF Inv, TypeOK, HeldByServers
      <4>2. serving'[m] = serving[m]
        BY <1>3
      <4> QED BY <1>8, <4>1, <4>2 DEF Queued
    <3> QED BY <3>2, <3>3
  <2>4. \A m \in Nodes : \A i, j \in 1..Len(backlog'[m]) :
          backlog'[m][i] = backlog'[m][j] => i = j
    <3> SUFFICES ASSUME NEW m \in Nodes
                 PROVE  \A i, j \in 1..Len(backlog'[m]) :
                          backlog'[m][i] = backlog'[m][j] => i = j
      OBVIOUS
    <3>1. CASE m # n
      BY <1>7, <3>1 DEF Inv, HeldByServers
    <3>2. CASE m = n
      <4>1. \A i \in 1..Len(backlog[n]) : backlog[n][i] # k
        BY <1>2, <1>4 DEF Queued
      <4>2. \A i, j \in 1..Len(backlog[n]) : backlog[n][i] = backlog[n][j] => i = j
        BY <1>2 DEF Inv, HeldByServers
      <4>3. \A i, j \in 1..Len(Append(backlog[n], k)) :
               Append(backlog[n], k)[i] = Append(backlog[n], k)[j] => i = j
        BY <1>1, <1>7, <4>1, <4>2, Appended
      <4> QED BY <1>7, <3>2, <4>3
    <3> QED BY <3>1, <3>2
  <2> QED BY <2>1, <2>2, <2>3, <2>4 DEF HeldByServers
<1>14. Closed'
  BY <1>2, <1>3, <1>4, <1>6, <1>10, <1>11 DEF Inv, Closed
<1>15. OneRequest'
  <2>1. \A d \in Callers : pc'[d] = "send" =>
           up'[chan'[d]] = None /\ Unanswered(chan[d])' /\ Unread(chan[d])'
    BY <1>1, <1>3, <1>4 DEF Inv, TypeOK, OneRequest, Unanswered, Unread
  <2> QED BY <1>3, <2>1 DEF Inv, OneRequest, Unanswered, Unread
<1>16. Nested'
  BY <1>3 DEF Inv, TypeOK, Nested
<1>17. OnRecord'
  BY <1>3, <1>4, <1>10 DEF Inv, OnRecord, Kinds
<1> QED BY <1>9, <1>12, <1>13, <1>14, <1>15, <1>16, <1>17 DEF Inv

\* The one request of a connection is sent.
LEMMA SendInv ==
  ASSUME Inv, NEW c \in Callers, SendRequest(c)
  PROVE  Inv'
<1> USE Distinct
<1> DEFINE k == chan[c]
           r == call[c].request
           n == call[c].to
<1>1. /\ pc[c] = "send" /\ pc' = [pc EXCEPT ![c] = "waiting"]
      /\ up' = [up EXCEPT ![k] = IF conn[k].server THEN r ELSE @]
      /\ blamed' = IF r = "misnamed" THEN blamed \cup {n} ELSE blamed
      /\ UNCHANGED <<call, chan, got, conn, down, ran, srv, shouldRun, backlog,
                     serving, job, reply, executed, calls>>
  BY DEF SendRequest, Go, server, work
<1>2. /\ k \in Connections /\ r \in Kinds /\ n \in Nodes
      /\ conn[k].to = n
      /\ up[k] = None /\ Unanswered(k) /\ Unread(k)
  BY <1>1 DEF Inv, TypeOK, HeldByCallers, OneRequest, NoCall
<1> HIDE DEF k, r, n
<1>3. TypeOK'
  <2>1. pc' \in [Callers -> ClientLabels]
    BY <1>1 DEF Inv, TypeOK, ClientLabels
  <2>3. \A d \in Callers :
          /\ chan'[d] # None <=> pc'[d] \in {"send", "waiting", "callback"}
          /\ call'[d] # NoCall <=> pc'[d] \notin {"idle", "crashed"}
    <3>1. \A d \in Callers : pc'[d] = IF d = c THEN "waiting" ELSE pc[d]
      BY <1>1 DEF Inv, TypeOK
    <3>2. \A d \in Callers : chan'[d] = chan[d] /\ call'[d] = call[d]
      BY <1>1
    <3> QED BY <1>1, <3>1, <3>2 DEF Inv, TypeOK
  <2>2. up' \in [Connections -> Kinds \cup {None}] /\ blamed' \subseteq Nodes
    BY <1>1, <1>2 DEF Inv, TypeOK
  <2> QED BY <1>1, <2>1, <2>2, <2>3 DEF Inv, TypeOK
<1>4. HeldByCallers'
  BY <1>1 DEF Inv, HeldByCallers
<1>5. HeldByServers'
  BY <1>1 DEF Inv, HeldByServers, Queued
<1>6. \A j \in Connections : up'[j] # None => up[j] # None \/ (j = k /\ conn[k].server)
  BY <1>1, <1>2 DEF Inv, TypeOK
<1>7. Closed'
  BY <1>1, <1>6 DEF Inv, Closed
<1>8. OneRequest'
  <2>1. \A d \in Callers : pc'[d] = "send" =>
           up'[chan'[d]] = None /\ Unanswered(chan[d])' /\ Unread(chan[d])'
    <3> SUFFICES ASSUME NEW d \in Callers, pc'[d] = "send"
                 PROVE  up'[chan'[d]] = None /\ Unanswered(chan[d])' /\ Unread(chan[d])'
      OBVIOUS
    <3>1. pc[d] = "send" /\ d # c
      BY <1>1 DEF Inv, TypeOK
    <3>2. chan[d] # None /\ chan[d] # k
      BY <1>1, <3>1 DEF Inv, TypeOK, HeldByCallers, k
    <3> QED BY <1>1, <3>1, <3>2 DEF Inv, TypeOK, OneRequest, Unanswered, Unread
  <2>2. \A j \in Connections : up'[j] # None => Unanswered(j)' /\ Unread(j)'
    BY <1>1, <1>2, <1>6 DEF Inv, OneRequest, Unanswered, Unread
  <2> QED BY <1>1, <2>1, <2>2 DEF Inv, OneRequest, Unanswered
<1>9. Nested'
  BY <1>1 DEF Inv, TypeOK, Nested, OneRequest
<1>10. OnRecord'
  BY <1>1, <1>2 DEF Inv, TypeOK, OnRecord
<1> QED BY <1>3, <1>4, <1>5, <1>7, <1>8, <1>9, <1>10 DEF Inv

\* A caller that has its answer keeps its connection through the callback.
LEMMA AnswerInv ==
  ASSUME Inv, NEW c \in Callers, ReceiveAnswer(c)
  PROVE  Inv'
<1> USE Distinct
<1>1. /\ pc[c] = "waiting" /\ pc' = [pc EXCEPT ![c] = "callback"]
      /\ got' = [got EXCEPT ![c] = IF down[chan[c]] = Refused THEN @ ELSE down[chan[c]]]
      /\ UNCHANGED <<call, chan, conn, up, down, ran, srv, shouldRun, backlog,
                     serving, job, reply, executed, calls, blamed>>
  BY DEF ReceiveAnswer, Go, wire, server, work
<1>2. TypeOK'
  <2>1. /\ pc' \in [Callers -> ClientLabels]
        /\ \A d \in Callers :
             /\ chan'[d] # None <=> pc'[d] \in {"send", "waiting", "callback"}
             /\ call'[d] # NoCall <=> pc'[d] \notin {"idle", "crashed"}
    BY <1>1 DEF Inv, TypeOK, ClientLabels
  <2>2. got' \in [Callers -> Nat \cup {None}]
    BY <1>1 DEF Inv, TypeOK
  <2> QED BY <1>1, <2>1, <2>2 DEF Inv, TypeOK
<1>3. HeldByCallers' /\ Closed' /\ OnRecord'
  BY <1>1 DEF Inv, HeldByCallers, Closed, OnRecord
<1>4. HeldByServers'
  BY <1>1 DEF Inv, HeldByServers, Queued
<1>5. \A d \in Callers : pc'[d] = "send" => pc[d] = "send"
  BY <1>1 DEF Inv, TypeOK
<1>6. OneRequest'
  BY <1>1, <1>5 DEF Inv, OneRequest, Unanswered, Unread
<1>7. Nested'
  BY <1>1 DEF Inv, TypeOK, Nested
<1> QED BY <1>2, <1>3, <1>4, <1>6, <1>7 DEF Inv

\* An application, or a service, begins a call.
LEMMA BeginInv ==
  ASSUME Inv, NEW c \in Callers, NEW n \in Nodes, NEW r \in Requests,
         pc[c] = "idle", CallBegin(c, n, r),
         \/ c \in Clients /\ UNCHANGED srv
         \/ c \in Nodes /\ srv[c] = "dispatch" /\ Serve(c, "function"),
         UNCHANGED <<wire, shouldRun, backlog, serving, work, executed, blamed>>
  PROVE  Inv'
<1> USE Distinct
<1>1. /\ pc' = [pc EXCEPT ![c] = "connect"]
      /\ call' = [call EXCEPT ![c] = [to |-> n, request |-> r]]
      /\ calls' = calls + 1
      /\ UNCHANGED <<chan, got, conn, up, down, ran, shouldRun, backlog,
                     serving, job, reply, executed, blamed>>
  BY DEF CallBegin, Go, wire, work
<1>2. r \in Kinds
  BY CallersAssumption
<1>3. \A m \in Nodes : srv'[m] = srv[m] \/ (srv[m] = "dispatch" /\ srv'[m] = "function")
  BY DEF Serve, Inv, TypeOK
<1>4. TypeOK'
  <2>1. /\ pc' \in [Callers -> ClientLabels]
        /\ call' \in [Callers -> [to : Nodes, request : Kinds] \cup {NoCall}]
        /\ calls' \in Nat
    BY <1>1, <1>2 DEF Inv, TypeOK, ClientLabels
  <2>2. \A d \in Callers :
             /\ chan'[d] # None <=> pc'[d] \in {"send", "waiting", "callback"}
             /\ call'[d] # NoCall <=> pc'[d] \notin {"idle", "crashed"}
    BY <1>1, <1>2 DEF Inv, TypeOK, NoCall
  <2>3. srv' \in [Nodes -> ServerLabels]
    BY DEF Serve, Inv, TypeOK, ServerLabels
  <2>4. \A m \in Nodes : serving'[m] # None <=> srv'[m] \in Holding
    BY <1>1, <1>3 DEF Inv, TypeOK, Holding
  <2> QED BY <1>1, <2>1, <2>2, <2>3, <2>4 DEF Inv, TypeOK
<1>5. \A d \in Callers : chan[d] # None => call'[d] = call[d]
  BY <1>1 DEF Inv, TypeOK
<1>6. HeldByCallers' /\ Closed'
  BY <1>1, <1>5 DEF Inv, HeldByCallers, Closed
<1>7. HeldByServers'
  BY <1>1 DEF Inv, HeldByServers, Queued
<1>8. \A d \in Callers : pc'[d] = "send" => pc[d] = "send"
  BY <1>1 DEF Inv, TypeOK
<1>9. OneRequest'
  <2>1. \A k : Unread(k) => Unread(k)'
    BY <1>1, <1>3 DEF Unread
  <2> QED BY <1>1, <1>3, <1>8, <2>1 DEF Inv, OneRequest, Unanswered
<1>10. Nested' /\ OnRecord'
  <2>1. \A m \in Nodes : srv[m] = "function" => srv'[m] = "function"
    BY <1>3
  <2>2. \A m \in Nodes : srv'[m] = "dead" => srv[m] = "dead"
    BY <1>3
  <2>3. c \in Nodes => srv'[c] = "function"
    BY DEF Serve, Inv, TypeOK
  <2> QED BY <1>1, <2>1, <2>2, <2>3 DEF Inv, TypeOK, Nested, OnRecord
<1> QED BY <1>4, <1>6, <1>7, <1>9, <1>10 DEF Inv

\* A server thread that goes on with nothing in hand.
LEMMA LoopInv ==
  ASSUME Inv, NEW n \in Nodes,
         Start(n) \/ Stop(n) \/ ServerLoop(n) \/ AcceptTimeout(n)
  PROVE  Inv'
<1> USE Distinct
<1>1. /\ UNCHANGED <<pc, call, chan, got, conn, up, down, ran, backlog, serving,
                     job, reply, executed, calls, blamed>>
      /\ shouldRun' \in [Nodes -> BOOLEAN]
  BY DEF Start, Stop, ServerLoop, AcceptTimeout, client, wire, work, Inv, TypeOK
<1>2. /\ srv' \in [Nodes -> ServerLabels]
      /\ \A m \in Nodes : srv'[m] # srv[m] =>
           /\ srv[m] \in {"off", "loop", "accept"}
           /\ srv'[m] \in {"loop", "accept", "stopped"}
  <2>1. \/ srv' = srv
        \/ /\ srv[n] \in {"off", "loop", "accept"}
           /\ \E label \in {"loop", "accept", "stopped"} : srv' = [srv EXCEPT ![n] = label]
    <3>1. CASE Start(n) \/ AcceptTimeout(n)
      BY <3>1 DEF Start, AcceptTimeout, Serve
    <3>2. CASE Stop(n)
      BY <3>2 DEF Stop
    <3>3. CASE ServerLoop(n)
      BY <3>3 DEF ServerLoop, Serve
    <3> QED BY <3>1, <3>2, <3>3
  <2>2. srv \in [Nodes -> ServerLabels]
    BY DEF Inv, TypeOK
  <2>3. ASSUME NEW label \in {"loop", "accept", "stopped"}, srv' = [srv EXCEPT ![n] = label]
        PROVE  /\ srv' \in [Nodes -> ServerLabels] /\ srv'[n] = label
               /\ \A m \in Nodes : m # n => srv'[m] = srv[m]
    BY <2>2, <2>3 DEF ServerLabels
  <2> QED BY <2>1, <2>2, <2>3
<1>3. TypeOK'
  <2>1. \A m \in Nodes : serving'[m] # None <=> srv'[m] \in Holding
    BY <1>1, <1>2 DEF Inv, TypeOK, Holding
  <2> QED BY <1>1, <1>2, <2>1 DEF Inv, TypeOK
<1>4. HeldByCallers' /\ Closed'
  BY <1>1 DEF Inv, HeldByCallers, Closed
<1>5. HeldByServers'
  BY <1>1 DEF Inv, HeldByServers, Queued
<1>6. OneRequest'
  <2>1. \A k : Unread(k) => Unread(k)'
    BY <1>1, <1>2 DEF Unread
  <2>2. \A m \in Nodes : srv'[m] \in {"dispatch", "function", "reply"} => srv'[m] = srv[m]
    BY <1>2
  <2> QED BY <1>1, <2>1, <2>2 DEF Inv, OneRequest, Unanswered
<1>7. Nested' /\ OnRecord'
  <2>1. \A m \in Nodes : srv[m] = "function" \/ srv'[m] = "dead" => srv'[m] = srv[m]
    BY <1>2
  <2> QED BY <1>1, <2>1 DEF Inv, Nested, OnRecord
<1> QED BY <1>3, <1>4, <1>5, <1>6, <1>7 DEF Inv

\* A connection goes from the backlog to the server.
LEMMA AcceptInv ==
  ASSUME Inv, NEW n \in Nodes, Accept(n)
  PROVE  Inv'
<1> USE Distinct
<1> DEFINE k == Head(backlog[n])
<1>1. /\ srv[n] = "accept" /\ srv' = [srv EXCEPT ![n] = "receive"]
      /\ serving' = [serving EXCEPT ![n] = k]
      /\ backlog' = [backlog EXCEPT ![n] = Tail(@)]
      /\ UNCHANGED <<pc, call, chan, got, conn, up, down, ran, shouldRun,
                     job, reply, executed, calls, blamed>>
  BY DEF Accept, Serve, client, wire, work
<1>2. /\ k \in Connections /\ Queued(k, n)
      /\ Tail(backlog[n]) \in Seq(Connections)
      /\ \A j : (\E i \in 1..Len(Tail(backlog[n])) : Tail(backlog[n])[i] = j)
                  <=> j # k /\ Queued(j, n)
      /\ \A i, j \in 1..Len(Tail(backlog[n])) :
           Tail(backlog[n])[i] = Tail(backlog[n])[j] => i = j
  <2>1. backlog[n] \in Seq(Connections) /\ backlog[n] # <<>>
    BY DEF Accept, Inv, TypeOK
  <2>2. \A i, j \in 1..Len(backlog[n]) : backlog[n][i] = backlog[n][j] => i = j
    BY DEF Inv, HeldByServers
  <2> QED BY <2>1, <2>2, Tailed DEF Queued
<1>3. /\ backlog'[n] = Tail(backlog[n]) /\ serving'[n] = k
      /\ \A m \in Nodes : m # n => backlog'[m] = backlog[m] /\ serving'[m] = serving[m]
  BY <1>1 DEF Inv, TypeOK
<1> HIDE DEF k
<1>4. \A m \in Nodes : \A j : Queued(j, m)' <=> Queued(j, m) /\ ~(m = n /\ j = k)
  <2> SUFFICES ASSUME NEW m \in Nodes, NEW j
               PROVE  Queued(j, m)' <=> Queued(j, m) /\ ~(m = n /\ j = k)
    OBVIOUS
  <2>1. CASE m # n
    BY <1>3, <2>1 DEF Queued
  <2>2. CASE m = n
    <3>1. Queued(j, n)' <=> \E i \in 1..Len(Tail(backlog[n])) : Tail(backlog[n])[i] = j
      BY <1>3 DEF Queued
    <3> QED BY <1>2, <2>2, <3>1
  <2> QED BY <2>1, <2>2
<1>5. TypeOK'
  <2>1. /\ srv' \in [Nodes -> ServerLabels]
        /\ serving' \in [Nodes -> Connections \cup {None}]
        /\ backlog' \in [Nodes -> Seq(Connections)]
    BY <1>1, <1>2 DEF Inv, TypeOK, ServerLabels
  <2>2. \A m \in Nodes : serving'[m] # None <=> srv'[m] \in Holding
    BY <1>1, <1>2 DEF Inv, TypeOK, Holding
  <2> QED BY <1>1, <2>1, <2>2 DEF Inv, TypeOK
<1>6. HeldByCallers' /\ Closed'
  BY <1>1 DEF Inv, HeldByCallers, Closed
<1>7. serving[n] = None
  BY <1>1 DEF Inv, TypeOK, Holding
<1>8. HeldByServers'
  <2>1. \A j \in Connections : conn'[j].server =>
          \E m \in Nodes : serving'[m] = j \/ Queued(j, m)'
    BY <1>1, <1>3, <1>4, <1>7 DEF Inv, HeldByServers
  <2>2. \A m \in Nodes, j \in Connections : serving'[m] = j \/ Queued(j, m)' =>
          conn'[j].server /\ conn'[j].to = m
    BY <1>1, <1>2, <1>3, <1>4 DEF Inv, HeldByServers
  <2>3. \A m \in Nodes : ~Queued(serving[m], m)'
    <3> SUFFICES ASSUME NEW m \in Nodes PROVE ~Queued(serving[m], m)'
      OBVIOUS
    <3>1. CASE m # n
      BY <1>3, <3>1 DEF Inv, HeldByServers, Queued
    <3>2. CASE m = n
      BY <1>2, <1>3, <3>2 DEF Queued
    <3> QED BY <3>1, <3>2
  <2>4. \A m \in Nodes : \A i, j \in 1..Len(backlog'[m]) :
          backlog'[m][i] = backlog'[m][j] => i = j
    <3> SUFFICES ASSUME NEW m \in Nodes
                 PROVE  \A i, j \in 1..Len(backlog'[m]) :
                          backlog'[m][i] = backlog'[m][j] => i = j
      OBVIOUS
    <3>1. CASE m # n
      BY <1>3, <3>1 DEF Inv, HeldByServers
    <3>2. CASE m = n
      BY <1>2, <1>3, <3>2
    <3> QED BY <3>1, <3>2
  <2> QED BY <2>1, <2>2, <2>3, <2>4 DEF HeldByServers
<1>9. \A m \in Nodes : m # n => srv'[m] = srv[m]
  BY <1>1 DEF Inv, TypeOK
<1>10. srv'[n] = "receive"
  BY <1>1 DEF Inv, TypeOK
<1>11. OneRequest'
  <2>1. \A j : Unread(j) => Unread(j)'
    BY <1>3, <1>9, <1>10 DEF Unread
  <2>2. \A m \in Nodes : srv'[m] \in {"dispatch", "function", "reply"} =>
          srv'[m] = srv[m] /\ serving'[m] = serving[m]
    BY <1>3, <1>9, <1>10
  <2> QED BY <1>1, <2>1, <2>2 DEF Inv, OneRequest, Unanswered
<1>12. Nested' /\ OnRecord'
  BY <1>1, <1>9, <1>10 DEF Inv, Nested, OnRecord
<1> QED BY <1>5, <1>6, <1>8, <1>11, <1>12 DEF Inv

\* What a server does with the request of its connection.
LEMMA ReceiveInv ==
  ASSUME Inv, NEW n \in Nodes, ReceiveRequest(n)
  PROVE  Inv'
<1> USE Distinct
<1> DEFINE k == serving[n]
<1>1. /\ srv[n] = "receive" /\ srv' = [srv EXCEPT ![n] = "dispatch"]
      /\ up[k] # None
      /\ job' = [job EXCEPT ![n] = up[k]]
      /\ up' = [up EXCEPT ![k] = None]
      /\ UNCHANGED <<pc, call, chan, got, conn, down, ran, shouldRun, backlog,
                     serving, reply, executed, calls, blamed>>
  BY DEF ReceiveRequest, Serve, client
<1>2. k \in Connections /\ conn[k].to = n /\ Unanswered(k)
  BY <1>1 DEF Inv, TypeOK, Holding, HeldByServers, OneRequest
<1>3. \A m \in Nodes : m # n => srv'[m] = srv[m] /\ serving[m] # k /\ job'[m] = job[m]
  BY <1>1, <1>2 DEF Inv, TypeOK, HeldByServers
<1>4. srv'[n] = "dispatch" /\ job'[n] = up[k]
  BY <1>1 DEF Inv, TypeOK
<1>5. \A j \in Connections : up'[j] = IF j = k THEN None ELSE up[j]
  BY <1>1 DEF Inv, TypeOK
<1> HIDE DEF k
<1>6. TypeOK'
  <2>1. /\ srv' \in [Nodes -> ServerLabels]
        /\ job' \in [Nodes -> Kinds \cup {None}]
        /\ up' \in [Connections -> Kinds \cup {None}]
    BY <1>1, <1>2 DEF Inv, TypeOK, ServerLabels
  <2>2. \A m \in Nodes : serving'[m] # None <=> srv'[m] \in Holding
    BY <1>1, <1>3, <1>4 DEF Inv, TypeOK, Holding
  <2> QED BY <1>1, <2>1, <2>2 DEF Inv, TypeOK
<1>7. HeldByCallers' /\ Closed'
  BY <1>1, <1>5 DEF Inv, HeldByCallers, Closed
<1>8. HeldByServers'
  BY <1>1 DEF Inv, HeldByServers, Queued
<1>9. OneRequest'
  <2>1. \A j \in Connections : j # k /\ Unread(j) => Unread(j)'
    BY <1>1, <1>3 DEF Unread, k
  <2>2. \A d \in Callers : pc[d] = "send" => chan[d] \in Connections /\ chan[d] # k
    BY <1>1 DEF Inv, TypeOK, OneRequest
  <2>3. \A d \in Callers : pc'[d] = "send" =>
           up'[chan'[d]] = None /\ Unanswered(chan[d])' /\ Unread(chan[d])'
    BY <1>1, <1>5, <2>1, <2>2 DEF Inv, OneRequest, Unanswered
  <2>4. \A j \in Connections : up'[j] # None => Unanswered(j)' /\ Unread(j)'
    BY <1>1, <1>5, <2>1 DEF Inv, OneRequest, Unanswered
  <2>5. \A m \in Nodes : srv'[m] \in {"dispatch", "function"} => Unanswered(serving[m])'
    BY <1>1, <1>2, <1>3 DEF Inv, OneRequest, Unanswered, k
  <2> QED BY <1>1, <1>3, <1>4, <2>3, <2>4, <2>5 DEF Inv, OneRequest
<1>10. Nested'
  BY <1>1, <1>3, <1>4 DEF Inv, Nested
<1>11. OnRecord'
  <2>1. \A j \in Connections : up'[j] = "misnamed" => up[j] = "misnamed"
    BY <1>5 DEF Kinds
  <2>2. \A m \in Nodes : job'[m] = "misnamed" => m \in blamed
    BY <1>2, <1>3, <1>4 DEF Inv, OnRecord
  <2>3. \A m \in Nodes : srv'[m] = "dead" => m \in blamed
    BY <1>3, <1>4 DEF Inv, OnRecord
  <2> QED BY <1>1, <2>1, <2>2, <2>3 DEF Inv, OnRecord
<1> QED BY <1>6, <1>7, <1>8, <1>9, <1>10, <1>11 DEF Inv

\* A request that is refused, or whose service raises, runs nothing.
LEMMA RefuseInv ==
  ASSUME Inv, NEW n \in Nodes, Refuse(n) \/ FunctionRaises(n)
  PROVE  Inv'
<1> USE Distinct
<1>1. /\ srv[n] \in {"dispatch", "function"} /\ srv' = [srv EXCEPT ![n] = "reply"]
      /\ pc[n] = "idle"
      /\ job' = [job EXCEPT ![n] = None]
      /\ reply' = [reply EXCEPT ![n] = Refused]
      /\ UNCHANGED <<pc, call, chan, got, conn, up, down, ran, shouldRun, backlog,
                     serving, executed, calls, blamed>>
  BY DEF Refuse, FunctionRaises, Serve, client, wire, Inv, Nested
<1>2. TypeOK'
  <2>1. /\ srv' \in [Nodes -> ServerLabels]
        /\ job' \in [Nodes -> Kinds \cup {None}]
        /\ reply' \in [Nodes -> Nat \cup {Unencodable, None}]
    BY <1>1 DEF Inv, TypeOK, ServerLabels
  <2>2. \A m \in Nodes : serving'[m] # None <=> srv'[m] \in Holding
    BY <1>1 DEF Inv, TypeOK, Holding
  <2> QED BY <1>1, <2>1, <2>2 DEF Inv, TypeOK
<1>3. HeldByCallers' /\ Closed'
  BY <1>1 DEF Inv, HeldByCallers, Closed
<1>4. HeldByServers'
  BY <1>1 DEF Inv, HeldByServers, Queued
<1>5. \A m \in Nodes : m # n =>
        srv'[m] = srv[m] /\ job'[m] = job[m] /\ reply'[m] = reply[m]
  BY <1>1 DEF Inv, TypeOK
<1>6. srv'[n] = "reply" /\ job'[n] = None /\ reply'[n] = Refused
  BY <1>1 DEF Inv, TypeOK
<1>7. OneRequest'
  <2>1. \A j : Unread(j) => Unread(j)'
    BY <1>1, <1>5 DEF Unread
  <2> QED BY <1>1, <1>5, <1>6, <2>1 DEF Inv, OneRequest, Unanswered
<1>8. Nested'
  BY <1>1, <1>5 DEF Inv, Nested
<1>9. OnRecord'
  BY <1>1, <1>5, <1>6 DEF Inv, OnRecord, Kinds
<1> QED BY <1>2, <1>3, <1>4, <1>7, <1>8, <1>9 DEF Inv

\* A service that returns has run for its connection, the first time.
LEMMA ReturnInv ==
  ASSUME Inv, NEW n \in Nodes, FunctionReturns(n)
  PROVE  Inv'
<1> USE Distinct
<1> DEFINE k == serving[n]
           v == executed[n] + 1
<1>1. PICK a \in {v, Unencodable} :
        /\ reply' = [reply EXCEPT ![n] = a]
        /\ blamed' = IF a = v THEN blamed ELSE blamed \cup {n}
  BY DEF FunctionReturns, Inv, TypeOK
<1>2. /\ srv[n] = "function" /\ srv' = [srv EXCEPT ![n] = "reply"]
      /\ pc[n] = "idle"
      /\ executed' = [executed EXCEPT ![n] = v]
      /\ ran' = [ran EXCEPT ![k] = v]
      /\ job' = [job EXCEPT ![n] = None]
      /\ UNCHANGED <<pc, call, chan, got, conn, up, down, shouldRun, backlog,
                     serving, calls>>
  BY DEF FunctionReturns, Serve, client, Inv, TypeOK
<1>3. /\ k \in Connections /\ conn[k].to = n /\ Unanswered(k) /\ up[k] = None
      /\ \A d \in Callers : pc[d] = "send" => chan[d] # k
      /\ v \in Nat /\ v # Unencodable
  BY <1>2 DEF Inv, TypeOK, Holding, HeldByServers, OneRequest, Unread
<1>4. \A m \in Nodes : m # n =>
        /\ srv'[m] = srv[m] /\ serving[m] # k
        /\ job'[m] = job[m] /\ reply'[m] = reply[m]
  BY <1>1, <1>2, <1>3 DEF Inv, TypeOK, HeldByServers
<1>5. srv'[n] = "reply" /\ job'[n] = None /\ reply'[n] = a
  BY <1>1, <1>2 DEF Inv, TypeOK
<1>6. \A j \in Connections : ran'[j] = IF j = k THEN v ELSE ran[j]
  BY <1>2 DEF Inv, TypeOK
<1> HIDE DEF k, v
<1>7. TypeOK'
  <2>1. /\ srv' \in [Nodes -> ServerLabels]
        /\ job' \in [Nodes -> Kinds \cup {None}]
        /\ reply' \in [Nodes -> Nat \cup {Unencodable, None}]
        /\ ran' \in [Connections -> Nat \cup {None}]
        /\ executed' \in [Nodes -> Nat]
        /\ blamed' \subseteq Nodes
    BY <1>1, <1>2, <1>3 DEF Inv, TypeOK, ServerLabels
  <2>2. \A m \in Nodes : serving'[m] # None <=> srv'[m] \in Holding
    BY <1>2, <1>4, <1>5 DEF Inv, TypeOK, Holding
  <2> QED BY <1>2, <2>1, <2>2 DEF Inv, TypeOK
<1>8. HeldByCallers'
  BY <1>2 DEF Inv, HeldByCallers
<1>9. Closed'
  BY <1>2, <1>3, <1>6 DEF Inv, Closed
<1>10. HeldByServers'
  BY <1>2 DEF Inv, HeldByServers, Queued
<1>11. OneRequest'
  <2>1. \A j : j # k /\ Unread(j) => Unread(j)'
    BY <1>2, <1>4 DEF Unread, k
  <2>2. \A j \in Connections : j # k /\ Unanswered(j) => Unanswered(j)'
    BY <1>2, <1>6 DEF Unanswered
  <2>3. \A d \in Callers : pc[d] = "send" => chan[d] \in Connections /\ chan[d] # k
    BY <1>3 DEF Inv, TypeOK
  <2>4. \A d \in Callers : pc'[d] = "send" =>
           up'[chan'[d]] = None /\ Unanswered(chan[d])' /\ Unread(chan[d])'
    BY <1>2, <2>1, <2>2, <2>3 DEF Inv, OneRequest, Unanswered
  <2>5. \A j \in Connections : up'[j] # None => Unanswered(j)' /\ Unread(j)'
    BY <1>2, <1>3, <2>1, <2>2 DEF Inv, OneRequest
  <2>6. \A m \in Nodes : srv'[m] \in {"dispatch", "function"} => Unanswered(serving[m])'
    <3> SUFFICES ASSUME NEW m \in Nodes, srv'[m] \in {"dispatch", "function"}
                 PROVE  Unanswered(serving[m])'
      OBVIOUS
    <3>1. m # n /\ srv[m] = srv'[m] /\ serving[m] # k
      BY <1>4, <1>5
    <3>2. serving[m] \in Connections /\ Unanswered(serving[m])
      BY <3>1 DEF Inv, TypeOK, Holding, OneRequest
    <3> QED BY <1>2, <1>6, <3>1, <3>2 DEF Unanswered
  <2>7. \A m \in Nodes : srv'[m] = "reply" =>
            reply'[m] \in {Refused, Unencodable, ran'[serving'[m]]}
    <3> SUFFICES ASSUME NEW m \in Nodes, srv'[m] = "reply"
                 PROVE  reply'[m] \in {Refused, Unencodable, ran'[serving'[m]]}
      OBVIOUS
    <3>1. CASE m = n
      BY <1>2, <1>3, <1>5, <1>6, <3>1 DEF k
    <3>2. CASE m # n
      <4>1. serving[m] \in Connections
        BY <1>4, <3>2 DEF Inv, TypeOK, Holding
      <4> QED BY <1>2, <1>4, <1>6, <3>2, <4>1 DEF Inv, OneRequest
    <3> QED BY <3>1, <3>2
  <2>8. \A j \in Connections : down'[j] # None => down'[j] \in {Refused, ran'[j]}
    BY <1>2, <1>3, <1>6 DEF Inv, OneRequest, Unanswered
  <2> QED BY <2>4, <2>5, <2>6, <2>7, <2>8 DEF OneRequest
<1>12. Nested'
  BY <1>2, <1>4 DEF Inv, Nested
<1>13. OnRecord'
  <2>1. \A m \in Nodes : m \in blamed => m \in blamed'
    BY <1>1
  <2>2. \A j \in Connections : up'[j] = "misnamed" => conn'[j].to \in blamed'
    BY <1>1, <1>2 DEF Inv, OnRecord
  <2>3. \A m \in Nodes : job'[m] = "misnamed" => m \in blamed'
    BY <1>4, <1>5, <2>1 DEF Inv, OnRecord, Kinds
  <2>4. \A m \in Nodes : reply'[m] = Unencodable => m \in blamed'
    BY <1>1, <1>3, <1>4, <1>5, <2>1 DEF Inv, OnRecord
  <2>5. \A m \in Nodes : srv'[m] = "dead" => m \in blamed'
    BY <1>4, <1>5, <2>1 DEF Inv, OnRecord
  <2> QED BY <2>2, <2>3, <2>4, <2>5 DEF OnRecord
<1> QED BY <1>7, <1>8, <1>9, <1>10, <1>11, <1>12, <1>13 DEF Inv

\* What is sent is a refusal or the value of the service that ran.
LEMMA ReplyInv ==
  ASSUME Inv, NEW n \in Nodes, SendReply(n)
  PROVE  Inv'
<1> USE Distinct
<1> DEFINE k == serving[n]
<1>1. /\ srv[n] = "reply" /\ srv' = [srv EXCEPT ![n] = "receive"]
      /\ reply[n] # Unencodable
      /\ down' = [down EXCEPT ![k] = IF conn[k].client THEN reply[n] ELSE @]
      /\ reply' = [reply EXCEPT ![n] = None]
      /\ UNCHANGED <<pc, call, chan, got, conn, up, ran, shouldRun, backlog,
                     serving, job, executed, calls, blamed>>
  BY DEF SendReply, Serve, client
<1>2. /\ k \in Connections /\ up[k] = None
      /\ \A d \in Callers : pc[d] = "send" => chan[d] # k
      /\ reply[n] \in Nat \cup {None} /\ reply[n] \in {Refused, ran[k]}
  BY <1>1 DEF Inv, TypeOK, Holding, OneRequest, Unread
<1>3. \A m \in Nodes : m # n =>
        /\ srv'[m] = srv[m] /\ reply'[m] = reply[m]
        /\ serving[m] # None => serving[m] # k
  BY <1>1, <1>2 DEF Inv, TypeOK, HeldByServers
<1>4. srv'[n] = "receive" /\ reply'[n] = None
  BY <1>1 DEF Inv, TypeOK
<1>5. \A j \in Connections :
        down'[j] = IF j = k /\ conn[k].client THEN reply[n] ELSE down[j]
  BY <1>1 DEF Inv, TypeOK
<1> HIDE DEF k
<1>6. TypeOK'
  <2>1. /\ srv' \in [Nodes -> ServerLabels]
        /\ reply' \in [Nodes -> Nat \cup {Unencodable, None}]
    BY <1>1 DEF Inv, TypeOK, ServerLabels
  <2>2. down' \in [Connections -> Nat \cup {None}]
    BY <1>1, <1>2 DEF Inv, TypeOK
  <2>3. \A m \in Nodes : serving'[m] # None <=> srv'[m] \in Holding
    BY <1>1, <1>3, <1>4 DEF Inv, TypeOK, Holding
  <2> QED BY <1>1, <2>1, <2>2, <2>3 DEF Inv, TypeOK
<1>7. HeldByCallers'
  BY <1>1 DEF Inv, HeldByCallers
<1>8. Closed'
  BY <1>1, <1>5 DEF Inv, Closed
<1>9. HeldByServers'
  BY <1>1 DEF Inv, HeldByServers, Queued
<1>10. OneRequest'
  <2>1. \A j : Unread(j) => Unread(j)'
    BY <1>1, <1>3, <1>4 DEF Unread
  <2>2. \A j \in Connections : j # k /\ Unanswered(j) => Unanswered(j)'
    BY <1>1, <1>5 DEF Unanswered
  <2>3. \A d \in Callers : pc[d] = "send" => chan[d] \in Connections /\ chan[d] # k
    BY <1>2 DEF Inv, TypeOK
  <2>4. \A d \in Callers : pc'[d] = "send" =>
           up'[chan'[d]] = None /\ Unanswered(chan[d])' /\ Unread(chan[d])'
    BY <1>1, <2>1, <2>2, <2>3 DEF Inv, OneRequest
  <2>5. \A j \in Connections : up'[j] # None => Unanswered(j)' /\ Unread(j)'
    BY <1>1, <1>2, <2>1, <2>2 DEF Inv, OneRequest
  <2>6. \A m \in Nodes : srv'[m] \in {"dispatch", "function"} => Unanswered(serving[m])'
    <3> SUFFICES ASSUME NEW m \in Nodes, srv'[m] \in {"dispatch", "function"}
                 PROVE  Unanswered(serving[m])'
      OBVIOUS
    <3>1. m # n /\ srv[m] = srv'[m]
      BY <1>3, <1>4
    <3>2. serving[m] \in Connections /\ Unanswered(serving[m]) /\ serving[m] # k
      BY <1>3, <3>1 DEF Inv, TypeOK, Holding, OneRequest
    <3> QED BY <1>1, <2>2, <3>2 DEF Unanswered
  <2>7. \A m \in Nodes : srv'[m] = "reply" =>
            reply'[m] \in {Refused, Unencodable, ran'[serving'[m]]}
    BY <1>1, <1>3, <1>4 DEF Inv, OneRequest
  <2>8. \A j \in Connections : down'[j] # None => down'[j] \in {Refused, ran'[j]}
    BY <1>1, <1>2, <1>5 DEF Inv, OneRequest
  <2> QED BY <2>4, <2>5, <2>6, <2>7, <2>8 DEF OneRequest
<1>11. Nested'
  BY <1>1, <1>3 DEF Inv, Nested
<1>12. OnRecord'
  BY <1>1, <1>3, <1>4 DEF Inv, OnRecord
<1> QED BY <1>6, <1>7, <1>8, <1>9, <1>10, <1>11, <1>12 DEF Inv

\* A service that calls nobody.
LEMMA FunctionInv ==
  ASSUME Inv, NEW n \in Nodes, srv[n] = "dispatch", Serve(n, "function"),
         UNCHANGED <<client, wire, shouldRun, backlog, serving, work, executed,
                     calls, blamed>>
  PROVE  Inv'
<1>1. UNCHANGED <<pc, call, chan, got, conn, up, down, ran, shouldRun, backlog,
                  serving, job, reply, executed, calls, blamed>>
  BY DEF client, wire, work
<1>2. /\ srv' \in [Nodes -> ServerLabels] /\ srv'[n] = "function"
      /\ \A m \in Nodes : m # n => srv'[m] = srv[m]
  BY DEF Serve, Inv, TypeOK, ServerLabels
<1>3. TypeOK'
  <2>1. \A m \in Nodes : serving'[m] # None <=> srv'[m] \in Holding
    BY <1>1, <1>2 DEF Inv, TypeOK, Holding
  <2> QED BY <1>1, <1>2, <2>1 DEF Inv, TypeOK
<1>4. HeldByCallers' /\ Closed'
  BY <1>1 DEF Inv, HeldByCallers, Closed
<1>5. HeldByServers'
  BY <1>1 DEF Inv, HeldByServers, Queued
<1>6. OneRequest'
  <2>1. \A j : Unread(j) => Unread(j)'
    BY <1>1, <1>2 DEF Unread
  <2> QED BY <1>1, <1>2, <2>1 DEF Inv, OneRequest, Unanswered
<1>7. Nested' /\ OnRecord'
  BY <1>1, <1>2 DEF Inv, Nested, OnRecord
<1> QED BY <1>3, <1>4, <1>5, <1>6, <1>7 DEF Inv

\* No connection is open, and nobody calls or is called.
LEMMA InitInv == Init => Inv
<1> SUFFICES ASSUME Init PROVE Inv
  OBVIOUS
<1> USE Distinct
<1>1. TypeOK
  <2>1. Unused \in [to : Nodes \cup {None}, client : BOOLEAN, server : BOOLEAN]
    BY DEF Unused
  <2> QED BY <2>1 DEF Init, TypeOK, ClientLabels, ServerLabels, Holding
<1>2. HeldByCallers /\ Closed
  BY DEF Init, HeldByCallers, Closed, Unused
<1>3. HeldByServers
  BY DEF Init, HeldByServers, Queued, Unused
<1>4. OneRequest /\ Nested /\ OnRecord
  BY DEF Init, OneRequest, Nested, OnRecord, Unanswered, Unread, Callers, Kinds
<1> QED BY <1>1, <1>2, <1>3, <1>4 DEF Inv

\* What a caller does.
LEMMA CallerStep ==
  ASSUME Inv, NEW c \in Callers, CallService(c) \/ Progress(c) \/ Crash(c)
  PROVE  Inv'
<1>1. CASE CallService(c)
  <2>1. /\ c \in Clients /\ pc[c] = "idle"
        /\ UNCHANGED <<wire, srv, shouldRun, backlog, serving, work, executed, blamed>>
    BY <1>1 DEF CallService, server
  <2>2. PICK n \in Nodes, r \in Requests : CallBegin(c, n, r)
    BY <1>1 DEF CallService
  <2> QED BY <2>1, <2>2, BeginInv
<1>2. CASE Connect(c)
  BY <1>2, ConnectInv
<1>3. CASE ConnectFails(c) \/ ReceiveEnd(c) \/ CallReturns(c)
  <2>1. Go(c, "idle") /\ Hangup(c) /\ UNCHANGED <<got, server, calls, blamed>>
    BY <1>3 DEF ConnectFails, ReceiveEnd, CallReturns
  <2> QED BY <2>1, HangupInv
<1>4. CASE SendRequest(c)
  BY <1>4, SendInv
<1>5. CASE ReceiveAnswer(c)
  BY <1>5, AnswerInv
<1>6. CASE Crash(c)
  <2>1. /\ Go(c, "crashed") /\ Hangup(c) /\ UNCHANGED <<got, server, calls, blamed>>
        /\ c \notin Nodes
    BY <1>6, Distinct DEF Crash
  <2> QED BY <2>1, HangupInv
<1> QED BY <1>1, <1>2, <1>3, <1>4, <1>5, <1>6 DEF Progress

\* What a server does.
LEMMA ServerStep ==
  ASSUME Inv, NEW n \in Nodes, Start(n) \/ Stop(n) \/ Server(n)
  PROVE  Inv'
<1>1. CASE Start(n) \/ Stop(n) \/ ServerLoop(n) \/ AcceptTimeout(n)
  BY <1>1, LoopInv
<1>2. CASE Accept(n)
  BY <1>2, AcceptInv
<1>3. CASE ReceiveRequest(n)
  BY <1>3, ReceiveInv
<1>4. CASE ClientGone(n) \/ Misnamed(n) \/ EncodingFails(n)
  <2>1. PICK label \in {"loop", "dead"} :
          Release(n, label) /\ (label = "dead" => n \in blamed)
    BY <1>4 DEF ClientGone, Misnamed, EncodingFails, Inv, OnRecord
  <2>2. /\ srv[n] \in {"receive", "dispatch", "reply"}
        /\ UNCHANGED <<client, shouldRun, backlog, executed, calls, blamed>>
    BY <1>4 DEF ClientGone, Misnamed, EncodingFails
  <2> QED BY <2>1, <2>2, ReleaseInv
<1>5. CASE Refuse(n) \/ FunctionRaises(n)
  BY <1>5, RefuseInv
<1>6. CASE CallFunction(n)
  <2>1. /\ n \in Callers /\ pc[n] = "idle"
        /\ srv[n] = "dispatch" /\ Serve(n, "function")
        /\ UNCHANGED <<wire, shouldRun, backlog, serving, work, executed, blamed>>
    BY <1>6, Distinct DEF CallFunction, Inv, Nested
  <2>2. CASE UNCHANGED <<client, calls>>
    BY <2>1, <2>2, FunctionInv
  <2>3. CASE \E m \in Nodes, r \in Requests : CallBegin(n, m, r)
    BY <2>1, <2>3, BeginInv
  <2> QED BY <1>6, <2>2, <2>3 DEF CallFunction
<1>7. CASE FunctionReturns(n)
  BY <1>7, ReturnInv
<1>8. CASE SendReply(n)
  BY <1>8, ReplyInv
<1> QED
  BY <1>1, <1>2, <1>3, <1>4, <1>5, <1>6, <1>7, <1>8 DEF Server

\* Every step preserves the invariant.
LEMMA NextInv == Inv /\ [Next]_vars => Inv'
<1> SUFFICES ASSUME Inv, [Next]_vars PROVE Inv'
  OBVIOUS
<1>1. CASE UNCHANGED vars
  <2>1. UNCHANGED <<pc, call, chan, got, conn, up, down, ran, srv, shouldRun,
                    backlog, serving, job, reply, executed, calls, blamed>>
    BY <1>1 DEF vars, client, wire, server, work
  <2>2. TypeOK' /\ HeldByCallers' /\ HeldByServers'
    BY <2>1 DEF Inv, TypeOK, HeldByCallers, HeldByServers, Queued
  <2>3. Closed' /\ OneRequest' /\ Nested' /\ OnRecord'
    BY <2>1 DEF Inv, Closed, OneRequest, Nested, OnRecord, Unanswered, Unread
  <2> QED BY <2>2, <2>3 DEF Inv
<1>2. CASE Next
  BY <1>2, CallerStep, ServerStep DEF Next
<1> QED BY <1>1, <1>2

\* The invariant of the service calls: who holds which end of which
\* connection, and what one connection carries in its life.
THEOREM Invariance == Spec => []Inv
BY InitInv, NextInv, PTL DEF Spec

\* Every variable keeps its type, and a caller or a server holds a
\* connection exactly at the labels where the code has a socket in scope.
THEOREM TypeCorrect == Spec => []TypeOK
<1>1. Inv => TypeOK
  BY DEF Inv
<1> QED BY <1>1, Invariance, PTL

\* However clients are killed, queued and refused, only a request or an
\* answer its own node cannot handle ends a server thread.
THEOREM ServersSurvive == Spec => []OnlyBlamedServersDie
<1>1. Inv => OnlyBlamedServersDie
  BY DEF Inv, OnRecord, OnlyBlamedServersDie
<1> QED BY <1>1, Invariance, PTL

\* The connection of a caller that waits has its answer, was closed by the
\* server, is served or is in the backlog: none is lost in between.
THEOREM NobodyForgotten == Spec => []NobodyIsForgotten
<1>1. Inv => NobodyIsForgotten
  <2> SUFFICES ASSUME Inv, NEW c \in Callers, pc[c] = "waiting",
                      conn[chan[c]].server
               PROVE  \/ serving[call[c].to] = chan[c]
                      \/ Queued(chan[c], call[c].to)
    BY DEF NobodyIsForgotten, Queued
  <2>1. chan[c] \in Connections /\ conn[chan[c]].to = call[c].to
    BY Distinct DEF Inv, TypeOK, HeldByCallers
  <2>2. PICK n \in Nodes : serving[n] = chan[c] \/ Queued(chan[c], n)
    BY <2>1 DEF Inv, HeldByServers
  <2>3. conn[chan[c]].to = n
    BY <2>1, <2>2 DEF Inv, HeldByServers
  <2> QED BY <2>1, <2>2, <2>3
<1> QED BY <1>1, Invariance, PTL

\* What Rpc sees of the state, under names of their own.
Calling == [c \in Callers |->
              IF pc[c] \in {"send", "waiting"} THEN chan[c] ELSE None]
Slots == [k \in Connections |-> [node |-> conn[k].to, answer |-> ran[k]]]

\* A step that Rpc does not see.
LEMMA Unseen ==
  ASSUME \A c \in Callers : Calling'[c] = Calling[c],
         \A k \in Connections : conn'[k].to = conn[k].to,
         UNCHANGED <<ran, executed, got>>
  PROVE  UNCHANGED Abstract!vars
<1>1. Calling' = Calling
  BY DEF Calling
<1>2. Slots' = Slots
  BY DEF Slots
<1> QED BY <1>1, <1>2 DEF Abstract!vars, Calling, Slots

\* The slot of a call is free when its connection is closed at both ends.
LEMMA SlotFacts ==
  ASSUME Inv, NEW k \in Connections
  PROVE  /\ Slots[k] = [node |-> conn[k].to, answer |-> ran[k]]
         /\ Slots[k].node = conn[k].to /\ Slots[k].answer = ran[k]
         /\ Slots[k] = Abstract!Free <=> conn[k].to = None
<1>1. conn[k].to = None => ran[k] = None
  BY DEF Inv, Closed
<1> QED BY <1>1 DEF Slots, Abstract!Free

\* A connection is the beginning of a call, ...
LEMMA ConnectCalls ==
  ASSUME Inv, NEW c \in Callers, Connect(c)
  PROVE  Abstract!Next
<1> USE Distinct
<1>1. PICK k \in Connections : k = NewConnection /\ conn[k] = Unused
  BY DEF Connect, NewConnection, Idle
<1>2. PICK n \in Nodes : n = call[c].to
  BY DEF Connect, Inv, TypeOK, NoCall
<1>3. /\ conn' = [conn EXCEPT ![k] = [to |-> n, client |-> TRUE, server |-> TRUE]]
      /\ chan' = [chan EXCEPT ![c] = k]
      /\ pc[c] = "connect" /\ pc' = [pc EXCEPT ![c] = "send"]
      /\ UNCHANGED <<got, ran, executed>>
  BY <1>1, <1>2 DEF Connect, Go
<1>4. ran[k] = None /\ conn[k].to = None
  <2>1. ran[k] = None
    BY <1>1, UnusedIsFree
  <2>2. conn[k].to = None
    BY <1>1 DEF Unused
  <2> QED BY <2>1, <2>2
<1>5. Calling[c] = None
  BY <1>3 DEF Calling
<1>6. Calling' = [Calling EXCEPT ![c] = k]
  BY <1>3 DEF Calling, Inv, TypeOK
<1>7. Slots[k] = Abstract!Free
  BY <1>4, SlotFacts
<1>8. Slots' = [Slots EXCEPT ![k] = [node |-> n, answer |-> None]]
  BY <1>3, <1>4 DEF Slots, Inv, TypeOK
<1>9. Abstract!Call(c, k, n)
  BY <1>3, <1>5, <1>6, <1>7, <1>8 DEF Abstract!Call, Calling, Slots
<1> QED BY <1>9 DEF Abstract!Next

\* ... a service that returns is the moment it runs, ...
LEMMA ReturnRuns ==
  ASSUME Inv, NEW n \in Nodes, FunctionReturns(n)
  PROVE  Abstract!Next
<1> USE Distinct
<1>1. PICK k \in Connections :
        /\ k = serving[n] /\ conn[k].to = n /\ ran[k] = None
  BY DEF FunctionReturns, Inv, TypeOK, Holding, HeldByServers, OneRequest, Unanswered
<1>2. /\ executed' = [executed EXCEPT ![n] = @ + 1]
      /\ executed'[n] = executed[n] + 1
      /\ ran' = [ran EXCEPT ![k] = executed'[n]]
      /\ UNCHANGED <<pc, chan, got, conn>>
  BY <1>1 DEF FunctionReturns, client, Inv, TypeOK
<1>3. Calling' = Calling
  BY <1>2 DEF Calling
<1>4. Slots[k].node = n /\ Slots[k].answer = None
  BY <1>1, SlotFacts
<1>5. Slots' = [Slots EXCEPT ![k].answer = executed'[n]]
  <2>1. Slots'= [Slots EXCEPT ![k] = [node |-> n, answer |-> executed'[n]]]
    BY <1>1, <1>2 DEF Slots, Inv, TypeOK
  <2>2. Slots[k] = [node |-> n, answer |-> None]
    BY <1>1 DEF Slots
  <2>3. [Slots[k] EXCEPT !.answer = executed'[n]] = [node |-> n, answer |-> executed'[n]]
    BY <2>2
  <2> QED BY <2>1, <2>3, Zenon
<1>6. Abstract!Run(k)
  <2>1. /\ Slots[k].node # None /\ Slots[k].answer = None
        /\ executed' = [executed EXCEPT ![Slots[k].node] = @ + 1]
        /\ Slots' = [Slots EXCEPT ![k].answer = executed'[Slots[k].node]]
    BY <1>2, <1>4, <1>5
  <2> QED BY <1>2, <1>3, <2>1, Zenon DEF Abstract!Run, Calling, Slots
<1> QED BY <1>6 DEF Abstract!Next

\* ... and what a caller receives is the answer to its own call, or nothing.
LEMMA AnswerAnswers ==
  ASSUME Inv, NEW c \in Callers, ReceiveAnswer(c)
  PROVE  Abstract!Next
<1> USE Distinct
<1>1. PICK k \in Connections : k = chan[c]
  BY DEF ReceiveAnswer, Inv, TypeOK
<1>2. /\ pc[c] = "waiting" /\ pc' = [pc EXCEPT ![c] = "callback"]
      /\ got' = [got EXCEPT ![c] = IF down[k] = Refused THEN @ ELSE down[k]]
      /\ UNCHANGED <<chan, conn, ran, executed>>
  BY <1>1 DEF ReceiveAnswer, Go, wire, server
<1>3. Calling[c] = k
  BY <1>1, <1>2 DEF Calling
<1>4. Calling' = [Calling EXCEPT ![c] = None]
  BY <1>2 DEF Calling, Inv, TypeOK
<1>5. Slots' = Slots
  BY <1>2 DEF Slots
<1>6. CASE down[k] = Refused
  <2>1. got' = got
    BY <1>2, <1>6 DEF Inv, TypeOK
  <2>2. Abstract!Fail(c)
    BY <1>2, <1>3, <1>4, <1>5, <2>1 DEF Abstract!Fail, Calling, Slots
  <2> QED BY <2>2 DEF Abstract!Next
<1>7. CASE down[k] # Refused
  <2>1. down[k] = ran[k] /\ ran[k] # None
    BY <1>1, <1>7 DEF ReceiveAnswer, Inv, OneRequest
  <2>2. Slots[k].answer = ran[k]
    BY SlotFacts
  <2>3. got' = [got EXCEPT ![c] = Slots[Calling[c]].answer]
    BY <1>2, <1>3, <1>7, <2>1, <2>2
  <2>4. Abstract!Answer(c)
    BY <1>2, <1>3, <1>4, <1>5, <2>1, <2>2, <2>3
      DEF Abstract!Answer, Calling, Slots
  <2> QED BY <2>4 DEF Abstract!Next
<1> QED BY <1>6, <1>7

\* A caller that hangs up has given up, or had its answer: what is left of its
\* connection goes, at once or when the server is done with it.
LEMMA HangupEnds ==
  ASSUME Inv, NEW c \in Callers, NEW label \in {"idle", "crashed"},
         Go(c, label), Hangup(c), UNCHANGED <<got, server>>
  PROVE  Abstract!Next \/ UNCHANGED Abstract!vars
<1> USE Distinct DEF Inv
<1>1. /\ pc' = [pc EXCEPT ![c] = label] /\ UNCHANGED <<got, executed>>
      /\ chan' = [chan EXCEPT ![c] = None]
  BY HangupEffect DEF Go, server
<1>2. Calling' = [Calling EXCEPT ![c] = None]
  BY <1>1 DEF Calling, TypeOK
<1>3. CASE chan[c] = None
  <2>1. \A d \in Callers : Calling'[d] = Calling[d]
    BY <1>1, <1>3 DEF Calling, TypeOK
  <2>2. conn' = conn /\ ran' = ran
    BY <1>3 DEF Hangup, CloseClient, wire
  <2> QED BY <1>1, <2>1, <2>2, Unseen
<1>4. CASE chan[c] # None
  <2>1. PICK k \in Connections : k = chan[c]
    BY <1>4 DEF TypeOK
  <2>2. conn[k].client /\ conn[k].to # None
    BY <1>4, <2>1 DEF HeldByCallers, Closed
  <2>3. \A d \in Callers : d # c => Calling[d] # k
    BY <1>4, <2>1, <2>2 DEF Calling, HeldByCallers
  <2>4. Slots' = IF conn[k].server THEN Slots ELSE [Slots EXCEPT ![k] = Abstract!Free]
    <3>1. CASE conn[k].server
      <4>1. \A j \in Connections : conn'[j].to = conn[j].to /\ ran'[j] = ran[j]
        BY <2>1, <3>1, HangupEffect
      <4> QED BY <3>1, <4>1 DEF Slots
    <3>2. CASE ~conn[k].server
      <4>1. \A j \in Connections : j # k => conn'[j].to = conn[j].to /\ ran'[j] = ran[j]
        BY <2>1, HangupEffect
      <4>2. conn'[k].to = None /\ ran'[k] = None
        BY <2>1, <3>2, HangupEffect DEF Unused
      <4>3. Slots' = [Slots EXCEPT ![k] = Abstract!Free]
        BY <4>1, <4>2 DEF Slots, Abstract!Free
      <4> QED BY <3>2, <4>3
    <3> QED BY <3>1, <3>2
  <2>5. CASE Calling[c] = k
    <3>1. /\ Calling[c] # None
          /\ Slots' \in {Slots, [Slots EXCEPT ![Calling[c]] = Abstract!Free]}
      BY <2>1, <2>4, <2>5
    <3>2. Abstract!Fail(c)
      BY <1>1, <1>2, <3>1, Zenon DEF Abstract!Fail, Calling, Slots
    <3> QED BY <3>2 DEF Abstract!Next
  <2>6. CASE Calling[c] # k
    <3>1. Calling[c] = None
      BY <2>1, <2>6 DEF Calling
    <3>2. Calling' = Calling
      <4>1. \A d \in Callers : Calling'[d] = Calling[d]
        BY <1>1, <2>1, <3>1 DEF Calling, TypeOK
      <4> QED BY <4>1 DEF Calling
    <3>3. CASE conn[k].server
      BY <1>1, <2>4, <3>2, <3>3 DEF Abstract!vars, Calling, Slots
    <3>4. CASE ~conn[k].server
      <4>1. Slots[k] # Abstract!Free
        BY <2>2, SlotFacts
      <4>2. Slots' = [Slots EXCEPT ![k] = Abstract!Free]
        BY <2>4, <3>4
      <4>3. \A d \in Callers : Calling[d] # k
        BY <2>3, <2>6
      <4>4. Abstract!Forget(k)
        BY <1>1, <3>2, <4>1, <4>2, <4>3 DEF Abstract!Forget, Calling, Slots
      <4> QED BY <4>4 DEF Abstract!Next
    <3> QED BY <3>3, <3>4
  <2> QED BY <2>5, <2>6
<1> QED BY <1>3, <1>4

\* A server that is done forgets a call nobody waits for.
LEMMA ReleaseForgets ==
  ASSUME Inv, NEW n \in Nodes, NEW label,
         srv[n] \in {"receive", "dispatch", "reply"}, Release(n, label),
         UNCHANGED <<client, executed>>
  PROVE  Abstract!Next \/ UNCHANGED Abstract!vars
<1> USE Distinct DEF Inv
<1>1. UNCHANGED <<pc, chan, got, executed>>
  BY DEF client
<1>2. PICK k \in Connections : k = serving[n]
  BY DEF TypeOK, Holding
<1>3. conn[k].to = n
  BY <1>2 DEF HeldByServers
<1>4. Calling' = Calling
  BY <1>1 DEF Calling
<1>5. serving[n] # None
  BY <1>2
<1>6. CASE conn[k].client
  <2>1. \A j \in Connections : conn'[j].to = conn[j].to /\ ran'[j] = ran[j]
    BY <1>2, <1>5, <1>6, ReleaseEffect
  <2>2. Slots' = Slots
    BY <2>1 DEF Slots
  <2> QED BY <1>1, <1>4, <2>2 DEF Abstract!vars, Calling, Slots
<1>7. CASE ~conn[k].client
  <2>1. \A j \in Connections : j # k => conn'[j].to = conn[j].to /\ ran'[j] = ran[j]
    BY <1>2, <1>5, ReleaseEffect
  <2>2. conn'[k].to = None /\ ran'[k] = None
    <3>1. conn'[k] = Unused /\ ran'[k] = None
      BY <1>2, <1>5, <1>7, ReleaseEffect
    <3> QED BY <3>1 DEF Unused
  <2>3. Slots' = [Slots EXCEPT ![k] = Abstract!Free]
    BY <2>1, <2>2 DEF Slots, Abstract!Free
  <2>4. \A d \in Callers : Calling[d] # k
    BY <1>7 DEF Calling, HeldByCallers
  <2>5. Slots[k] # Abstract!Free
    BY <1>3, SlotFacts
  <2>6. Abstract!Forget(k)
    BY <1>1, <1>4, <2>3, <2>4, <2>5 DEF Abstract!Forget, Calling, Slots
  <2> QED BY <2>6 DEF Abstract!Next
<1> QED BY <1>6, <1>7

\* The other steps are a caller's own, or between a server and a socket.
LEMMA OthersUnseen ==
  ASSUME Inv, NEW c \in Callers, UNCHANGED <<got, conn, ran, executed>>,
         \/ UNCHANGED <<pc, chan>>
         \/ \E n, r : CallBegin(c, n, r) /\ pc[c] = "idle"
         \/ SendRequest(c)
  PROVE  UNCHANGED Abstract!vars
<1>1. \A d \in Callers : Calling'[d] = Calling[d]
  <2>1. CASE UNCHANGED <<pc, chan>>
    BY <2>1 DEF Calling
  <2>2. CASE \E n, r : CallBegin(c, n, r) /\ pc[c] = "idle"
    <3>1. chan' = chan /\ pc' = [pc EXCEPT ![c] = "connect"] /\ pc[c] = "idle"
      BY <2>2 DEF CallBegin, Go
    <3>2. pc'[c] = "connect" /\ \A d \in Callers : d # c => pc'[d] = pc[d]
      BY <3>1 DEF Inv, TypeOK
    <3> QED BY <3>1, <3>2 DEF Calling
  <2>3. CASE SendRequest(c)
    BY <2>3 DEF SendRequest, Go, Calling, Inv, TypeOK
  <2> QED BY <2>1, <2>2, <2>3
<1> QED BY <1>1, Unseen

\* Every step of the service calls is a step of Rpc, or one it does not see.
LEMMA NextImplements ==
  Inv /\ [Next]_vars => [Abstract!Next]_Abstract!vars
<1> SUFFICES ASSUME Inv, [Next]_vars
             PROVE  Abstract!Next \/ UNCHANGED Abstract!vars
  OBVIOUS
<1>1. CASE UNCHANGED vars
  <2>1. UNCHANGED <<pc, chan, got, conn, ran, executed>>
    BY <1>1 DEF vars, client, wire, server
  <2>2. \A d \in Callers : Calling'[d] = Calling[d]
    BY <2>1 DEF Calling
  <2> QED BY <2>1, <2>2, Unseen
<1>2. ASSUME NEW c \in Callers, CallService(c) \/ Progress(c) \/ Crash(c)
      PROVE  Abstract!Next \/ UNCHANGED Abstract!vars
  <2>1. CASE CallService(c)
    BY <2>1, OthersUnseen DEF CallService, CallBegin, wire, server
  <2>2. CASE Connect(c)
    BY <2>2, ConnectCalls
  <2>3. CASE ConnectFails(c) \/ ReceiveEnd(c) \/ CallReturns(c) \/ Crash(c)
    <3>1. PICK label \in {"idle", "crashed"} : Go(c, label)
      BY <2>3 DEF ConnectFails, ReceiveEnd, CallReturns, Crash
    <3>2. Hangup(c) /\ UNCHANGED <<got, server>>
      BY <2>3 DEF ConnectFails, ReceiveEnd, CallReturns, Crash
    <3> QED BY <3>1, <3>2, HangupEnds
  <2>4. CASE SendRequest(c)
    BY <2>4, OthersUnseen DEF SendRequest, server
  <2>5. CASE ReceiveAnswer(c)
    BY <2>5, AnswerAnswers
  <2> QED BY <1>2, <2>1, <2>2, <2>3, <2>4, <2>5 DEF Progress
<1>3. ASSUME NEW n \in Nodes, Start(n) \/ Stop(n) \/ Server(n)
      PROVE  Abstract!Next \/ UNCHANGED Abstract!vars
  <2>0. n \in Callers
    BY Distinct
  <2>1. CASE \/ Start(n) \/ Stop(n) \/ ServerLoop(n) \/ AcceptTimeout(n)
             \/ Accept(n) \/ ReceiveRequest(n) \/ Refuse(n)
             \/ FunctionRaises(n) \/ SendReply(n)
    <3>1. UNCHANGED <<pc, chan, got, conn, ran, executed>>
      BY <2>1 DEF Start, Stop, ServerLoop, AcceptTimeout, Accept, ReceiveRequest,
        Refuse, FunctionRaises, SendReply, client, wire
    <3> QED BY <2>0, <3>1, OthersUnseen
  <2>2. CASE ClientGone(n) \/ Misnamed(n) \/ EncodingFails(n)
    <3>1. PICK label \in {"loop", "dead"} : Release(n, label)
      BY <2>2 DEF ClientGone, Misnamed, EncodingFails
    <3>2. /\ srv[n] \in {"receive", "dispatch", "reply"}
          /\ UNCHANGED <<client, executed>>
      BY <2>2 DEF ClientGone, Misnamed, EncodingFails
    <3> QED BY <3>1, <3>2, ReleaseForgets
  <2>3. CASE CallFunction(n)
    <3>1. UNCHANGED <<conn, ran, executed>> /\ pc[n] = "idle"
      BY <2>3 DEF CallFunction, wire, Inv, Nested
    <3>2. CASE UNCHANGED <<client, calls>>
      BY <2>0, <3>1, <3>2, OthersUnseen DEF client
    <3>3. CASE \E m \in Nodes, r \in Requests : CallBegin(n, m, r)
      BY <2>0, <3>1, <3>3, OthersUnseen DEF CallBegin
    <3> QED BY <2>3, <3>2, <3>3 DEF CallFunction
  <2>4. CASE FunctionReturns(n)
    BY <2>4, ReturnRuns
  <2> QED BY <1>3, <2>1, <2>2, <2>3, <2>4 DEF Server
<1> QED BY <1>1, <1>2, <1>3 DEF Next

\* Service calls implement Rpc: whatever connections are reused, killed or
\* queued, a service runs at most once for a call, between the call and its
\* answer, and a caller receives the value of its own call or none.
THEOREM CallsImplementRpc == Spec => ImplementsRpc
<1>1. Init => Abstract!Init
  BY Distinct DEF Init, Unused, Abstract!Init, Abstract!Free, Callers
<1> QED BY <1>1, Invariance, NextImplements, PTL
  DEF Spec, ImplementsRpc, Abstract!Spec
====
