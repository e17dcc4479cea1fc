---------------------------- MODULE SocketProofs -----------------------------
(***************************************************************************)
(* Theorems about the socket backend and the outbox, for any number of     *)
(* clients, messages, stops and crashes: its types and the bound of the    *)
(* outbox, the one order in which clients see messages, and the quote a    *)
(* reply goes with.                                                        *)
(***************************************************************************)
EXTENDS SocketBackend, TLAPS, SequenceTheorems

-----------------------------------------------------------------------------
(* The outbox.                                                             *)

\* The rows after the upsert of Put, before it evicts.
Upserted(r, id, text) ==
    IF At(r, id) = {} THEN Append(r, [id |-> id, text |-> text])
    ELSE [i \in DOMAIN r |-> IF i \in At(r, id) THEN [r[i] EXCEPT !.text = text] ELSE r[i]]

\* Entry e is the one put with (id, text), or was in r.
FromPut(e, r, id, text) ==
    e = [id |-> id, text |-> text] \/ \E j \in DOMAIN r : e = r[j]

\* The upsert adds one entry, or changes the text of those with its id.
LEMMA UpsertResult ==
    ASSUME NEW r \in Seq(Entries), NEW id \in Ids, NEW text \in Ids
    PROVE  /\ Upserted(r, id, text) \in Seq(Entries)
           /\ Len(Upserted(r, id, text)) <= Len(r) + 1
           /\ \A i \in 1..Len(Upserted(r, id, text)) :
                 FromPut(Upserted(r, id, text)[i], r, id, text)
<1> DEFINE new == [id |-> id, text |-> text]
<1>1. new \in Entries
  BY DEF Entries
<1>2. CASE At(r, id) = {}
  <2> HIDE DEF new
  <2>1. Upserted(r, id, text) = Append(r, new)
    BY <1>2 DEF Upserted, new
  <2>2. /\ Append(r, new) \in Seq(Entries) /\ Len(Append(r, new)) = Len(r) + 1
        /\ \A i \in 1..Len(r) + 1 : Append(r, new)[i] = IF i <= Len(r) THEN r[i] ELSE new
    BY <1>1
  <2>3. \A i \in 1..Len(r) + 1 : FromPut(Append(r, new)[i], r, id, text)
    BY <2>2 DEF FromPut, new
  <2> QED
    BY <2>1, <2>2, <2>3
<1>3. CASE At(r, id) # {}
  <2> DEFINE up == [i \in 1..Len(r) |-> IF i \in At(r, id) THEN new ELSE r[i]]
  <2>1. \A i \in 1..Len(r) : i \in At(r, id) => [r[i] EXCEPT !.text = text] = new
    <3> SUFFICES ASSUME NEW i \in 1..Len(r), r[i].id = id
                 PROVE  [r[i] EXCEPT !.text = text] = new
      BY DEF At
    <3>1. r[i] \in Entries
      OBVIOUS
    <3> QED
      BY <3>1 DEF Entries
  <2> HIDE DEF new
  <2>2. Upserted(r, id, text) = up
    <3>1. DOMAIN r = 1..Len(r)
      OBVIOUS
    <3>2. Upserted(r, id, text) =
            [i \in 1..Len(r) |-> IF i \in At(r, id) THEN [r[i] EXCEPT !.text = text] ELSE r[i]]
      BY <1>3, <3>1 DEF Upserted
    <3> QED
      BY <2>1, <3>2, Zenon
  <2>3. \A i \in 1..Len(r) : up[i] \in Entries /\ FromPut(up[i], r, id, text)
    BY <1>1 DEF FromPut, new
  <2>4. up \in Seq(Entries) /\ Len(up) = Len(r)
    BY <2>3
  <2> QED
    BY <2>2, <2>3, <2>4
<1> QED
  BY <1>2, <1>3

\* Put keeps the store within maxOutboxPerConversation, and what it keeps was
\* there or is what it was called with.
LEMMA PutResult ==
    ASSUME NEW r \in Seq(Entries), Len(r) <= MaxKept, NEW id \in Ids, NEW text \in Ids
    PROVE  /\ Put(r, id, text) \in Seq(Entries)
           /\ Len(Put(r, id, text)) <= MaxKept
           /\ \A i \in 1..Len(Put(r, id, text)) : FromPut(Put(r, id, text)[i], r, id, text)
<1> DEFINE up == Upserted(r, id, text)
           n == Len(up)
           cut == SubSeq(up, n - MaxKept + 1, n)
<1>1. Put(r, id, text) = IF n > MaxKept THEN cut ELSE up
  BY DEF Put, Upserted
<1>2. up \in Seq(Entries) /\ n \in Nat /\ MaxKept \in Nat \ {0}
  BY UpsertResult, OutboxAssumption
<1>3. \A i \in 1..n : FromPut(up[i], r, id, text)
  BY UpsertResult
<1> HIDE DEF up, n
<1>4. CASE n > MaxKept
  <2>1. /\ cut \in Seq(Entries) /\ Len(cut) = MaxKept
        /\ \A i \in 1..MaxKept : cut[i] = up[i + (n - MaxKept)]
    BY <1>2, <1>4 DEF n
  <2>2. \A i \in 1..MaxKept : i + (n - MaxKept) \in 1..n
    BY <1>2, <1>4
  <2> QED
    BY <1>1, <1>3, <1>4, <2>1, <2>2
<1>5. CASE ~(n > MaxKept)
  BY <1>1, <1>2, <1>3, <1>5 DEF n
<1> QED
  BY <1>4, <1>5
-----------------------------------------------------------------------------
(* Types.                                                                  *)

\* Types as the provers need them: the outbox and what clients see are
\* sequences.  Ids start again, texts do not.
Types ==
    /\ TypeOK
    /\ rows \in Seq(Entries) /\ shown \in [Clients -> Seq(Entries)]
    /\ msgSeq <= texts
    /\ run = "register" => incoming \in Clients

\* Goroutine a has a message in hand, which no client has been sent (push) or
\* some have (write).
InHand(a) == pc[a] \in {"push", "write"}

\* A goroutine with a message to write, record or quote has one.
HandInv == \A a \in Actors : pc[a] \in {"push", "write", "put", "quote"} => msg[a] \in Msgs

TypeInv == Types /\ HandInv

\* The values of the variables a step changes.
LEMMA MakeType ==
    ASSUME TypeInv, NEW a \in Actors, NEW re \in Entries \cup {NoEntry}, NEW kept \in BOOLEAN,
           Make(a, re, kept)
    PROVE  TypeInv'
<1>1. /\ texts \in 0..MaxMessages /\ msgSeq \in 0..MaxMessages /\ msgSeq <= texts
      /\ MaxMessages \in Nat
  BY SocketAssumption DEF TypeInv, Types, TypeOK
<1>2. texts' = texts + 1 /\ msgSeq' = msgSeq + 1 /\ texts < MaxMessages
  BY DEF Make, NextID
<1>3. texts' \in Ids /\ msgSeq' \in Ids /\ msgSeq' <= texts' /\ texts' \in 0..MaxMessages
      /\ msgSeq' \in 0..MaxMessages
  BY <1>1, <1>2 DEF Ids
<1> DEFINE m == [id |-> msgSeq', text |-> texts', re |-> re, kept |-> kept]
<1>4. m \in Msgs
  BY <1>3 DEF Msgs
<1> HIDE DEF m
<1>5. msg' = [msg EXCEPT ![a] = m] /\ pc' = [pc EXCEPT ![a] = "push"]
  BY DEF Make, m
<1>6. /\ msg' \in [Actors -> Msgs \cup {NoMsg}]
      /\ pc' \in [Actors -> Steps]
  BY <1>4, <1>5 DEF TypeInv, Types, TypeOK, Steps
<1>7. HandInv'
  BY <1>4, <1>5 DEF TypeInv, Types, TypeOK, HandInv
<1> QED
  BY <1>3, <1>6, <1>7 DEF Make, TypeInv, Types, TypeOK

\* An actor moves on with its message, or without one.
LEMMA ProceedType ==
    ASSUME TypeInv, NEW a \in Actors, NEW p \in {"idle", "put", "quote", "answer"}, Proceed(a, p),
           pc[a] \in {"write", "put", "quote"}
    PROVE  /\ msg' \in [Actors -> Msgs \cup {NoMsg}]
           /\ pc' \in [Actors -> Steps]
           /\ HandInv'
BY DEF TypeInv, Types, TypeOK, HandInv, Proceed, Steps

\* The steps of one push.
LEMMA PushType ==
    ASSUME TypeInv, NEW a \in Actors, Push(a)
    PROVE  TypeInv'
<1>1. CASE Lock(a)
  BY <1>1 DEF Lock, TypeInv, Types, TypeOK, HandInv, Steps
<1>2. CASE Unlock(a)
  <2>1. PICK p \in {"idle", "put"} : Proceed(a, p) /\ pc[a] = "write"
    BY <1>2 DEF Unlock
  <2> QED
    BY <1>2, <2>1, ProceedType DEF Unlock, TypeInv, Types, TypeOK
<1>3. CASE Quote(a)
  <2>1. PICK p \in {"idle", "answer"} : Proceed(a, p) /\ pc[a] = "quote"
    BY <1>3 DEF Quote
  <2>2. faults' \in 0..MaxFaults
    BY <1>3, SocketAssumption DEF Quote, Fault, TypeInv, Types, TypeOK
  <2> QED
    BY <1>3, <2>1, <2>2, ProceedType DEF Quote, TypeInv, Types, TypeOK
<1>4. CASE Record(a)
  <2>1. PICK p \in {"idle", "quote", "answer"} : Proceed(a, p) /\ pc[a] = "put"
    BY <1>4 DEF Record
  <2>2. msg[a] \in Msgs /\ rows \in Seq(Entries) /\ Len(rows) <= MaxKept
    BY <2>1 DEF TypeInv, Types, TypeOK, HandInv
  <2>3. msg[a].id \in Ids /\ msg[a].text \in Ids
    BY <2>2 DEF Msgs
  <2>4. rows' = rows \/ rows' = Put(rows, msg[a].id, msg[a].text)
    BY <1>4 DEF Record
  <2>5. rows' \in Seq(Entries) /\ Len(rows') <= MaxKept
    BY <2>2, <2>3, <2>4, PutResult
  <2>6. \A i \in DOMAIN rows' : rows'[i] \in Entries
    BY <2>5
  <2>7. faults' \in 0..MaxFaults
    BY <1>4, SocketAssumption DEF Record, Fault, TypeInv, Types, TypeOK
  <2> QED
    BY <1>4, <2>1, <2>5, <2>6, <2>7, ProceedType DEF Record, TypeInv, Types, TypeOK
<1>5. ASSUME NEW c \in Clients, Write(a, c)
      PROVE  TypeInv'
  <2> DEFINE e == [id |-> msg[a].id, text |-> msg[a].text]
  <2>1. pc[a] = "write" /\ msg[a] \in Msgs
    BY <1>5 DEF Write, TypeInv, HandInv
  <2>2. e \in Entries
    BY <2>1 DEF Msgs, Entries
  <2>3. shown' = [shown EXCEPT ![c] = Append(shown[c], e)]
    BY <1>5 DEF Write
  <2> HIDE DEF e
  <2>4. shown \in [Clients -> Seq(Entries)]
    BY DEF TypeInv, Types
  <2>5. Append(shown[c], e) \in Seq(Entries)
    BY <2>2, <2>4
  <2>6. shown' \in [Clients -> Seq(Entries)]
    BY <2>3, <2>4, <2>5
  <2>7. \A d \in Clients : \A i \in DOMAIN shown'[d] : shown'[d][i] \in Entries
    BY <2>6
  <2>8. left' \subseteq Clients
    BY <1>5 DEF Write, TypeInv, Types, TypeOK
  <2> QED
    BY <1>5, <2>6, <2>7, <2>8 DEF Write, TypeInv, Types, TypeOK, HandInv, actorVars
<1>6. CASE \E c \in Clients : WriteFails(a, c)
  BY <1>6 DEF WriteFails, TypeInv, Types, TypeOK, HandInv, actorVars
<1> QED
  BY <1>1, <1>2, <1>3, <1>4, <1>5, <1>6 DEF Push

\* Connections come, stall and go.
LEMMA ClientType ==
    ASSUME TypeInv, NEW c \in Clients,
           Accept(c) \/ Stall(c) \/ Hangup(c) \/ ConnEnds(c)
    PROVE  TypeInv'
<1>1. CASE Accept(c)
  BY <1>1 DEF Accept, actorVars, TypeInv, Types, TypeOK, HandInv
<1>2. CASE Stall(c)
  BY <1>2, SocketAssumption DEF Stall, Fault, actorVars, TypeInv, Types, TypeOK, HandInv
<1>3. CASE Hangup(c)
  BY <1>3 DEF Hangup, actorVars, TypeInv, Types, TypeOK, HandInv
<1>4. CASE ConnEnds(c)
  BY <1>4 DEF ConnEnds, TypeInv, Types, TypeOK, HandInv, Steps
<1> QED
  BY <1>1, <1>2, <1>3, <1>4

\* A message enters, from a client or from the worker.
LEMMA SendType ==
    ASSUME TypeInv,
           (\E c \in Clients : Send(c) \/ Answer(c)) \/ (\E kept \in BOOLEAN : Say(kept))
    PROVE  TypeInv'
<1>1. ASSUME NEW c \in Clients, Send(c)
      PROVE  TypeInv'
  <2>1. PICK re \in {NoEntry} \cup {shown[c][i] : i \in DOMAIN shown[c]} : Make(c, re, TRUE)
    BY <1>1 DEF Send
  <2>2. re \in Entries \cup {NoEntry}
    BY DEF TypeInv, Types, TypeOK
  <2> QED
    BY <2>1, <2>2, MakeType DEF Actors
<1>2. ASSUME NEW kept \in BOOLEAN, Say(kept)
      PROVE  TypeInv'
  BY <1>2, MakeType DEF Say, Actors
<1>3. ASSUME NEW c \in Clients, Answer(c)
      PROVE  TypeInv'
  BY <1>3, MakeType DEF Answer, Actors
<1> QED
  BY <1>1, <1>2, <1>3

\* The steps of Run, of the stop, and of the process.
LEMMA ProcessType ==
    ASSUME TypeInv,
           \/ Register \/ CloseListener \/ RunEnds \/ WorkerEnds \/ Exit \/ Stop \/ Crash \/ Restart
           \/ UNCHANGED vars
    PROVE  TypeInv'
<1>1. CASE Register
  BY <1>1 DEF Register, TypeInv, Types, TypeOK, HandInv, Steps
<1>2. CASE CloseListener \/ RunEnds \/ WorkerEnds \/ UNCHANGED vars
  BY <1>2 DEF CloseListener, RunEnds, WorkerEnds, Steps, vars, actorVars, TypeInv, Types, TypeOK,
              HandInv
<1>3. CASE Exit \/ Crash
  <2>1. Ends /\ faults' \in 0..MaxFaults
    BY <1>3, SocketAssumption DEF Exit, Crash, Fault, TypeInv, Types, TypeOK
  <2>2. /\ msg' \in [Actors -> Msgs \cup {NoMsg}]
        /\ pc' \in [Actors -> Steps]
        /\ HandInv'
    BY <2>1 DEF Ends, HandInv, Steps
  <2>3. /\ run' = "down" /\ incoming' = Nobody /\ stopped' = FALSE /\ listening' = TRUE
        /\ conns' = {}
        /\ client' \in [Clients -> {"away", "open", "stalled", "gone"}]
        /\ mu' = Nobody /\ left' = {} /\ msgSeq' = 0 /\ UNCHANGED <<rows, shown, texts>>
    BY <2>1 DEF Ends
  <2>4. /\ msgSeq' \in 0..MaxMessages /\ texts' \in 0..MaxMessages /\ msgSeq' <= texts'
    BY <2>3, SocketAssumption DEF TypeInv, Types, TypeOK
  <2>5. TypeOK'
    BY <2>1, <2>2, <2>3, <2>4 DEF TypeInv, Types, TypeOK
  <2> QED
    BY <2>2, <2>3, <2>4, <2>5 DEF TypeInv, Types
<1>4. CASE Stop
  BY <1>4, SocketAssumption DEF Stop, Fault, actorVars, TypeInv, Types, TypeOK, HandInv
<1>5. CASE Restart
  BY <1>5 DEF Restart, TypeInv, Types, TypeOK, HandInv, Steps
<1> QED
  BY <1>1, <1>2, <1>3, <1>4, <1>5

\* The types, and which message is in whose hands.
LEMMA SocketTypes == Spec => []TypeInv
<1>1. Init => TypeInv
  <2> SUFFICES ASSUME Init
               PROVE  TypeInv
    OBVIOUS
  <2>1. /\ msg \in [Actors -> Msgs \cup {NoMsg}]
        /\ pc \in [Actors -> Steps]
        /\ HandInv
    BY DEF Init, HandInv, Steps
  <2>2. /\ rows \in Seq(Entries) /\ Len(rows) <= MaxKept /\ DOMAIN rows = {}
        /\ shown \in [Clients -> Seq(Entries)]
        /\ \A c \in Clients : DOMAIN shown[c] = {}
    BY OutboxAssumption DEF Init
  <2>3. /\ run = "accept" /\ incoming = Nobody /\ stopped = FALSE /\ listening = TRUE
        /\ conns = {}
        /\ client \in [Clients -> {"away", "open", "stalled", "gone"}]
        /\ mu = Nobody /\ left = {} /\ msgSeq = 0 /\ texts = 0 /\ faults = 0
    BY DEF Init
  <2> QED
    <3>1. /\ msgSeq \in 0..MaxMessages /\ texts \in 0..MaxMessages /\ msgSeq <= texts
          /\ faults \in 0..MaxFaults
      BY <2>3, SocketAssumption
    <3>2. TypeOK
      BY <2>1, <2>2, <2>3, <3>1 DEF TypeOK
    <3> QED
      BY <2>1, <2>2, <2>3, <3>1, <3>2 DEF TypeInv, Types
<1>2. TypeInv /\ [Next]_vars => TypeInv'
  BY PushType, ClientType, SendType, ProcessType DEF Next
<1> QED
  BY <1>1, <1>2, PTL DEF Spec

\* The outbox stays within maxOutboxPerConversation, whatever is sent, and ids
\* and texts within their bounds.
THEOREM SocketTypeCorrect == Spec => []TypeOK
<1>1. TypeInv => TypeOK
  BY DEF TypeInv, Types
<1> QED
  BY <1>1, SocketTypes, PTL
-----------------------------------------------------------------------------
(* The order of messages.                                                  *)

\* Whoever writes has the mutex; no two messages under way are one; one that
\* is still to be written has not been sent to anybody, and one that is being
\* written is the last that its readers have been sent.
OrderInv ==
    /\ \A a \in Actors : pc[a] = "write" => mu = a
    /\ \A a, b \in Actors : InHand(a) /\ InHand(b) /\ msg[a].text = msg[b].text => a = b
    /\ \A a \in Actors : InHand(a) => msg[a].text <= texts
    /\ \A c \in Clients : \A i \in DOMAIN shown[c] : shown[c][i].text <= texts
    /\ \A a \in Actors, c \in Clients : \A i \in DOMAIN shown[c] :
          InHand(a) /\ shown[c][i].text = msg[a].text
             => pc[a] = "write" /\ i = Len(shown[c]) /\ c \notin left

\* A message that is last wherever it has been sent may be sent to one more.
LEMMA LastKeepsOrder ==
    ASSUME TypeInv, OneOrder, NEW c \in Clients, NEW e \in Entries,
           shown' = [shown EXCEPT ![c] = Append(shown[c], e)],
           \A d \in Clients : \A i \in DOMAIN shown[d] :
              shown[d][i].text = e.text => d # c /\ i = Len(shown[d])
    PROVE  /\ OneOrder'
           /\ \A d \in Clients : \A i \in DOMAIN shown'[d] :
                 \/ i \in DOMAIN shown[d] /\ shown'[d][i] = shown[d][i]
                       /\ (d # c => Len(shown'[d]) = Len(shown[d]))
                 \/ d = c /\ i = Len(shown'[d]) /\ shown'[d][i] = e
<1>1. /\ shown \in [Clients -> Seq(Entries)]
      /\ \A d \in Clients : shown'[d] = IF d = c THEN Append(shown[c], e) ELSE shown[d]
  BY DEF TypeInv, Types
<1>2. \A d \in Clients : \A i \in DOMAIN shown'[d] :
         \/ i \in DOMAIN shown[d] /\ shown'[d][i] = shown[d][i]
               /\ (d # c => Len(shown'[d]) = Len(shown[d]))
         \/ d = c /\ i = Len(shown'[d]) /\ shown'[d][i] = e
  BY <1>1
<1>3. \A d \in Clients : \A i \in DOMAIN shown'[d] :
         /\ i \in 1..Len(shown'[d]) /\ Len(shown'[d]) \in Nat
         /\ shown'[d][i].text = e.text => i = Len(shown'[d])
  <2> SUFFICES ASSUME NEW d \in Clients, NEW i \in DOMAIN shown'[d]
               PROVE  /\ i \in 1..Len(shown'[d]) /\ Len(shown'[d]) \in Nat
                      /\ shown'[d][i].text = e.text => i = Len(shown'[d])
    OBVIOUS
  <2>1. shown'[d] \in Seq(Entries)
    BY <1>1
  <2> QED
    BY <1>2, <2>1
<1>4. ASSUME NEW p \in Clients, NEW q \in Clients,
             NEW i \in DOMAIN shown'[p], NEW j \in DOMAIN shown'[p],
             NEW k \in DOMAIN shown'[q], NEW l \in DOMAIN shown'[q],
             i < j, shown'[p][i].text = shown'[q][k].text,
             shown'[p][j].text = shown'[q][l].text
      PROVE  k < l
  <2>1. shown'[p][i].text # e.text
    BY <1>3, <1>4
  <2>2. CASE shown'[p][j].text = e.text
    <3>1. l = Len(shown'[q]) /\ k # l
      BY <1>3, <1>4, <2>1, <2>2
    <3> QED
      BY <1>3, <3>1
  <2>3. CASE shown'[p][j].text # e.text
    <3>1. /\ i \in DOMAIN shown[p] /\ shown'[p][i] = shown[p][i]
          /\ j \in DOMAIN shown[p] /\ shown'[p][j] = shown[p][j]
      BY <1>2, <2>1, <2>3
    <3>2. /\ k \in DOMAIN shown[q] /\ shown'[q][k] = shown[q][k]
          /\ l \in DOMAIN shown[q] /\ shown'[q][l] = shown[q][l]
      BY <1>2, <1>4, <2>1, <2>3
    <3> QED
      BY <1>4, <3>1, <3>2 DEF OneOrder
  <2> QED
    BY <2>2, <2>3
<1>5. OneOrder'
  <2> SUFFICES \A p, q \in Clients :
                  \A i, j \in DOMAIN shown'[p] : \A k, l \in DOMAIN shown'[q] :
                     i < j /\ shown'[p][i].text = shown'[q][k].text
                           /\ shown'[p][j].text = shown'[q][l].text => k < l
    BY DEF OneOrder
  <2> TAKE p, q \in Clients
  <2> TAKE i, j \in DOMAIN shown'[p]
  <2> TAKE k, l \in DOMAIN shown'[q]
  <2> QED
    BY <1>4
<1> QED
  BY <1>2, <1>5

\* A write under the lock adds the same message for every client.
LEMMA WriteOrder ==
    ASSUME TypeInv, OrderInv, OneOrder, NEW a \in Actors, NEW c \in Clients, Write(a, c)
    PROVE  OrderInv' /\ OneOrder'
<1> DEFINE e == [id |-> msg[a].id, text |-> msg[a].text]
<1>1. /\ pc[a] = "write" /\ msg[a] \in Msgs /\ c \in left /\ left' = left \ {c}
      /\ pc' = pc /\ msg' = msg /\ mu' = mu /\ texts' = texts
      /\ shown' = [shown EXCEPT ![c] = Append(shown[c], e)]
  BY DEF Write, TypeInv, HandInv, actorVars
<1>2. e \in Entries /\ e.text = msg[a].text
  BY <1>1 DEF Msgs, Entries
<1> HIDE DEF e
<1>3. \A d \in Clients : \A i \in DOMAIN shown[d] :
         shown[d][i].text = e.text => d # c /\ i = Len(shown[d]) /\ d \notin left
  BY <1>1, <1>2 DEF OrderInv, InHand
<1>4. OneOrder'
  BY <1>1, <1>2, <1>3, LastKeepsOrder
<1>5. \A d \in Clients : \A i \in DOMAIN shown'[d] :
         \/ i \in DOMAIN shown[d] /\ shown'[d][i] = shown[d][i]
               /\ (d # c => Len(shown'[d]) = Len(shown[d]))
         \/ d = c /\ i = Len(shown'[d]) /\ shown'[d][i] = e
  BY <1>1, <1>2, <1>3, LastKeepsOrder
<1>6. /\ \A b \in Actors : pc'[b] = "write" => mu' = b
      /\ \A b, d \in Actors : InHand(b)' /\ InHand(d)' /\ msg'[b].text = msg'[d].text => b = d
      /\ \A b \in Actors : InHand(b)' => msg'[b].text <= texts'
  BY <1>1 DEF OrderInv, InHand
<1>7. \A d \in Clients : \A i \in DOMAIN shown'[d] : shown'[d][i].text <= texts'
  BY <1>1, <1>2, <1>5 DEF OrderInv, InHand
<1>8. ASSUME NEW b \in Actors, NEW d \in Clients, NEW i \in DOMAIN shown'[d],
             InHand(b)', shown'[d][i].text = msg'[b].text
      PROVE  pc'[b] = "write" /\ i = Len(shown'[d]) /\ d \notin left'
  <2>1. CASE shown'[d][i].text = e.text
    <3>1. b = a
      BY <1>1, <1>2, <1>8, <2>1 DEF OrderInv, InHand
    <3>2. CASE d = c
      BY <1>1, <1>3, <1>5, <2>1, <3>1, <3>2
    <3>3. CASE d # c
      <4>1. i \in DOMAIN shown[d] /\ shown'[d][i] = shown[d][i] /\ Len(shown'[d]) = Len(shown[d])
        BY <1>5, <3>3
      <4> QED
        BY <1>1, <1>3, <2>1, <3>1, <4>1
    <3> QED
      BY <3>2, <3>3
  <2>2. CASE shown'[d][i].text # e.text
    <3>1. i \in DOMAIN shown[d] /\ shown'[d][i] = shown[d][i]
      BY <1>5, <2>2
    <3>2. b # a
      BY <1>1, <1>2, <1>8, <2>2
    <3>3. pc[b] = "write"
      BY <1>1, <1>8, <3>1 DEF OrderInv, InHand
    <3> QED
      BY <1>1, <3>2, <3>3 DEF OrderInv
  <2> QED
    BY <2>1, <2>2
<1> QED
  BY <1>4, <1>6, <1>7, <1>8 DEF OrderInv

\* A message that is made is not in any order yet.
LEMMA MakeOrder ==
    ASSUME TypeInv, OrderInv, NEW a \in Actors, NEW re, NEW kept, Make(a, re, kept)
    PROVE  OrderInv' /\ shown' = shown
<1>1. /\ texts \in Nat /\ texts' = texts + 1 /\ pc' = [pc EXCEPT ![a] = "push"]
      /\ mu' = mu /\ shown' = shown /\ left' = left
      /\ pc \in [Actors -> Steps]
      /\ \A b \in Actors : b # a => msg'[b] = msg[b]
      /\ \A b \in Actors : InHand(b) => msg[b].text \in Nat
      /\ \A c \in Clients : \A i \in DOMAIN shown[c] : shown[c][i].text \in Nat
  BY SocketAssumption DEF Make, TypeInv, Types, TypeOK, HandInv, InHand, Msgs, Entries, Ids
<1>2. msg'[a].text = texts + 1
  BY <1>1 DEF Make, TypeInv, Types, TypeOK
<1>3. \A b \in Actors : InHand(b)' => InHand(b) \/ b = a
  BY <1>1 DEF InHand
<1>4. \A b \in Actors : pc'[b] = "write" => mu' = b
  BY <1>1 DEF OrderInv
<1>5. \A b \in Actors : InHand(b)' => msg'[b].text <= texts' /\ (b # a => msg'[b].text <= texts)
  BY <1>1, <1>2, <1>3 DEF OrderInv
<1>6. \A b, d \in Actors : InHand(b)' /\ InHand(d)' /\ msg'[b].text = msg'[d].text => b = d
  <2> SUFFICES ASSUME NEW b \in Actors, NEW d \in Actors, InHand(b)', InHand(d)',
                      msg'[b].text = msg'[d].text, b # d
               PROVE  FALSE
    OBVIOUS
  <2>1. CASE b # a /\ d # a
    BY <1>1, <1>3, <2>1 DEF OrderInv
  <2>2. CASE b = a \/ d = a
    BY <1>1, <1>2, <1>3, <1>5, <2>2
  <2> QED
    BY <2>1, <2>2
<1>7. \A c \in Clients : \A i \in DOMAIN shown[c] : shown[c][i].text <= texts
  BY DEF OrderInv
<1>8. \A c \in Clients : \A i \in DOMAIN shown'[c] : shown'[c][i].text <= texts'
  BY <1>1, <1>7
<1>9. ASSUME NEW b \in Actors, NEW c \in Clients, NEW i \in DOMAIN shown'[c],
             InHand(b)', shown'[c][i].text = msg'[b].text
      PROVE  pc'[b] = "write" /\ i = Len(shown'[c]) /\ c \notin left'
  <2>1. b # a
    BY <1>1, <1>2, <1>7, <1>9
  <2> QED
    BY <1>1, <1>3, <1>9, <2>1 DEF OrderInv
<1> QED
  BY <1>1, <1>4, <1>5, <1>6, <1>8, <1>9 DEF OrderInv

\* A step that sends nothing and takes no message up keeps the order.
LEMMA QuietOrder ==
    ASSUME OrderInv, UNCHANGED <<shown, texts>>,
           \A a \in Actors : InHand(a)' =>
              /\ InHand(a) /\ msg'[a] = msg[a]
              /\ pc'[a] = "write" => mu' = a
              /\ pc[a] = "write" => pc'[a] = "write" /\ left' \subseteq left
    PROVE  OrderInv' /\ shown' = shown
<1>1. \A a \in Actors : InHand(a)' => InHand(a) /\ msg'[a] = msg[a]
  OBVIOUS
<1>2. \A a \in Actors : pc'[a] = "write" => mu' = a
  BY DEF InHand
<1>3. \A a, b \in Actors : InHand(a)' /\ InHand(b)' /\ msg'[a].text = msg'[b].text => a = b
  BY <1>1 DEF OrderInv
<1>4. /\ \A a \in Actors : InHand(a)' => msg'[a].text <= texts'
      /\ \A c \in Clients : \A i \in DOMAIN shown'[c] : shown'[c][i].text <= texts'
  BY <1>1 DEF OrderInv
<1>5. ASSUME NEW a \in Actors, NEW c \in Clients, NEW i \in DOMAIN shown'[c],
             InHand(a)', shown'[c][i].text = msg'[a].text
      PROVE  pc'[a] = "write" /\ i = Len(shown'[c]) /\ c \notin left'
  <2>1. pc[a] = "write" /\ i = Len(shown[c]) /\ c \notin left
    BY <1>1, <1>5 DEF OrderInv
  <2> QED
    BY <1>5, <2>1
<1> QED
  BY <1>2, <1>3, <1>4, <1>5 DEF OrderInv

\* The steps of a push that show nothing.
LEMMA PushOrder ==
    ASSUME TypeInv, OrderInv, NEW a \in Actors,
           \/ Lock(a) \/ Unlock(a) \/ Record(a) \/ Quote(a)
           \/ \E c \in Clients : WriteFails(a, c)
    PROVE  OrderInv' /\ shown' = shown
<1>1. pc \in [Actors -> Steps]
  BY DEF TypeInv, Types, TypeOK
<1>2. CASE Lock(a)
  <2>1. \A b \in Actors : pc[b] # "write"
    BY <1>2, SocketAssumption DEF Lock, Free, OrderInv, Actors
  <2> QED
    BY <1>1, <1>2, <2>1, QuietOrder DEF Lock, InHand
<1>3. CASE Unlock(a) \/ Record(a) \/ Quote(a)
  <2>1. /\ UNCHANGED <<shown, texts, left>> /\ pc'[a] \notin {"push", "write"}
        /\ \A b \in Actors : b # a => pc'[b] = pc[b] /\ msg'[b] = msg[b]
        /\ mu' = mu \/ pc[a] = "write"
    BY <1>1, <1>3 DEF Unlock, Record, Quote, Proceed, TypeInv, Types, TypeOK
  <2>2. \A b \in Actors : pc[b] = "write" /\ pc[a] = "write" => b = a
    BY DEF OrderInv
  <2> QED
    BY <2>1, <2>2, QuietOrder DEF InHand, OrderInv
<1>4. CASE \E c \in Clients : WriteFails(a, c)
  BY <1>4, QuietOrder DEF WriteFails, actorVars, InHand, OrderInv
<1> QED
  BY <1>2, <1>3, <1>4

\* The steps outside of pushes only take clients away.
LEMMA OtherOrder ==
    ASSUME TypeInv, OrderInv,
           \/ \E c \in Clients : Accept(c) \/ Stall(c) \/ Hangup(c) \/ ConnEnds(c)
           \/ Register \/ CloseListener \/ RunEnds \/ WorkerEnds \/ Exit \/ Stop \/ Crash \/ Restart
           \/ UNCHANGED vars
    PROVE  OrderInv' /\ shown' = shown
<1>1. pc \in [Actors -> Steps]
  BY DEF TypeInv, Types, TypeOK
<1>2. CASE \/ \E c \in Clients : Accept(c) \/ Stall(c) \/ Hangup(c)
           \/ CloseListener \/ RunEnds \/ Stop \/ UNCHANGED vars
  BY <1>2, QuietOrder DEF Accept, Stall, Hangup, CloseListener, RunEnds, Stop, vars, actorVars,
                          OrderInv, InHand
<1>3. CASE \/ \E c \in Clients : ConnEnds(c)
           \/ Register \/ WorkerEnds \/ Restart
  <2>1. /\ UNCHANGED <<shown, texts, left, msg>>
        /\ mu' = mu
        /\ \A a \in Actors : pc'[a] = pc[a] \/ pc'[a] \in {"off", "idle"}
    BY <1>1, <1>3 DEF ConnEnds, Register, WorkerEnds, Restart
  <2> QED
    BY <2>1, QuietOrder DEF InHand, OrderInv
<1>4. CASE Exit \/ Crash
  BY <1>4, QuietOrder DEF Exit, Crash, Ends, InHand
<1> QED
  BY <1>2, <1>3, <1>4

LEMMA OrderCorrect == Spec => [](OrderInv /\ OneOrder)
<1>1. Init => OrderInv /\ OneOrder
  BY DEF Init, OrderInv, InHand, OneOrder
<1>2. OrderInv /\ OneOrder /\ TypeInv /\ [Next]_vars => (OrderInv /\ OneOrder)'
  <2> SUFFICES ASSUME OrderInv, OneOrder, TypeInv, [Next]_vars
               PROVE  OrderInv' /\ OneOrder'
    OBVIOUS
  <2>1. CASE \E a \in Actors : \E c \in Clients : Write(a, c)
    BY <2>1, WriteOrder
  <2>2. ASSUME OrderInv', shown' = shown
        PROVE  OrderInv' /\ OneOrder'
    BY <2>2 DEF OneOrder
  <2>3. CASE \E a \in Actors : Push(a) /\ ~\E c \in Clients : Write(a, c)
    BY <2>2, <2>3, PushOrder DEF Push
  <2>4. CASE (\E c \in Clients : Send(c) \/ Answer(c)) \/ (\E kept \in BOOLEAN : Say(kept))
    BY <2>2, <2>4, MakeOrder DEF Send, Say, Answer, Actors
  <2> QED
    BY <2>1, <2>2, <2>3, <2>4, OtherOrder DEF Next
<1> QED
  BY <1>1, <1>2, SocketTypes, PTL DEF Spec

\* Clients see the messages in one order, whichever goroutine pushed them:
\* push holds b.mu over its writes to all of them, and a client that connects,
\* hangs up or stalls in between does not disturb it.
THEOREM ClientsSeeOneOrder == Spec => []OneOrder
BY OrderCorrect, PTL
-----------------------------------------------------------------------------
(* What a reply quotes.                                                    *)

\* Of n texts e is one, and has its number for an id as long as the ids, which
\* are at seq, have not started again.
Known(e, seq, n) == e.text <= n /\ (seq = n => e.id = e.text)

\* So is everything in the outbox, on a client's screen, or in hand.
IdInv ==
    /\ \A i \in DOMAIN rows : Known(rows[i], msgSeq, texts)
    /\ \A c \in Clients : \A i \in DOMAIN shown[c] : Known(shown[c][i], msgSeq, texts)
    /\ \A a \in Actors : Known(msg[a], msgSeq, texts) /\ Known(msg[a].re, msgSeq, texts)

\* The numbers of texts; an entry has one that is not 0.
LEMMA EntryNumbers ==
    ASSUME TypeInv
    PROVE  /\ texts \in Nat /\ msgSeq \in Nat /\ msgSeq <= texts
           /\ rows \in Seq(Entries) /\ shown \in [Clients -> Seq(Entries)]
           /\ \A e \in Entries : e.text \in Nat /\ e.text > 0 /\ e.id \in Nat
           /\ \A a \in Actors : msg[a].text \in Nat /\ msg[a].re.text \in Nat
<1>1. /\ texts \in Nat /\ msgSeq \in Nat /\ msgSeq <= texts
      /\ rows \in Seq(Entries) /\ shown \in [Clients -> Seq(Entries)]
      /\ msg \in [Actors -> Msgs \cup {NoMsg}]
  BY SocketAssumption DEF TypeInv, Types, TypeOK
<1>2. \A e \in Entries : e.text \in Nat /\ e.text > 0 /\ e.id \in Nat
  BY SocketAssumption DEF Entries, Ids
<1>3. \A m \in Msgs : m.text \in Nat /\ m.re \in Entries \cup {NoEntry}
  BY SocketAssumption DEF Msgs, Ids
<1>4. NoEntry.text \in Nat /\ NoMsg.text \in Nat /\ NoMsg.re = NoEntry
  BY DEF NoEntry, NoMsg
<1> QED
  BY <1>1, <1>2, <1>3, <1>4

\* A message more leaves what is known as it is.
LEMMA KnownGrows ==
    ASSUME NEW e, e.text \in Nat, NEW seq \in Nat, NEW n \in Nat, Known(e, seq, n)
    PROVE  Known(e, seq + 1, n + 1)
BY DEF Known

\* A new message takes the next id and the next text, and replies to something
\* that is known.
LEMMA MakeIds ==
    ASSUME TypeInv, IdInv, NEW a \in Actors, NEW re, NEW kept, Make(a, re, kept),
           Known(re, msgSeq, texts), re.text \in Nat
    PROVE  IdInv'
<1> DEFINE m == [id |-> msgSeq + 1, text |-> texts + 1, re |-> re, kept |-> kept]
<1>1. /\ texts' = texts + 1 /\ msgSeq' = msgSeq + 1 /\ rows' = rows /\ shown' = shown
      /\ \A b \in Actors : msg'[b] = IF b = a THEN m ELSE msg[b]
  BY DEF Make, NextID, TypeInv, Types, TypeOK
<1>2. Known(m, msgSeq + 1, texts + 1) /\ Known(m.re, msgSeq + 1, texts + 1)
  BY EntryNumbers, KnownGrows DEF Known
<1> HIDE DEF m
<1>3. /\ \A i \in DOMAIN rows : Known(rows[i], msgSeq + 1, texts + 1)
      /\ \A c \in Clients : \A i \in DOMAIN shown[c] :
            Known(shown[c][i], msgSeq + 1, texts + 1)
  BY EntryNumbers, KnownGrows DEF IdInv
<1>4. \A b \in Actors : /\ Known(msg'[b], msgSeq + 1, texts + 1)
                         /\ Known(msg'[b].re, msgSeq + 1, texts + 1)
  BY <1>1, <1>2, EntryNumbers, KnownGrows DEF IdInv
<1> QED
  BY <1>1, <1>3, <1>4 DEF IdInv

\* A new id, or a text that is new, is of a message nobody has seen.
LEMMA SendIds ==
    ASSUME TypeInv, IdInv,
           (\E c \in Clients : Send(c) \/ Answer(c)) \/ (\E kept \in BOOLEAN : Say(kept))
    PROVE  IdInv'
<1>1. Known(NoEntry, msgSeq, texts) /\ NoEntry.text \in Nat
  BY EntryNumbers DEF Known, NoEntry
<1>2. ASSUME NEW c \in Clients, Send(c)
      PROVE  IdInv'
  <2>1. PICK re \in {NoEntry} \cup {shown[c][i] : i \in DOMAIN shown[c]} : Make(c, re, TRUE)
    BY <1>2 DEF Send
  <2>2. Known(re, msgSeq, texts) /\ re.text \in Nat
    BY <1>1, EntryNumbers DEF IdInv
  <2> QED
    BY <2>1, <2>2, MakeIds DEF Actors
<1>3. ASSUME NEW kept \in BOOLEAN, Say(kept)
      PROVE  IdInv'
  BY <1>1, <1>3, MakeIds DEF Say, Actors
<1>4. ASSUME NEW c \in Clients, Answer(c)
      PROVE  IdInv'
  BY <1>1, <1>4, MakeIds DEF Answer, Actors
<1> QED
  BY <1>2, <1>3, <1>4

\* Put and Write hand on what the goroutine has in hand.
LEMMA PushIds ==
    ASSUME TypeInv, IdInv, NEW a \in Actors, Push(a)
    PROVE  IdInv'
<1>1. msgSeq' = msgSeq /\ texts' = texts
  BY DEF Push, Lock, Unlock, Record, Quote, Write, WriteFails
<1>2. Known(NoMsg, msgSeq, texts) /\ Known(NoMsg.re, msgSeq, texts)
  BY EntryNumbers DEF Known, NoMsg, NoEntry
<1>3. \A b \in Actors : msg'[b] = msg[b] \/ msg'[b] = NoMsg
  BY DEF Push, Lock, Unlock, Record, Quote, Write, WriteFails, Proceed, actorVars, TypeInv, Types,
         TypeOK
<1>4. \A b \in Actors : Known(msg'[b], msgSeq, texts) /\ Known(msg'[b].re, msgSeq, texts)
  BY <1>2, <1>3 DEF IdInv
<1> DEFINE e == [id |-> msg[a].id, text |-> msg[a].text]
<1>5. Known(e, msgSeq, texts)
  BY DEF IdInv, Known
<1>6. pc[a] \in {"write", "put"} => e \in Entries /\ msg[a].id \in Ids /\ msg[a].text \in Ids
  BY DEF TypeInv, HandInv, Msgs, Entries
<1>7. \A i \in DOMAIN rows' : Known(rows'[i], msgSeq, texts)
  <2>1. CASE rows' = rows
    BY <2>1 DEF IdInv
  <2>2. CASE pc[a] = "put" /\ rows' = Put(rows, msg[a].id, msg[a].text)
    <3>1. /\ rows \in Seq(Entries) /\ Len(rows) <= MaxKept
          /\ msg[a].id \in Ids /\ msg[a].text \in Ids
      BY <1>6, <2>2 DEF TypeInv, Types, TypeOK
    <3>2. /\ rows' \in Seq(Entries)
          /\ \A i \in 1..Len(rows') : FromPut(rows'[i], rows, msg[a].id, msg[a].text)
      BY <2>2, <3>1, PutResult
    <3>3. \A i \in 1..Len(rows') : rows'[i] = e \/ \E j \in DOMAIN rows : rows'[i] = rows[j]
      BY <3>2 DEF FromPut
    <3>4. DOMAIN rows' = 1..Len(rows')
      BY <3>2
    <3> HIDE DEF e
    <3> QED
      BY <1>5, <3>3, <3>4 DEF IdInv
  <2> QED
    BY <2>1, <2>2 DEF Push, Lock, Unlock, Record, Quote, Write, WriteFails
<1>8. \A c \in Clients : \A i \in DOMAIN shown'[c] : Known(shown'[c][i], msgSeq, texts)
  <2>1. CASE shown' = shown
    BY <2>1 DEF IdInv
  <2>2. ASSUME NEW c \in Clients, pc[a] = "write",
               shown' = [shown EXCEPT ![c] = Append(shown[c], e)]
        PROVE  \A d \in Clients : \A i \in DOMAIN shown'[d] : Known(shown'[d][i], msgSeq, texts)
    <3>1. e \in Entries
      BY <1>6, <2>2
    <3> HIDE DEF e
    <3>2. \A i \in DOMAIN Append(shown[c], e) :
             Append(shown[c], e)[i] = e
                \/ (i \in DOMAIN shown[c] /\ Append(shown[c], e)[i] = shown[c][i])
      BY <3>1, EntryNumbers
    <3>3. \A d \in Clients : shown'[d] = IF d = c THEN Append(shown[c], e) ELSE shown[d]
      BY <2>2, EntryNumbers
    <3> QED
      BY <1>5, <3>2, <3>3 DEF IdInv
  <2> QED
    BY <2>1, <2>2 DEF Push, Lock, Unlock, Record, Quote, Write, WriteFails
<1> QED
  BY <1>1, <1>4, <1>7, <1>8 DEF IdInv

\* The steps outside of pushes only forget.
LEMMA OtherIds ==
    ASSUME TypeInv, IdInv,
           \/ \E c \in Clients : Accept(c) \/ Stall(c) \/ Hangup(c) \/ ConnEnds(c)
           \/ Register \/ CloseListener \/ RunEnds \/ WorkerEnds \/ Exit \/ Stop \/ Crash \/ Restart
           \/ UNCHANGED vars
    PROVE  IdInv'
<1>1. CASE Exit \/ Crash
  <2>1. /\ rows' = rows /\ shown' = shown /\ texts' = texts /\ msgSeq' = 0
        /\ \A a \in Actors : msg'[a] = NoMsg
    BY <1>1 DEF Exit, Crash, Ends
  <2>2. \A e \in Entries : Known(e, msgSeq, texts) => Known(e, 0, texts)
    BY EntryNumbers DEF Known
  <2>3. Known(NoMsg, 0, texts) /\ Known(NoMsg.re, 0, texts)
    BY EntryNumbers DEF Known, NoMsg, NoEntry
  <2>4. \A i \in DOMAIN rows : Known(rows[i], 0, texts)
    BY <2>2, EntryNumbers DEF IdInv
  <2>5. \A c \in Clients : \A i \in DOMAIN shown[c] : Known(shown[c][i], 0, texts)
    BY <2>2, EntryNumbers DEF IdInv
  <2> QED
    BY <2>1, <2>3, <2>4, <2>5 DEF IdInv
<1>2. CASE ~(Exit \/ Crash)
  <2>1. UNCHANGED <<rows, shown, msg, texts, msgSeq>>
    BY <1>2 DEF Accept, Stall, Hangup, ConnEnds, Register, CloseListener, RunEnds, WorkerEnds, Stop,
                Restart, vars, actorVars
  <2> QED
    BY <2>1 DEF IdInv
<1> QED
  BY <1>1, <1>2

\* Until the ids start again at 0, which they do with every process, a prompt
\* quotes the message its author replied to, or says that it is not there;
\* evicted messages, failing statements and the other goroutine's messages
\* make no difference.
THEOREM QuotesTrueAtFirst == Spec => []QuoteTrueAtFirst
<1>1. Init => IdInv
  BY SocketAssumption DEF Init, IdInv, Known, NoMsg, NoEntry
<1>2. IdInv /\ TypeInv /\ [Next]_vars => IdInv'
  BY SendIds, PushIds, OtherIds DEF Next
<1>3. IdInv /\ TypeInv => QuoteTrueAtFirst
  <2> SUFFICES ASSUME IdInv, TypeInv, msgSeq = texts, NEW c \in Clients, Quoted(c) # Unavailable
               PROVE  Quoted(c) = msg[c].re.text
    BY DEF QuoteTrueAtFirst, QuoteTrue
  <2>1. \E i \in DOMAIN rows : rows[i].id = msg[c].re.id /\ Quoted(c) = rows[i].text
    BY DEF Quoted, Get, At
  <2>2. msg[c].re.id = msg[c].re.text
    BY DEF IdInv, Known, Actors
  <2> QED
    BY <2>1, <2>2 DEF IdInv, Known
<1> QED
  BY <1>1, <1>2, <1>3, SocketTypes, PTL DEF Spec
=============================================================================
