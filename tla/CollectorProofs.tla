---------------------------- MODULE CollectorProofs ----------------------------
(***************************************************************************)
(* Safety of the collector for every value of its constants.  The          *)
(* inductive invariant IInv adds to row accounting the order of shutdown   *)
(* (handlers, then the writer, then the process) and what a reply says     *)
(* about the post it answers.                                              *)
(***************************************************************************)
EXTENDS Collector, FoldLemmas

\* Shutdown proceeds in one order: the senders are dropped only when no handler
\* is left, the last flush starts only on an empty channel, and nothing is in
\* memory once the process is gone.
ShutdownOrder ==
    /\ server \in {"closed", "exited", "down"} => \A p \in Posts : reply[p] # "inflight"
    /\ writer = "stopped" => server \in {"closed", "exited", "down"}
    /\ draining => server \in {"closed", "exited", "down"} /\ channel = <<>>
    /\ writer = "stopped" => channel = <<>> /\ buf = NoPosts
    /\ draining => writer # "select"
    /\ writer = "span_events" => buf["spans"] = {}
    /\ server \in {"exited", "down"} => writer = "stopped"

\* What a reply says: only answered posts can have been accepted, and one that
\* was answered 429 or 503 was not; a client sends attempt n only when every
\* earlier attempt got a retryable answer or none.
ReplyMeaning ==
    /\ \A p \in accepted : reply[p] \in {"ok", "none"}
    /\ \A r \in Requests : \A m, n \in 1 .. MaxAttempts :
           m < n /\ reply[<<r, n>>] # "unsent" => reply[<<r, m>>] \in Retryable

\* Why content cannot overtake its span: until the span insert of a flush is
\* decided, every buffered event has its span buffered too, and no event is
\* buffered whose span went down with an earlier crash.
ContentOrder ==
    /\ SpanBeforeContent
    /\ writer = "spans" => buf["span_events"] \subseteq buf["spans"]
    /\ lost["spans"] \cap buf["span_events"] = {}

IInv ==
    /\ TypeOK
    /\ Accounted
    /\ ShutdownOrder
    /\ ReplyMeaning
    /\ WriterOutlivesHandlers
    /\ ContentOrder

--------------------------------------------------------------------------------
\* A post that is not in the channel is appended: the channel's elements gain
\* it and stay distinct (try_send).
LEMMA AppendDistinct ==
    ASSUME NEW S, NEW s \in Seq(S), NEW x \in S,
           \A i \in DOMAIN s : s[i] # x,
           \A i, j \in DOMAIN s : s[i] = s[j] => i = j
    PROVE  LET u == Append(s, x) IN
           /\ u \in Seq(S)
           /\ {u[i] : i \in DOMAIN u} = {s[i] : i \in DOMAIN s} \cup {x}
           /\ \A i, j \in DOMAIN u : u[i] = u[j] => i = j
<1> DEFINE u == Append(s, x)
<1>1. u \in Seq(S) /\ Len(u) = Len(s) + 1 /\ Len(s) \in Nat
  OBVIOUS
<1>2. DOMAIN u = 1 .. Len(s) + 1 /\ DOMAIN s = 1 .. Len(s)
  BY <1>1
<1>3. \A i \in 1 .. Len(s) : u[i] = s[i]
  OBVIOUS
<1>4. u[Len(s) + 1] = x
  OBVIOUS
<1> HIDE DEF u
<1>5. {u[i] : i \in DOMAIN u} = {s[i] : i \in DOMAIN s} \cup {x}
  BY <1>1, <1>2, <1>3, <1>4
<1>6. \A i, j \in DOMAIN u : u[i] = u[j] => i = j
  BY <1>1, <1>2, <1>3, <1>4
<1>7. QED
  BY <1>1, <1>5, <1>6 DEF u

\* Receiving takes exactly the head out of a channel of distinct posts (recv).
LEMMA TailDistinct ==
    ASSUME NEW S, NEW s \in Seq(S), s # <<>>,
           \A i, j \in DOMAIN s : s[i] = s[j] => i = j
    PROVE  LET u == Tail(s) IN
           /\ Head(s) \in S
           /\ u \in Seq(S)
           /\ Head(s) \in {s[i] : i \in DOMAIN s}
           /\ {u[i] : i \in DOMAIN u} = {s[i] : i \in DOMAIN s} \ {Head(s)}
           /\ \A i, j \in DOMAIN u : u[i] = u[j] => i = j
<1> DEFINE u == Tail(s)
<1>1. u \in Seq(S) /\ Len(u) = Len(s) - 1 /\ Len(s) \in Nat /\ Len(s) > 0
  OBVIOUS
<1>2. DOMAIN u = 1 .. Len(s) - 1 /\ DOMAIN s = 1 .. Len(s)
  BY <1>1
<1>3. \A i \in 1 .. Len(s) - 1 : u[i] = s[i + 1]
  BY <1>1
<1>4. Head(s) = s[1] /\ Head(s) \in S
  BY <1>1
<1> HIDE DEF u
<1>5. \A i, j \in DOMAIN u : u[i] = u[j] => i = j
  <2> SUFFICES ASSUME NEW i \in DOMAIN u, NEW j \in DOMAIN u, u[i] = u[j]
               PROVE  i = j
    OBVIOUS
  <2>1. i + 1 \in DOMAIN s /\ j + 1 \in DOMAIN s /\ s[i + 1] = s[j + 1]
    BY <1>1, <1>2, <1>3
  <2>2. QED
    BY <2>1, <1>1, <1>2
<1>6. {u[i] : i \in DOMAIN u} = {s[i] : i \in DOMAIN s} \ {Head(s)}
  <2>1. ASSUME NEW i \in DOMAIN u
        PROVE  u[i] \in {s[k] : k \in DOMAIN s} \ {Head(s)}
    <3>1. i + 1 \in DOMAIN s /\ 1 \in DOMAIN s /\ i + 1 # 1
      BY <1>1, <1>2
    <3>2. QED
      BY <3>1, <1>2, <1>3, <1>4
  <2>2. ASSUME NEW i \in DOMAIN s, s[i] # Head(s)
        PROVE  s[i] \in {u[k] : k \in DOMAIN u}
    <3>1. i - 1 \in DOMAIN u
      BY <2>2, <1>1, <1>2, <1>4
    <3>2. s[i] = u[i - 1]
      BY <3>1, <1>1, <1>2, <1>3
    <3>3. QED
      BY <3>1, <3>2
  <2>3. QED
    BY <2>1, <2>2
<1>7. Head(s) \in {s[i] : i \in DOMAIN s}
  BY <1>1, <1>2, <1>4
<1>8. QED
  BY <1>1, <1>4, <1>5, <1>6, <1>7 DEF u

--------------------------------------------------------------------------------
\* Next, with the handler's four outcomes as cases of their own.
LEMMA NextCases ==
    ASSUME Next
    PROVE  \/ \E p \in Posts : Send(p)
           \/ \E p \in Posts : Disconnect(p)
           \/ \E p \in Posts : Handle(p) /\ Refuse(p)
           \/ \E p \in Posts : Handle(p) /\ AckEmpty(p)
           \/ \E p \in Posts : Handle(p) /\ EnqueueOk(p)
           \/ \E p \in Posts : Handle(p) /\ EnqueueRejected(p)
           \/ Receive \/ Tick \/ Drain
           \/ \E t \in Tables : InsertOk(t)
           \/ \E t \in Tables : InsertErr(t)
           \/ Signal \/ ServeReturns \/ Exit \/ Crash \/ Restart
BY DEF Next, Writing, Handle

\* Every step keeps the types (Receive needs a channel of distinct posts only
\* to know that its head is a post).
LEMMA TypeStep == TypeOK /\ Accounted /\ [Next]_vars => TypeOK'
<1> SUFFICES ASSUME TypeOK, Accounted, [Next]_vars PROVE TypeOK'
  OBVIOUS
<1> USE DEF TypeOK, Tables, Replies, NoPosts
<1>1. ASSUME NEW p \in Posts, Send(p)
      PROVE  TypeOK'
  BY <1>1 DEF Send
<1>2. ASSUME NEW p \in Posts, Disconnect(p)
      PROVE  TypeOK'
  BY <1>2 DEF Disconnect
<1>3. ASSUME NEW p \in Posts, Handle(p), Refuse(p)
      PROVE  TypeOK'
  BY <1>3 DEF Handle, Refuse, Answer
<1>4. ASSUME NEW p \in Posts, Handle(p), AckEmpty(p)
      PROVE  TypeOK'
  BY <1>4 DEF Handle, AckEmpty, Answer
<1>5. ASSUME NEW p \in Posts, Handle(p), EnqueueOk(p)
      PROVE  TypeOK'
  BY <1>5 DEF Handle, EnqueueOk, Answer
<1>6. ASSUME NEW p \in Posts, Handle(p), EnqueueRejected(p)
      PROVE  TypeOK'
  BY <1>6 DEF Handle, EnqueueRejected, Answer
<1>7. CASE Receive
  BY TailDistinct, <1>7 DEF Receive, Accounted
<1>8. CASE Tick
  BY <1>8 DEF Tick
<1>9. CASE Drain
  BY <1>9 DEF Drain
<1>10. ASSUME NEW t \in Tables, InsertOk(t)
      PROVE  TypeOK'
  BY <1>10 DEF InsertOk, AfterInsert
<1>11. ASSUME NEW t \in Tables, InsertErr(t)
      PROVE  TypeOK'
  BY BoundsAssumption, <1>11 DEF InsertErr, AfterInsert
<1>12. CASE Signal
  BY <1>12 DEF Signal
<1>13. CASE ServeReturns
  BY <1>13 DEF ServeReturns
<1>14. CASE Exit
  BY <1>14 DEF Exit
<1>15. CASE Crash
  BY BoundsAssumption, <1>15 DEF Crash, Queued
<1>16. CASE Restart
  BY <1>16 DEF Restart
<1>17. CASE UNCHANGED vars
  BY <1>17 DEF vars
<1>18. QED
  BY NextCases, <1>1, <1>2, <1>3, <1>4, <1>5, <1>6, <1>7, <1>8, <1>9, <1>10, <1>11, <1>12, <1>13, <1>14, <1>15, <1>16, <1>17

\* Every step respects the order of shutdown.
LEMMA ShutdownStep == IInv /\ [Next]_vars => ShutdownOrder'
<1> SUFFICES ASSUME IInv, [Next]_vars PROVE ShutdownOrder'
  OBVIOUS
<1> USE DEF IInv, TypeOK, ShutdownOrder, Tables, Replies, NoPosts
<1>1. ASSUME NEW p \in Posts, Send(p)
      PROVE  ShutdownOrder'
  BY <1>1 DEF Send
<1>2. ASSUME NEW p \in Posts, Disconnect(p)
      PROVE  ShutdownOrder'
  BY <1>2 DEF Disconnect
<1>3. ASSUME NEW p \in Posts, Handle(p), Refuse(p)
      PROVE  ShutdownOrder'
  BY <1>3 DEF Handle, Refuse, Answer
<1>4. ASSUME NEW p \in Posts, Handle(p), AckEmpty(p)
      PROVE  ShutdownOrder'
  BY <1>4 DEF Handle, AckEmpty, Answer
<1>5. ASSUME NEW p \in Posts, Handle(p), EnqueueOk(p)
      PROVE  ShutdownOrder'
  BY <1>5 DEF Handle, EnqueueOk, Answer
<1>6. ASSUME NEW p \in Posts, Handle(p), EnqueueRejected(p)
      PROVE  ShutdownOrder'
  BY <1>6 DEF Handle, EnqueueRejected, Answer
<1>7. CASE Receive
  BY <1>7 DEF Receive
<1>8. CASE Tick
  BY <1>8 DEF Tick
<1>9. CASE Drain
  BY <1>9 DEF Drain
<1>10. ASSUME NEW t \in Tables, InsertOk(t)
      PROVE  ShutdownOrder'
  BY <1>10 DEF InsertOk, AfterInsert
<1>11. ASSUME NEW t \in Tables, InsertErr(t)
      PROVE  ShutdownOrder'
  BY <1>11 DEF InsertErr, AfterInsert
<1>12. CASE Signal
  BY <1>12 DEF Signal
<1>13. CASE ServeReturns
  BY <1>13 DEF ServeReturns, Inflight
<1>14. CASE Exit
  BY <1>14 DEF Exit
<1>15. CASE Crash
  BY <1>15 DEF Crash
<1>16. CASE Restart
  BY <1>16 DEF Restart
<1>17. CASE UNCHANGED vars
  BY <1>17 DEF vars
<1>18. QED
  BY NextCases, <1>1, <1>2, <1>3, <1>4, <1>5, <1>6, <1>7, <1>8, <1>9, <1>10, <1>11, <1>12, <1>13, <1>14, <1>15, <1>16, <1>17

\* Every step keeps what replies mean; 503 would need a handler after the writer.
LEMMA ReplyStep == IInv /\ [Next]_vars => ReplyMeaning' /\ WriterOutlivesHandlers'
<1> SUFFICES ASSUME IInv, [Next]_vars
             PROVE  ReplyMeaning' /\ WriterOutlivesHandlers'
  OBVIOUS
<1> USE DEF IInv, TypeOK, ShutdownOrder, ReplyMeaning, WriterOutlivesHandlers,
            Replies, Retryable, Posts
<1>1. ASSUME NEW p \in Posts, Send(p)
      PROVE  ReplyMeaning' /\ WriterOutlivesHandlers'
  <2>1. PICK r \in Requests, n \in 1 .. MaxAttempts : p = <<r, n>>
    OBVIOUS
  <2>2. \A q \in Posts : q # p => reply'[q] = reply[q]
    BY <1>1 DEF Send
  <2>3. reply[p] = "unsent" /\ reply'[p] = "inflight"
    BY <1>1 DEF Send
  <2>4. \A m \in 1 .. MaxAttempts : m < n => reply[<<r, m>>] \in Retryable
    <3>1. ASSUME n > 1
          PROVE  n - 1 \in 1 .. MaxAttempts /\ reply[<<r, n - 1>>] \in Retryable
      BY <3>1, <2>1, <1>1, BoundsAssumption DEF Send
    <3>2. \A m \in 1 .. MaxAttempts : m < n => m = n - 1 \/ m < n - 1
      BY <2>1, BoundsAssumption
    <3>3. ASSUME NEW m \in 1 .. MaxAttempts, m < n - 1
          PROVE  reply[<<r, m>>] \in Retryable
      <4>1. n > 1
        BY <3>3, BoundsAssumption
      <4>2. reply[<<r, n - 1>>] # "unsent" /\ n - 1 \in 1 .. MaxAttempts
        BY <4>1, <3>1
      <4>3. QED
        BY <4>2, <3>3
    <3>4. ASSUME NEW m \in 1 .. MaxAttempts, m < n
          PROVE  reply[<<r, m>>] \in Retryable
      <4>1. n > 1
        BY <3>4, BoundsAssumption
      <4>2. QED
        BY <4>1, <3>1, <3>2, <3>3, <3>4
    <3>5. QED
      BY <3>4
  <2>5. ASSUME NEW q \in Requests, NEW m \in 1 .. MaxAttempts,
               NEW k \in 1 .. MaxAttempts, m < k, reply'[<<q, k>>] # "unsent"
        PROVE  reply'[<<q, m>>] \in Retryable
    <3>1. <<q, m>> # p
      <4>1. SUFFICES ASSUME <<q, m>> = p PROVE FALSE
        OBVIOUS
      <4>2. <<q, k>> # p /\ reply[<<q, k>>] # "unsent"
        BY <4>1, <2>1, <2>2, <2>5, BoundsAssumption
      <4>3. QED
        BY <4>1, <4>2, <2>3, <2>5
    <3>2. CASE <<q, k>> = p
      BY <3>1, <3>2, <2>1, <2>2, <2>4, <2>5
    <3>3. CASE <<q, k>> # p
      BY <3>1, <3>3, <2>2, <2>5
    <3>4. QED
      BY <3>2, <3>3
  <2>6. \A q \in accepted' : reply'[q] \in {"ok", "none"}
    BY <2>2, <2>3, <1>1 DEF Send
  <2>7. \A q \in Posts : reply'[q] # "unavailable"
    BY <2>2, <2>3
  <2>8. QED
    BY <2>5, <2>6, <2>7
<1>2. ASSUME NEW p \in Posts, Disconnect(p)
      PROVE  ReplyMeaning' /\ WriterOutlivesHandlers'
  BY BoundsAssumption, <1>2 DEF Disconnect
<1>3. ASSUME NEW p \in Posts, Handle(p), Refuse(p)
      PROVE  ReplyMeaning' /\ WriterOutlivesHandlers'
  BY BoundsAssumption, <1>3 DEF Handle, Refuse, Answer
<1>4. ASSUME NEW p \in Posts, Handle(p), AckEmpty(p)
      PROVE  ReplyMeaning' /\ WriterOutlivesHandlers'
  BY BoundsAssumption, <1>4 DEF Handle, AckEmpty, Answer
<1>5. ASSUME NEW p \in Posts, Handle(p), EnqueueOk(p)
      PROVE  ReplyMeaning' /\ WriterOutlivesHandlers'
  BY BoundsAssumption, <1>5 DEF Handle, EnqueueOk, Answer
<1>6. ASSUME NEW p \in Posts, Handle(p), EnqueueRejected(p)
      PROVE  ReplyMeaning' /\ WriterOutlivesHandlers'
  BY BoundsAssumption, <1>6 DEF Handle, EnqueueRejected, Answer
<1>7. CASE Receive
  BY <1>7 DEF Receive
<1>8. CASE Tick
  BY <1>8 DEF Tick
<1>9. CASE Drain
  BY <1>9 DEF Drain
<1>10. ASSUME NEW t \in Tables, InsertOk(t)
      PROVE  ReplyMeaning' /\ WriterOutlivesHandlers'
  BY <1>10 DEF InsertOk, AfterInsert
<1>11. ASSUME NEW t \in Tables, InsertErr(t)
      PROVE  ReplyMeaning' /\ WriterOutlivesHandlers'
  BY <1>11 DEF InsertErr, AfterInsert
<1>12. CASE Signal
  BY <1>12 DEF Signal
<1>13. CASE ServeReturns
  BY <1>13 DEF ServeReturns, Inflight
<1>14. CASE Exit
  BY <1>14 DEF Exit
<1>15. CASE Crash
  BY <1>15 DEF Crash
<1>16. CASE Restart
  BY <1>16 DEF Restart
<1>17. CASE UNCHANGED vars
  BY <1>17 DEF vars
<1>18. QED
  BY NextCases, <1>1, <1>2, <1>3, <1>4, <1>5, <1>6, <1>7, <1>8, <1>9, <1>10, <1>11, <1>12, <1>13, <1>14, <1>15, <1>16, <1>17

\* What Accounted says of one table.
AccountedIn(t) ==
    /\ {p \in accepted : HasRows(t, p)} =
           {p \in Queued : HasRows(t, p)}
               \cup buf[t] \cup stored[t] \cup dropped[t] \cup lost[t]
    /\ Queued \cap buf[t] = {}
    /\ (Queued \cup buf[t]) \cap (stored[t] \cup dropped[t] \cup lost[t]) = {}
    /\ stored[t] \cap (dropped[t] \cup lost[t]) = {}
    /\ dropped[t] \cap lost[t] = {}

Distinct == \A i, j \in DOMAIN channel : channel[i] = channel[j] => i = j

\* Accounted, split by table for the provers.
LEMMA AccountedParts == Accounted <=> Distinct /\ \A t \in Tables : AccountedIn(t)
BY DEF Accounted, AccountedIn, Distinct

\* Every step moves rows from one place to exactly one other.
LEMMA AccountedStep == IInv /\ [Next]_vars => Accounted'
<1> SUFFICES ASSUME IInv, [Next]_vars PROVE Accounted'
  OBVIOUS
<1>0. Distinct /\ \A t \in Tables : AccountedIn(t)
  BY AccountedParts DEF IInv
<1>g. ASSUME Distinct', \A t \in Tables : AccountedIn(t)' PROVE Accounted'
  BY <1>g DEF Accounted, AccountedIn, Distinct
<1>i. TypeOK /\ ReplyMeaning
  BY DEF IInv
<1> USE <1>i DEF TypeOK, NoPosts
<1>1. ASSUME NEW p \in Posts, Send(p)
      PROVE  Accounted'
  BY <1>0, <1>g, <1>1 DEF Send, AccountedIn, Distinct, Queued, HasRows
<1>2. ASSUME NEW p \in Posts, Disconnect(p)
      PROVE  Accounted'
  BY <1>0, <1>g, <1>2 DEF Disconnect, AccountedIn, Distinct, Queued, HasRows
<1>3. ASSUME NEW p \in Posts, Handle(p), Refuse(p)
      PROVE  Accounted'
  BY <1>0, <1>g, <1>3, SMTT(30) DEF Handle, Refuse, Answer, AccountedIn, Distinct, Queued, HasRows
<1>4. ASSUME NEW p \in Posts, Handle(p), AckEmpty(p)
      PROVE  Accounted'
  BY <1>0, <1>g, <1>4 DEF Handle, AckEmpty, Answer, AccountedIn, Distinct, Queued, HasRows
<1>5. ASSUME NEW p \in Posts, Handle(p), EnqueueOk(p)
      PROVE  Accounted'
  <2>1. p \notin accepted /\ accepted' = accepted \cup {p}
    BY <1>5 DEF Handle, EnqueueOk, ReplyMeaning
  <2>2. UNCHANGED <<buf, stored, dropped, lost>>
    BY <1>5 DEF Handle, EnqueueOk
  <2>3. \E u \in Tables : HasRows(u, p)
    BY <1>5 DEF Handle, EnqueueOk, IsEmpty
  <2>4. p \notin Queued
    BY <1>0, <2>1, <2>3 DEF AccountedIn
  <2>5. Queued' = Queued \cup {p} /\ Distinct'
    <3>1. channel' = Append(channel, p) /\ channel \in Seq(Posts)
      BY <1>5 DEF Handle, EnqueueOk
    <3>2. \A i \in DOMAIN channel : channel[i] # p
      BY <2>4 DEF Queued
    <3>3. \A i, j \in DOMAIN channel : channel[i] = channel[j] => i = j
      BY <1>0 DEF Distinct
    <3>4. LET u == Append(channel, p) IN
              /\ {u[i] : i \in DOMAIN u} = {channel[i] : i \in DOMAIN channel} \cup {p}
              /\ \A i, j \in DOMAIN u : u[i] = u[j] => i = j
      BY ONLY <3>1, <3>2, <3>3, p \in Posts, AppendDistinct
    <3>5. QED
      BY <3>1, <3>4 DEF Queued, Distinct
  <2>6. ASSUME NEW t \in Tables PROVE AccountedIn(t)'
    BY <1>0, <2>1, <2>2, <2>4, <2>5 DEF AccountedIn, HasRows
  <2>7. QED
    BY <1>g, <2>5, <2>6
<1>6. ASSUME NEW p \in Posts, Handle(p), EnqueueRejected(p)
      PROVE  Accounted'
  BY <1>0, <1>g, <1>6 DEF Handle, EnqueueRejected, Answer, AccountedIn, Distinct, Queued, HasRows
<1>7. CASE Receive
  <2> DEFINE p == Head(channel)
  <2>1. /\ p \in Posts /\ p \in Queued
        /\ Queued' = Queued \ {p} /\ Distinct'
    <3>1. channel' = Tail(channel) /\ channel \in Seq(Posts) /\ channel # <<>>
      BY <1>7 DEF Receive
    <3>2. \A i, j \in DOMAIN channel : channel[i] = channel[j] => i = j
      BY <1>0 DEF Distinct
    <3>3. LET u == Tail(channel) IN
              /\ p \in Posts
              /\ p \in {channel[i] : i \in DOMAIN channel}
              /\ {u[i] : i \in DOMAIN u} = {channel[i] : i \in DOMAIN channel} \ {p}
              /\ \A i, j \in DOMAIN u : u[i] = u[j] => i = j
      BY ONLY <3>1, <3>2, TailDistinct
    <3>4. QED
      BY <3>1, <3>3 DEF Queued, Distinct
  <2>2. \A t \in Tables : buf'[t] = IF HasRows(t, p) THEN buf[t] \cup {p} ELSE buf[t]
    BY <1>7 DEF Receive
  <2>3. UNCHANGED <<accepted, stored, dropped, lost>>
    BY <1>7 DEF Receive
  <2> HIDE DEF p
  <2>4. ASSUME NEW t \in Tables PROVE AccountedIn(t)'
    <3> DEFINE H == {q \in Posts : HasRows(t, q)}
    <3>1. /\ {q \in accepted : HasRows(t, q)} = accepted \cap H
          /\ {q \in Queued : HasRows(t, q)} = Queued \cap H
          /\ {q \in accepted' : HasRows(t, q)} = accepted' \cap H
          /\ {q \in Queued' : HasRows(t, q)} = Queued' \cap H
      BY <2>1, <2>3 DEF Queued
    <3>2. buf'[t] = buf[t] \cup ({p} \cap H)
      BY <2>1, <2>2
    <3>3. AccountedIn(t)
      BY <1>0
    <3>4. p \in H => p \in accepted
      BY <2>1, <3>1, <3>3 DEF AccountedIn
    <3> HIDE DEF H
    <3>5. accepted' \cap H = (Queued' \cap H) \cup buf'[t] \cup stored'[t]
                                  \cup dropped'[t] \cup lost'[t]
      BY <2>1, <2>3, <3>1, <3>2, <3>3, <3>4 DEF AccountedIn
    <3>6. Queued' \cap buf'[t] = {}
      BY <2>1, <3>2, <3>3 DEF AccountedIn
    <3>7. /\ (Queued' \cup buf'[t]) \cap (stored'[t] \cup dropped'[t] \cup lost'[t]) = {}
          /\ stored'[t] \cap (dropped'[t] \cup lost'[t]) = {}
          /\ dropped'[t] \cap lost'[t] = {}
      BY <2>1, <2>3, <3>2, <3>3 DEF AccountedIn
    <3>8. QED
      BY <3>1, <3>5, <3>6, <3>7 DEF AccountedIn
  <2>5. QED
    BY <1>g, <2>1, <2>4
<1>8. CASE Tick
  BY <1>0, <1>g, <1>8 DEF Tick, AccountedIn, Distinct, Queued, HasRows
<1>9. CASE Drain
  BY <1>0, <1>g, <1>9 DEF Drain, AccountedIn, Distinct, Queued, HasRows
<1>10. ASSUME NEW t \in Tables, InsertOk(t)
      PROVE  Accounted'
  <2>1. /\ UNCHANGED <<accepted, channel, dropped, lost>>
        /\ Queued' = Queued /\ Distinct'
    BY <1>0, <1>10 DEF InsertOk, Queued, Distinct
  <2>2. ASSUME NEW u \in Tables PROVE AccountedIn(u)'
    BY <1>0, <2>1, <1>10 DEF InsertOk, AccountedIn
  <2>3. QED
    BY <1>g, <2>1, <2>2
<1>11. ASSUME NEW t \in Tables, InsertErr(t)
      PROVE  Accounted'
  <2>1. UNCHANGED <<accepted, channel, lost>> /\ Queued' = Queued /\ Distinct'
    BY <1>0, <1>11 DEF InsertErr, Queued, Distinct
  <2>2. ASSUME NEW u \in Tables PROVE AccountedIn(u)'
    <3>1. AccountedIn(u)
      BY <1>0
    <3>2. CASE u # t
      BY <2>1, <3>1, <3>2, <1>11 DEF InsertErr, AccountedIn
    <3>3. CASE u = t /\ dropped'[u] = dropped[u] \cup buf[u] /\ UNCHANGED stored
      BY <2>1, <3>1, <3>3, <1>11 DEF InsertErr, AccountedIn
    <3>4. CASE u = t /\ stored'[u] = stored[u] \cup buf[u] /\ UNCHANGED dropped
      BY <2>1, <3>1, <3>4, <1>11 DEF InsertErr, AccountedIn
    <3>5. QED
      BY <3>2, <3>3, <3>4, <1>11 DEF InsertErr
  <2>3. QED
    BY <1>g, <2>1, <2>2
<1>12. CASE Signal
  BY <1>0, <1>g, <1>12 DEF Signal, AccountedIn, Distinct, Queued, HasRows
<1>13. CASE ServeReturns
  BY <1>0, <1>g, <1>13 DEF ServeReturns, Inflight, AccountedIn, Distinct, Queued, HasRows
<1>14. CASE Exit
  BY <1>0, <1>g, <1>14 DEF Exit, AccountedIn, Distinct, Queued, HasRows
<1>15. CASE Crash
  <2>1. Queued' = {} /\ Distinct' /\ UNCHANGED <<accepted, dropped>>
    BY <1>15 DEF Crash, Queued, Distinct
  <2>2. PICK applied \in SUBSET ({writer} \cap Tables) :
            \A t \in Tables :
                /\ stored'[t] = IF t \in applied THEN stored[t] \cup buf[t] ELSE stored[t]
                /\ lost'[t] = lost[t] \cup {p \in Queued : HasRows(t, p)}
                                      \cup (IF t \in applied THEN {} ELSE buf[t])
    BY <1>15 DEF Crash
  <2>3. ASSUME NEW t \in Tables PROVE AccountedIn(t)'
    <3>1. AccountedIn(t) /\ buf'[t] = {}
      BY <1>0, <1>15 DEF Crash
    <3> DEFINE Q == {p \in Queued : HasRows(t, p)}
    <3>2. Q \subseteq Queued /\ {p \in Queued' : HasRows(t, p)} = {}
      BY <2>1
    <3>3. {p \in accepted : HasRows(t, p)}
              = Q \cup buf[t] \cup stored[t] \cup dropped[t] \cup lost[t]
      BY <3>1 DEF AccountedIn
    <3>4. {p \in accepted' : HasRows(t, p)} = {p \in accepted : HasRows(t, p)}
      BY <2>1
    <3> HIDE DEF Q
    <3>5. CASE t \in applied
      <4>1. stored'[t] = stored[t] \cup buf[t] /\ lost'[t] = lost[t] \cup Q
        BY <2>2, <3>5 DEF Q
      <4>2. QED
        BY <2>1, <3>1, <3>2, <3>3, <3>4, <4>1 DEF AccountedIn
    <3>6. CASE t \notin applied
      <4>1. stored'[t] = stored[t] /\ lost'[t] = lost[t] \cup Q \cup buf[t]
        BY <2>2, <3>6 DEF Q
      <4>2. QED
        BY <2>1, <3>1, <3>2, <3>3, <3>4, <4>1 DEF AccountedIn
    <3>7. QED
      BY <3>5, <3>6
  <2>4. QED
    BY <1>g, <2>1, <2>3
<1>16. CASE Restart
  BY <1>0, <1>g, <1>16 DEF Restart, AccountedIn, Distinct, Queued, HasRows
<1>17. CASE UNCHANGED vars
  BY <1>0, <1>g, <1>17 DEF vars, AccountedIn, Distinct, Queued, HasRows
<1>18. QED
  BY NextCases, <1>1, <1>2, <1>3, <1>4, <1>5, <1>6, <1>7, <1>8, <1>9, <1>10, <1>11, <1>12, <1>13, <1>14, <1>15, <1>16, <1>17

\* Every step keeps content behind its span: a flush decides spans first, and a
\* crash that takes a span takes its buffered events too.
LEMMA ContentStep == IInv /\ [Next]_vars => ContentOrder'
<1> SUFFICES ASSUME IInv, [Next]_vars PROVE ContentOrder'
  OBVIOUS
<1>a. /\ AccountedIn("spans") /\ AccountedIn("span_events") /\ Distinct
      /\ AccountedIn("spans")' /\ AccountedIn("span_events")'
  BY AccountedStep, AccountedParts DEF IInv, Tables, AccountedIn, Accounted
<1>b. \A p \in Posts : HasRows("span_events", p) => HasRows("spans", p)
  BY RowsAssumption DEF HasRows, Posts
<1>c. ASSUME writer = "span_events"
      PROVE  buf["span_events"] \subseteq stored["spans"] \cup dropped["spans"]
  BY <1>a, <1>b, <1>c DEF IInv, TypeOK, ShutdownOrder, ContentOrder, AccountedIn, Tables
<1>i. TypeOK /\ ShutdownOrder /\ ContentOrder
  BY DEF IInv
<1> USE <1>i DEF TypeOK, Tables, NoPosts
<1>1. ASSUME NEW p \in Posts, Send(p)
      PROVE  ContentOrder'
  BY <1>1 DEF Send, ContentOrder, SpanBeforeContent
<1>2. ASSUME NEW p \in Posts, Disconnect(p)
      PROVE  ContentOrder'
  BY <1>2 DEF Disconnect, ContentOrder, SpanBeforeContent
<1>3. ASSUME NEW p \in Posts, Handle(p), Refuse(p)
      PROVE  ContentOrder'
  BY <1>3 DEF Handle, Refuse, Answer, ContentOrder, SpanBeforeContent
<1>4. ASSUME NEW p \in Posts, Handle(p), AckEmpty(p)
      PROVE  ContentOrder'
  BY <1>4 DEF Handle, AckEmpty, Answer, ContentOrder, SpanBeforeContent
<1>5. ASSUME NEW p \in Posts, Handle(p), EnqueueOk(p)
      PROVE  ContentOrder'
  BY <1>5 DEF Handle, EnqueueOk, Answer, ContentOrder, SpanBeforeContent
<1>6. ASSUME NEW p \in Posts, Handle(p), EnqueueRejected(p)
      PROVE  ContentOrder'
  BY <1>6 DEF Handle, EnqueueRejected, Answer, ContentOrder, SpanBeforeContent
<1>7. CASE Receive
  <2> DEFINE p == Head(channel)
  <2>1. p \in Posts /\ p \in Queued
    BY <1>7, <1>a, TailDistinct DEF Receive, Queued, Distinct
  <2>2. \A t \in Tables : buf'[t] = IF HasRows(t, p) THEN buf[t] \cup {p} ELSE buf[t]
    BY <1>7 DEF Receive
  <2>3. writer = "select" /\ writer' \in {"select", "spans"}
        /\ UNCHANGED <<stored, dropped, lost>>
    BY <1>7 DEF Receive
  <2> HIDE DEF p
  <2>4. \A q \in buf["span_events"] : q \in Posts /\ HasRows("span_events", q)
    BY <1>a DEF AccountedIn
  <2>5. buf["span_events"] \subseteq buf["spans"]
    BY <2>3, <2>4 DEF ContentOrder, SpanBeforeContent
  <2>6. buf'["span_events"] \subseteq buf'["spans"]
    BY <1>b, <2>1, <2>2, <2>5
  <2>7. lost["spans"] \cap Queued = {}
    BY <1>a DEF AccountedIn
  <2>8. lost'["spans"] \cap buf'["span_events"] = {}
    BY <2>1, <2>2, <2>3, <2>7 DEF ContentOrder
  <2>9. QED
    BY <2>3, <2>6, <2>8 DEF ContentOrder, SpanBeforeContent
<1>8. CASE Tick
  BY <1>a, <1>8 DEF Tick, ContentOrder, SpanBeforeContent, AccountedIn
<1>9. CASE Drain
  BY <1>a, <1>9 DEF Drain, ContentOrder, SpanBeforeContent, AccountedIn
<1>10. ASSUME NEW t \in Tables, InsertOk(t)
      PROVE  ContentOrder'
  BY <1>a, <1>b, <1>c, <1>10 DEF InsertOk, AfterInsert, ContentOrder, SpanBeforeContent, AccountedIn
<1>11. ASSUME NEW t \in Tables, InsertErr(t)
      PROVE  ContentOrder'
  BY <1>a, <1>b, <1>c, <1>11 DEF InsertErr, AfterInsert, ContentOrder, SpanBeforeContent, AccountedIn
<1>12. CASE Signal
  BY <1>12 DEF Signal, ContentOrder, SpanBeforeContent
<1>13. CASE ServeReturns
  BY <1>13 DEF ServeReturns, Inflight, ContentOrder, SpanBeforeContent
<1>14. CASE Exit
  BY <1>14 DEF Exit, ContentOrder, SpanBeforeContent
<1>15. CASE Crash
  <2>1. writer' = "stopped" /\ buf'["span_events"] = {} /\ dropped' = dropped
    BY <1>15 DEF Crash
  <2>2. stored["spans"] \subseteq stored'["spans"]
    BY <1>15 DEF Crash
  <2>3. stored'["span_events"] = stored["span_events"]
        \/ /\ writer = "span_events"
           /\ stored'["span_events"] = stored["span_events"] \cup buf["span_events"]
    BY <1>15 DEF Crash
  <2>4. QED
    BY <1>c, <2>1, <2>2, <2>3 DEF ContentOrder, SpanBeforeContent
<1>16. CASE Restart
  BY <1>16 DEF Restart, ContentOrder, SpanBeforeContent, ShutdownOrder
<1>17. CASE UNCHANGED vars
  BY <1>17 DEF vars, ContentOrder, SpanBeforeContent
<1>18. QED
  BY NextCases, <1>1, <1>2, <1>3, <1>4, <1>5, <1>6, <1>7, <1>8, <1>9, <1>10, <1>11, <1>12, <1>13, <1>14, <1>15, <1>16, <1>17

\* The invariant holds initially.
LEMMA InitIInv == Init => IInv
<1> SUFFICES ASSUME Init PROVE IInv
  OBVIOUS
<1> USE DEF Init, NoPosts
<1>1. TypeOK
  <2>1. channel \in Seq(Posts)
    OBVIOUS
  <2>2. failures \in 0 .. MaxFailures /\ crashes \in 0 .. MaxCrashes
    BY BoundsAssumption
  <2>3. reply \in [Posts -> Replies]
    BY DEF Replies
  <2>4. QED
    BY <2>1, <2>2, <2>3 DEF TypeOK, Tables
<1>2. Queued = {} /\ DOMAIN channel = {}
  BY DEF Queued
<1>3. Accounted
  BY <1>2 DEF Accounted
<1>4. ShutdownOrder
  BY DEF ShutdownOrder
<1>5. ReplyMeaning
  <2>1. \A r \in Requests, n \in 1 .. MaxAttempts : reply[<<r, n>>] = "unsent"
    BY DEF Posts
  <2>2. QED
    BY <2>1 DEF ReplyMeaning
<1>6. WriterOutlivesHandlers
  BY DEF WriterOutlivesHandlers
<1>7. ContentOrder
  BY DEF ContentOrder, SpanBeforeContent, Tables
<1>8. QED
  BY <1>1, <1>3, <1>4, <1>5, <1>6, <1>7 DEF IInv

\* Every step preserves the invariant.
LEMMA StepIInv == IInv /\ [Next]_vars => IInv'
BY TypeStep, AccountedStep, ShutdownStep, ReplyStep, ContentStep DEF IInv

\* The inductive invariant holds in every reachable state, for every set of
\* requests, channel capacity, batch size and number of failures and crashes.
THEOREM Invariance == Spec => []IInv
BY InitIInv, StepIInv, PTL DEF Spec

\* Type correctness of the collector's state.
THEOREM TypeCorrect == Spec => []TypeOK
<1>1. IInv => TypeOK
  BY DEF IInv
<1>2. QED
  BY <1>1, Invariance, PTL

\* Row accounting: no accepted row is forgotten, invented or inserted twice,
\* through any interleaving of handlers, flushes, failures, stops and crashes.
THEOREM RowsAccounted == Spec => []Accounted
<1>1. IInv => Accounted
  BY DEF IInv
<1>2. QED
  BY <1>1, Invariance, PTL

\* No client is answered 503 by a closed channel: the writer outlives handlers.
THEOREM NeverClosed == Spec => []WriterOutlivesHandlers
<1>1. IInv => WriterOutlivesHandlers
  BY DEF IInv
<1>2. QED
  BY <1>1, Invariance, PTL

\* A graceful stop leaves nothing behind in memory.
THEOREM GracefulStopDrains == Spec => []DrainedOnExit
<1>1. IInv => DrainedOnExit
  BY DEF IInv, ShutdownOrder, DrainedOnExit
<1>2. QED
  BY <1>1, Invariance, PTL

\* Retrying after a 429 or 503 cannot duplicate rows.
THEOREM RetrySafety == Spec => []RetriesDoNotDuplicate
<1>1. IInv => RetriesDoNotDuplicate
  <2> SUFFICES ASSUME IInv,
                      NEW r \in Requests, NEW m \in 1 .. MaxAttempts,
                      NEW n \in 1 .. MaxAttempts, m < n,
                      <<r, m>> \in accepted, <<r, n>> \in accepted
               PROVE  reply[<<r, m>>] = "none"
    BY DEF RetriesDoNotDuplicate
  <2>1. reply[<<r, n>>] # "unsent" /\ reply[<<r, m>>] \in {"ok", "none"}
    BY DEF IInv, ReplyMeaning
  <2>2. reply[<<r, m>>] \in Retryable
    BY <2>1 DEF IInv, ReplyMeaning
  <2>3. QED
    BY <2>1, <2>2 DEF Retryable
<1>2. QED
  BY <1>1, Invariance, PTL

\* Content rows are never decided before the rows of their span.
THEOREM ContentFollowsSpan == Spec => []SpanBeforeContent
<1>1. IInv => SpanBeforeContent
  BY DEF IInv, ContentOrder
<1>2. QED
  BY <1>1, Invariance, PTL

--------------------------------------------------------------------------------
\* RowsIn over a finite set of posts: nothing is 0, and any sum is a number.
LEMMA RowsInSum ==
    ASSUME NEW t \in Tables, NEW S \in SUBSET Posts, IsFiniteSet(S)
    PROVE  RowsIn(t, S) \in Nat /\ (S = {} => RowsIn(t, S) = 0)
<1> DEFINE w == [p \in S |-> RowCount[t][p[1]]]
           Body(iter) == [s \in SUBSET S |-> IF s = {} THEN 0
                             ELSE RowCount[t][(CHOOSE x \in s : TRUE)[1]]
                                  + iter[s \ {CHOOSE x \in s : TRUE}]]
           sum == CHOOSE iter : iter = Body(iter)
<1>1. w \in [S -> Nat]
  BY RowsAssumption DEF Posts
<1>2. PICK g \in [SUBSET S -> Nat] : SumsUp(g, S, w)
  <2>. HIDE DEF w
  <2>. QED
    BY <1>1, SumExists
<1>3. \A s \in SUBSET S : s # {} => Chosen(s) \in S
  BY DEF Chosen
<1>4. g = Body(g)
  <2>1. ASSUME NEW s \in SUBSET S
        PROVE  g[s] = IF s = {} THEN 0
                      ELSE RowCount[t][(CHOOSE x \in s : TRUE)[1]]
                           + g[s \ {CHOOSE x \in s : TRUE}]
    BY <1>2, <1>3 DEF SumsUp, Chosen
  <2>. QED
    BY <1>2, <2>1
<1>5. sum = Body(sum)
  <2>. HIDE DEF Body
  <2>. QED
    BY <1>4
<1>6. \A s \in SUBSET S : sum[s] = IF s = {} THEN 0
                             ELSE RowCount[t][(CHOOSE x \in s : TRUE)[1]]
                                  + sum[s \ {CHOOSE x \in s : TRUE}]
  <2>. HIDE DEF sum
  <2>. QED
    BY <1>5
<1>7. RowsIn(t, S) = sum[S]
  BY DEF sum, RowsIn, MapThenSumSet, MapThenFoldSet
<1>. HIDE DEF sum
<1>8. SumsUp(sum, S, w)
  BY <1>3, <1>6 DEF SumsUp, Chosen
<1>9. Sums(sum, S, w)
  <2>. HIDE DEF w, Body
  <2>. QED
    BY <1>1, <1>8, SumIsSum
<1>. QED
  BY <1>7, <1>9 DEF Sums

\* What bounds memory: a buffer is a finite set of posts, and the writer waits for
\* more only while it is below the limit.
MemoryInv ==
    /\ MemoryBounded
    /\ \A t \in Tables : IsFiniteSet(buf[t])

\* An empty buffer is below any limit.
LEMMA EmptyBelow == ASSUME MaxRows > 0, NEW t \in Tables PROVE RowsIn(t, {}) < MaxRows
BY RowsInSum, FS_EmptySet, BoundsAssumption

LEMMA MemoryInit == Init => MemoryInv
<1>. SUFFICES ASSUME Init PROVE MemoryInv
  OBVIOUS
<1>1. Len(channel) <= Capacity
  BY BoundsAssumption DEF Init
<1>2. \A t \in Tables : buf[t] = {}
  BY DEF Init, NoPosts
<1>3. MaxRows > 0 => \A t \in Tables : RowsIn(t, buf[t]) < MaxRows
  BY <1>2, EmptyBelow
<1>. QED
  BY <1>1, <1>2, <1>3, FS_EmptySet DEF MemoryInv, MemoryBounded

LEMMA MemoryStep == IInv /\ MemoryInv /\ [Next]_vars => MemoryInv'
<1>. SUFFICES ASSUME IInv, MemoryInv, [Next]_vars PROVE MemoryInv'
  OBVIOUS
<1>a. /\ TypeOK /\ ShutdownOrder /\ channel \in Seq(Posts)
      /\ Capacity \in Nat /\ MaxRows \in Nat
  BY BoundsAssumption DEF IInv, TypeOK
\* A step that fills nothing and does not go back to waiting.
<1>b. ASSUME Len(channel') <= Capacity, UNCHANGED buf,
             writer' = "select" => writer = "select"
      PROVE  MemoryInv'
  BY <1>b DEF MemoryInv, MemoryBounded
\* A step that empties both buffers, or finds them empty.
<1>c. ASSUME Len(channel') <= Capacity, \A t \in Tables : buf'[t] = {}
      PROVE  MemoryInv'
  BY <1>c, EmptyBelow, FS_EmptySet DEF MemoryInv, MemoryBounded
<1>0. Len(channel) <= Capacity /\ \A t \in Tables : IsFiniteSet(buf[t])
  BY DEF MemoryInv, MemoryBounded
<1>1. ASSUME UNCHANGED <<channel, buf>>, writer' = writer \/ writer' # "select"
      PROVE  MemoryInv'
  BY <1>0, <1>1, <1>b
<1>2. ASSUME NEW p \in Posts, Handle(p) /\ EnqueueOk(p) PROVE MemoryInv'
  <2>1. Len(channel') = Len(channel) + 1 /\ Len(channel) < Capacity
    BY <1>2, <1>a DEF EnqueueOk
  <2>2. UNCHANGED <<buf, writer>>
    BY <1>2 DEF Handle
  <2>. QED
    BY <2>1, <2>2, <1>a, <1>b
<1>3. CASE Receive
  <2> DEFINE p == Head(channel)
  <2>1. /\ channel # <<>> /\ channel' = Tail(channel) /\ p \in Posts
        /\ buf' = [t \in Tables |-> IF HasRows(t, p) THEN buf[t] \cup {p} ELSE buf[t]]
        /\ writer' = IF \E t \in Tables : RowsIn(t, buf'[t]) >= MaxRows
                     THEN "spans" ELSE "select"
    BY <1>3, <1>a DEF Receive
  <2>2. Len(channel') <= Capacity
    BY <2>1, <1>0, <1>a
  <2>. HIDE DEF p
  <2>3. \A t \in Tables : buf'[t] \in SUBSET Posts /\ IsFiniteSet(buf'[t])
    <3>. SUFFICES ASSUME NEW t \in Tables PROVE buf'[t] \in SUBSET Posts /\ IsFiniteSet(buf'[t])
      OBVIOUS
    <3>1. buf'[t] = buf[t] \cup {p} \/ buf'[t] = buf[t]
      BY <2>1
    <3>2. buf[t] \in SUBSET Posts
      BY <1>a DEF TypeOK
    <3>. QED
      BY <3>1, <3>2, <2>1, <1>0, FS_AddElement
  <2>4. \A t \in Tables : RowsIn(t, buf'[t]) \in Nat
    BY <2>3, RowsInSum
  <2>5. ASSUME writer' = "select", NEW t \in Tables
        PROVE  RowsIn(t, buf'[t]) < MaxRows
    <3>1. ~ RowsIn(t, buf'[t]) >= MaxRows
      BY <2>1, <2>5
    <3>. QED
      BY <3>1, <2>4, <1>a
  <2>. QED
    BY <2>2, <2>3, <2>5 DEF MemoryInv, MemoryBounded
<1>4. ASSUME NEW t \in Tables, InsertOk(t) \/ InsertErr(t) PROVE MemoryInv'
  <2>1. /\ writer = t /\ UNCHANGED channel
        /\ buf' = [buf EXCEPT ![t] = {}]
        /\ writer' = "select" => t = "span_events"
    BY <1>4 DEF InsertOk, InsertErr, AfterInsert, Tables
  <2>2. CASE t = "span_events"
    <3>1. \A u \in Tables : buf'[u] = {}
      BY <2>1, <2>2, <1>a DEF ShutdownOrder, Tables, TypeOK
    <3>. QED
      BY <3>1, <2>1, <1>0, <1>c
  <2>3. CASE t # "span_events"
    <3>1. \A u \in Tables : buf'[u] = {} \/ buf'[u] = buf[u]
      BY <2>1, <1>a DEF TypeOK
    <3>2. \A u \in Tables : IsFiniteSet(buf'[u])
      BY <3>1, <1>0, FS_EmptySet
    <3>. QED
      BY <3>2, <2>1, <2>3, <1>0 DEF MemoryInv, MemoryBounded
  <2>. QED
    BY <2>2, <2>3
<1>5. CASE Crash
  <2>1. channel' = <<>> /\ buf' = NoPosts
    BY <1>5 DEF Crash
  <2>. QED
    BY <2>1, <1>a, <1>c DEF NoPosts
<1>6. CASE Restart
  <2>1. UNCHANGED <<channel, buf>> /\ buf = NoPosts
    BY <1>6, <1>a DEF Restart, ShutdownOrder
  <2>. QED
    BY <2>1, <1>0, <1>c DEF NoPosts
<1>7. CASE \/ \E p \in Posts : Send(p) \/ Disconnect(p)
           \/ \E p \in Posts : Handle(p) /\ (Refuse(p) \/ AckEmpty(p) \/ EnqueueRejected(p))
           \/ Tick \/ Drain \/ Signal \/ ServeReturns \/ Exit \/ UNCHANGED vars
  <2>1. UNCHANGED <<channel, buf>> /\ (writer' = writer \/ writer' # "select")
    BY <1>7 DEF Send, Disconnect, Handle, Refuse, AckEmpty, EnqueueRejected, Tick, Drain,
                Signal, ServeReturns, Exit, vars
  <2>. QED
    BY <2>1, <1>1
<1>. QED
  BY <1>2, <1>3, <1>4, <1>5, <1>6, <1>7, NextCases

\* Memory stays bounded: between flushes each buffer is below MaxRows and the channel
\* within its capacity, for any requests, rows, failures and crashes.
THEOREM MemoryIsBounded == Spec => []MemoryBounded
<1>1. MemoryInv => MemoryBounded
  BY DEF MemoryInv
<1>. QED
  BY <1>1, MemoryInit, MemoryStep, Invariance, PTL DEF Spec

--------------------------------------------------------------------------------
\* Outside EnqueueOk nothing is accepted, and what has been decided stays so.
LEMMA DecisionsStand ==
    ASSUME TypeOK, [Next]_vars, ~ \E p \in Posts : EnqueueOk(p)
    PROVE  /\ accepted' = accepted
           /\ \A t \in Tables : /\ stored[t] \subseteq stored'[t]
                               /\ dropped[t] \subseteq dropped'[t]
                               /\ lost[t] \subseteq lost'[t]
<1> USE DEF TypeOK
<1>1. CASE UNCHANGED vars
  BY <1>1 DEF vars
<1>2. CASE \E p \in Posts : Send(p) \/ Disconnect(p)
  BY <1>2 DEF Send, Disconnect
<1>3. CASE \E p \in Posts : Handle(p)
  BY <1>3 DEF Handle, Refuse, AckEmpty, EnqueueRejected
<1>4. CASE Receive \/ Tick \/ Drain
  BY <1>4 DEF Receive, Tick, Drain
<1>5. CASE \E t \in Tables : InsertOk(t) \/ InsertErr(t)
  BY <1>5 DEF InsertOk, InsertErr
<1>6. CASE Signal \/ ServeReturns \/ Exit \/ Restart
  BY <1>6 DEF Signal, ServeReturns, Exit, Restart
<1>7. CASE Crash
  BY <1>7 DEF Crash
<1>8. QED
  BY <1>1, <1>2, <1>3, <1>4, <1>5, <1>6, <1>7 DEF Next, Writing

\* The state of a row read off the sets that account for it.
LEMMA RowStateIs ==
    ASSUME TypeOK, Accounted, NEW t \in Tables, NEW p \in Posts, HasRows(t, p)
    PROVE  /\ RowState(t, p) = "stored" <=> p \in stored[t]
           /\ RowState(t, p) = "gone" <=> p \in dropped[t] \cup lost[t]
           /\ RowState(t, p) = "absent" <=> p \notin accepted
           /\ RowState(t, p) \in {"absent", "held", "stored", "gone"}
BY AccountedParts DEF AccountedIn, RowState, Queued, TypeOK

\* The same after a step.
LEMMA RowStateIsNext ==
    ASSUME TypeOK', Accounted', NEW t \in Tables, NEW p \in Posts, HasRows(t, p)
    PROVE  /\ RowState(t, p)' = "stored" <=> p \in stored'[t]
           /\ RowState(t, p)' = "gone" <=> p \in dropped'[t] \cup lost'[t]
           /\ RowState(t, p)' = "absent" <=> p \notin accepted'
           /\ RowState(t, p)' \in {"absent", "held", "stored", "gone"}
<1>1. AccountedIn(t)'
  BY DEF AccountedIn, Accounted
<1>2. QED
  BY <1>1 DEF AccountedIn, RowState, Queued, TypeOK, HasRows

AllRows == UNION {PostRows(p) : p \in Posts}
RowMap  == [x \in AllRows |-> RowState(x[1], x[2])]

\* A row of the abstract state names its table and its post.
LEMMA RowsOfPosts ==
    /\ \A x \in AllRows : x[1] \in Tables /\ x[2] \in Posts /\ HasRows(x[1], x[2])
    /\ \A x \in AllRows, p \in Posts : x \in PostRows(p) <=> x[2] = p
    /\ \A p \in Posts : PostRows(p) \subseteq AllRows
BY DEF AllRows, PostRows

\* The channel taking a post is Ingest's Take.
LEMMA EnqueueTakes ==
    ASSUME IInv, IInv', NEW p \in Posts, EnqueueOk(p), UNCHANGED <<buf, stored, dropped, lost>>
    PROVE  /\ \A x \in PostRows(p) : RowMap[x] = "absent"
           /\ RowMap' = [x \in AllRows |-> IF x \in PostRows(p) THEN "held" ELSE RowMap[x]]
<1>1. p \notin accepted /\ accepted' = accepted \cup {p}
  BY DEF EnqueueOk, IInv, ReplyMeaning
<1>2. ASSUME NEW x \in AllRows, x[2] = p
      PROVE  RowState(x[1], x[2]) = "absent" /\ RowState(x[1], x[2])' = "held"
  <2>1. x[1] \in Tables /\ HasRows(x[1], p)
    BY <1>2, RowsOfPosts
  <2>2. RowState(x[1], p) = "absent"
    BY <1>1, <2>1, RowStateIs DEF IInv
  <2>3. p \notin stored[x[1]] /\ p \notin dropped[x[1]] \cup lost[x[1]]
    BY <2>2, <2>1, RowStateIs DEF IInv
  <2>4. /\ RowState(x[1], p)' # "stored"
        /\ RowState(x[1], p)' # "gone"
        /\ RowState(x[1], p)' # "absent"
        /\ RowState(x[1], p)' \in {"absent", "held", "stored", "gone"}
    BY <1>1, <2>1, <2>3, RowStateIsNext DEF IInv
  <2>5. QED
    BY <1>2, <2>2, <2>4
<1>3. ASSUME NEW x \in AllRows, x[2] # p
      PROVE  RowState(x[1], x[2])' = RowState(x[1], x[2])
  <2>1. x[1] \in Tables /\ HasRows(x[1], x[2]) /\ x[2] \in Posts
    BY RowsOfPosts
  <2>2. /\ x[2] \in accepted' <=> x[2] \in accepted
        /\ stored'[x[1]] = stored[x[1]] /\ dropped'[x[1]] = dropped[x[1]]
        /\ lost'[x[1]] = lost[x[1]]
    BY <1>1, <1>3
  <2>3. /\ RowState(x[1], x[2])' = "stored" <=> RowState(x[1], x[2]) = "stored"
        /\ RowState(x[1], x[2])' = "gone" <=> RowState(x[1], x[2]) = "gone"
        /\ RowState(x[1], x[2])' = "absent" <=> RowState(x[1], x[2]) = "absent"
        /\ RowState(x[1], x[2])' \in {"absent", "held", "stored", "gone"}
        /\ RowState(x[1], x[2]) \in {"absent", "held", "stored", "gone"}
    BY <2>1, <2>2, RowStateIs, RowStateIsNext DEF IInv
  <2>4. QED
    BY <2>3
<1>4. QED
  BY <1>2, <1>3, RowsOfPosts DEF RowMap

\* Any other step settles some of the rows that were held, or none.
LEMMA OtherStepsSettle ==
    ASSUME IInv, IInv', [Next]_vars, ~ \E p \in Posts : EnqueueOk(p)
    PROVE  \A x \in AllRows :
               \/ RowMap'[x] = RowMap[x]
               \/ RowMap[x] = "held" /\ RowMap'[x] \in {"stored", "gone"}
<1> SUFFICES ASSUME NEW t \in Tables, NEW p \in Posts, HasRows(t, p)
             PROVE  \/ RowState(t, p)' = RowState(t, p)
                    \/ RowState(t, p) = "held" /\ RowState(t, p)' \in {"stored", "gone"}
  BY RowsOfPosts DEF RowMap
<1>1. /\ accepted' = accepted
      /\ stored[t] \subseteq stored'[t] /\ dropped[t] \subseteq dropped'[t]
      /\ lost[t] \subseteq lost'[t]
  BY DecisionsStand DEF IInv
<1>2. /\ RowState(t, p) = "stored" => RowState(t, p)' = "stored"
      /\ RowState(t, p) = "gone" => RowState(t, p)' = "gone"
      /\ RowState(t, p) = "absent" <=> RowState(t, p)' = "absent"
      /\ RowState(t, p) \in {"absent", "held", "stored", "gone"}
      /\ RowState(t, p)' \in {"absent", "held", "stored", "gone"}
  BY <1>1, RowStateIs, RowStateIsNext DEF IInv
<1>3. QED
  BY <1>2

\* Refinement: the collector is an at-most-once delivery of rows.  Every accepted
\* row is held until one insert or one loss settles it for good.
THEOREM Refinement == Spec => ImplementsIngest
<1>1. Init => Abstract!Init
  <2> SUFFICES ASSUME Init PROVE Abstract!Init
    OBVIOUS
  <2>1. \A x \in AllRows : RowState(x[1], x[2]) = "absent"
    BY RowsOfPosts DEF Init, RowState, Queued, NoPosts
  <2>2. QED
    BY <2>1 DEF Abstract!Init, Abstract!Rows, AllRows
<1>2. IInv /\ IInv' /\ [Next]_vars => [Abstract!Next]_RowMap
  <2> SUFFICES ASSUME IInv, IInv', [Next]_vars PROVE [Abstract!Next]_RowMap
    OBVIOUS
  <2>1. CASE \E p \in Posts : EnqueueOk(p)
    <3>1. PICK p \in Posts : EnqueueOk(p)
      BY <2>1
    <3>2. UNCHANGED <<buf, stored, dropped, lost>>
      <4>1. accepted' # accepted
        BY <3>1 DEF EnqueueOk, IInv, ReplyMeaning
      <4>2. \E q \in Posts : Handle(q)
        BY <4>1 DEF Next, Writing, vars, Send, Disconnect, Receive, Tick, Drain,
                    InsertOk, InsertErr, Signal, ServeReturns, Exit, Crash, Restart
      <4>3. QED
        BY <4>2 DEF Handle
    <3>3. /\ \A x \in PostRows(p) : RowMap[x] = "absent"
          /\ RowMap' = [x \in AllRows |-> IF x \in PostRows(p) THEN "held" ELSE RowMap[x]]
      BY <3>1, <3>2, EnqueueTakes
    <3>4. Abstract!Take(p)
      BY <3>3 DEF Abstract!Take, Abstract!Rows, AllRows, RowMap
    <3>5. QED
      BY <3>4 DEF Abstract!Next
  <2>2. CASE ~ \E p \in Posts : EnqueueOk(p)
    <3> DEFINE held == {x \in AllRows : RowMap[x] = "held"}
               S    == {x \in held : RowMap'[x] = "stored"}
               G    == {x \in held : RowMap'[x] = "gone"}
    <3>1. \A x \in AllRows : \/ RowMap'[x] = RowMap[x]
                             \/ RowMap[x] = "held" /\ RowMap'[x] \in {"stored", "gone"}
      BY <2>2, OtherStepsSettle
    <3>2. RowMap' = [x \in AllRows |-> IF x \in S THEN "stored"
                                       ELSE IF x \in G THEN "gone" ELSE RowMap[x]]
      <4>1. ASSUME NEW x \in AllRows
            PROVE  RowMap'[x] = IF x \in S THEN "stored"
                                ELSE IF x \in G THEN "gone" ELSE RowMap[x]
        BY <3>1
      <4>2. RowMap' = [x \in AllRows |-> RowMap'[x]]
        BY DEF RowMap
      <4>3. QED
        BY <4>1, <4>2
    <3>3. S \in SUBSET held /\ G \in SUBSET held /\ S \cap G = {}
      OBVIOUS
    <3>4. Abstract!Settle
      BY <3>2, <3>3 DEF Abstract!Settle, Abstract!Rows, AllRows, RowMap
    <3>5. QED
      BY <3>4 DEF Abstract!Next
  <2>3. QED
    BY <2>1, <2>2
<1>3. QED
  BY <1>1, <1>2, Invariance, PTL
      DEF Spec, ImplementsIngest, Abstract!Spec, RowMap, AllRows
================================================================================
