--------------------------- MODULE AdminHIDProofs ---------------------------
(***************************************************************************)
(* Proofs about AdminHID: its types, what may be on a connection, what a   *)
(* fault costs, and that it implements HIDChannel.                         *)
(***************************************************************************)
EXTENDS AdminHID, TLAPS

Busy(c)  == pc[c] # "idle"
Empty(s) == requests[s] = <<>> /\ answers[s] = <<>> /\ task[s] = NoTask

(* At most one caller is in Post, with the newest post. *)
Serial ==
    /\ \A c, d \in Callers : Busy(c) /\ Busy(d) => c = d
    /\ \A c \in Callers : Busy(c) =>
          /\ post[c] = begun /\ begun \in Posts
          /\ result[begun] = "none"
          /\ socket = None <=> pc[c] = "connect"
          /\ pc[c] \in {"connect", "write"} => applied[begun] = 0
          /\ pc[c] = "connect" => Empty(begun)

(* Posts that have not been made have left no trace. *)
Unmade ==
    /\ socket <= begun
    /\ \A n \in Posts : n > begun =>
          result[n] = "none" /\ applied[n] = 0 /\ Empty(n)

(* The stages of an exchange on the connection in use. *)
Exchange(s) ==
    \/ Empty(s) /\ ~open[s]
    \/ requests[s] = <<begun>> /\ answers[s] = <<>> /\ task[s] = NoTask
    \/ /\ requests[s] = <<>> /\ answers[s] = <<>> /\ task[s].to = begun
       /\ task[s].status => applied[begun] = 1
    \/ /\ requests[s] = <<>> /\ answers[s] # <<>> /\ task[s] = NoTask
       /\ Head(answers[s]).status => applied[begun] = 1

Ready == \A c \in Callers : pc[c] = "write" => Empty(socket)
Going == \A c \in Callers : pc[c] = "read" => Exchange(socket)

InUse == NothingOutstanding /\ Ready /\ Going

(* A whole request that is still to be read. *)
Holds(s, n) == n \in Posts /\ requests[s] = <<n>>

(* What is left on connections that were closed: nobody waits for it, and  *)
(* no post is on its way twice, or again.                                  *)
Silent == \A s \in Posts : s # socket => answers[s] = <<>>
Taken  == \A s \in Posts : task[s] # NoTask => requests[s] = <<>>
Held   == \A s, n \in Posts : Holds(s, n) =>
             /\ applied[n] = 0
             /\ \/ result[n] = "failed"
                \/ s = socket /\ n = begun /\ \E c \in Callers : pc[c] = "read"
Unique == \A s, t, n \in Posts : Holds(s, n) /\ Holds(t, n) => s = t

Leftover == Silent /\ Taken /\ Held /\ Unique

(* The connection in use will cost a post: because of what it is answered, *)
(* or because it has been closed and will be kept.                         *)
Refusing(s) == \/ answers[s] # <<>> /\ ~(Head(answers[s]).valid /\ Head(answers[s]).status)
               \/ task[s] # NoTask /\ ~task[s].status
Dead(s)     == /\ ~open[s]
               /\ answers[s] # <<>> => Head(answers[s]).valid /\ ~Head(answers[s]).close

Cost == IF socket = None THEN 0
        ELSE (IF Refusing(socket) THEN 1 ELSE 0) + (IF Dead(socket) THEN 1 ELSE 0)

Budget == lost + Cost <= faults

IInv == TypeOK /\ Serial /\ Unmade /\ InUse /\ Leftover /\ Budget

-----------------------------------------------------------------------------
(* Short sequences. *)

LEMMA Short ==
    ASSUME NEW x
    PROVE  /\ Append(<<>>, x) = <<x>> /\ Head(<<x>>) = x /\ Tail(<<x>>) = <<>>
           /\ <<x>> # <<>> /\ Len(<<x>>) = 1 /\ <<x>>[1] = x
OBVIOUS

LEMMA One ==
    ASSUME NEW S, NEW q \in AtMostOne(S), q # <<>>
    PROVE  /\ Head(q) \in S /\ q = <<Head(q)>> /\ Tail(q) = <<>>
<1>1. PICK x \in S : q = <<x>>
  BY DEF AtMostOne
<1>2. QED
  BY <1>1, Short

LEMMA Single ==
    ASSUME NEW S
    PROVE  /\ <<>> \in AtMostOne(S)
           /\ \A x \in S : <<x>> \in AtMostOne(S) /\ Append(<<>>, x) \in AtMostOne(S)
BY DEF AtMostOne

(* The caller that is in Post. *)
LEMMA Current ==
    ASSUME IInv, NEW c \in Callers, Busy(c)
    PROVE  /\ post[c] = begun /\ begun \in Posts /\ result[begun] = "none"
           /\ socket = None <=> pc[c] = "connect"
           /\ socket # None => socket \in Posts
           /\ \A d \in Callers : Busy(d) => d = c
BY DEF IInv, TypeOK, Serial, Busy


(* A request that the core is about to read. *)
LEMMA Arrived ==
    ASSUME IInv, NEW s \in Posts, Reading(s)
    PROVE  \E n \in Posts :
              /\ requests[s] = <<n>> /\ Head(requests[s]) = n
              /\ Tail(requests[s]) = <<>> /\ Holds(s, n)
              /\ applied[n] = 0 /\ n <= begun /\ s <= begun
              /\ s # socket => result[n] = "failed"
              /\ s = socket => n = begun /\ \E c \in Callers : pc[c] = "read"
<1>1. PICK n \in Posts \cup {Part} : requests[s] = <<n>>
  BY DEF IInv, TypeOK, AtMostOne, Reading
<1>2. Head(requests[s]) = n /\ Tail(requests[s]) = <<>>
  BY <1>1, Short
<1>3. n \in Posts /\ Holds(s, n)
  BY <1>1, <1>2 DEF Reading, Holds, Part, Posts
<1>4. applied[n] = 0 /\ (s # socket => result[n] = "failed")
  BY <1>3 DEF IInv, Leftover, Held
<1>5. ~(s > begun)
  BY <1>1, Short DEF IInv, Unmade, Empty
<1>6. ASSUME s = socket
      PROVE  n = begun /\ \E c \in Callers : pc[c] = "read"
  <2>1. PICK c \in Callers : Busy(c)
    BY <1>1, <1>6, Short DEF IInv, InUse, NothingOutstanding, Free, Busy, None, Posts
  <2>2. pc[c] # "connect"
    BY <1>6, <2>1, Current DEF None, Posts
  <2>3. pc[c] # "write"
    BY <1>1, <1>6, Short DEF IInv, InUse, Ready, Empty
  <2>4. pc[c] = "read"
    BY <2>1, <2>2, <2>3 DEF IInv, TypeOK, Busy
  <2>5. requests[s] = <<begun>>
    BY <1>1, <1>6, <2>4, Short DEF IInv, InUse, Going, Exchange, Empty
  <2>6. QED
    BY <1>2, <2>4, <2>5, Short
<1>7. n <= begun
  BY <1>3, <1>4, <1>6 DEF IInv, Unmade, TypeOK, Posts
<1>8. QED
  BY <1>1, <1>2, <1>3, <1>4, <1>5, <1>6, <1>7 DEF IInv, TypeOK, Posts

(* The core works on something for the connection in use. *)
LEMMA Asked ==
    ASSUME IInv, socket \in Posts, task[socket] # NoTask
    PROVE  /\ requests[socket] = <<>> /\ answers[socket] = <<>>
           /\ task[socket].to = begun /\ begun \in Posts
           /\ task[socket].status => applied[begun] = 1
           /\ \E c \in Callers : pc[c] = "read"
<1>1. PICK c \in Callers : Busy(c)
  BY DEF IInv, InUse, NothingOutstanding, Free, Busy, None, Posts
<1>2. begun \in Posts /\ pc[c] # "connect"
  BY <1>1, Current DEF None, Posts
<1>3. pc[c] # "write"
  BY DEF IInv, InUse, Ready, Empty
<1>4. pc[c] = "read"
  BY <1>1, <1>2, <1>3 DEF IInv, TypeOK, Busy
<1>5. QED
  BY <1>2, <1>4 DEF IInv, InUse, Going, Exchange, Empty

(* Reading or losing requests keeps what is left. *)
LEMMA Fewer ==
    ASSUME IInv, \A s \in Posts : requests'[s] = requests[s] \/ requests'[s] = <<>>
    PROVE  Unique'
<1>1. \A s, n \in Posts : Holds(s, n)' => Holds(s, n)
  BY Short DEF Holds
<1>2. QED
  BY <1>1 DEF IInv, Leftover, Unique, Holds

(* A post fails and its connection ends. *)
LEMMA Dropped ==
    ASSUME IInv, NEW c \in Callers, Busy(c), Tell(c, "failed"), socket' = None,
           UNCHANGED <<open, answers, task, ended, applied>>,
           socket \in Posts => answers[socket] = <<>>,
           \/ requests' = requests
           \/ /\ socket \in Posts /\ Empty(socket)
              /\ requests' = [requests EXCEPT ![socket] = <<Part>>],
           faults' \in Nat, lost + 1 <= faults'
    PROVE  IInv'
<1>a. /\ post[c] = begun /\ begun \in Posts /\ socket <= begun
      /\ \A d \in Callers : pc[d] # "idle" => d = c
  BY Current DEF IInv, Unmade, Busy
<1>b. \A d \in Callers : pc'[d] = "idle"
  BY <1>a DEF Tell, IInv, TypeOK
<1>c. /\ result' = [result EXCEPT ![begun] = "failed"] /\ lost' = lost + 1
      /\ post' = post /\ begun' = begun /\ pc' = [pc EXCEPT ![c] = "idle"]
  BY <1>a DEF Tell
<1>d. ASSUME NEW t \in Posts, NEW n \in Posts, Holds(t, n)'
      PROVE  Holds(t, n)
  <2>1. CASE requests' = requests
    BY <1>d, <2>1 DEF Holds
  <2>2. CASE /\ socket \in Posts
             /\ requests' = [requests EXCEPT ![socket] = <<Part>>]
    <3>1. t # socket
      BY <1>d, <2>2, Short DEF Holds, Part, Posts, IInv, TypeOK
    <3>2. QED
      BY <1>d, <2>2, <3>1 DEF Holds, IInv, TypeOK
  <2>3. QED
    BY <2>1, <2>2
<1>1. TypeOK'
  <2>1. requests' \in [Posts -> AtMostOne(Posts \cup {Part})]
    <3>1. <<Part>> \in AtMostOne(Posts \cup {Part})
      BY Single
    <3>2. requests \in [Posts -> AtMostOne(Posts \cup {Part})]
      BY DEF IInv, TypeOK
    <3>3. QED
      BY <3>1, <3>2
  <2>2. /\ pc' \in [Callers -> {"idle", "connect", "write", "read"}]
        /\ result' \in [Posts -> {"none", "sent", "failed"}]
    BY <1>c DEF IInv, TypeOK
  <2>3. lost' \in Nat
    BY <1>c DEF IInv, TypeOK
  <2>4. QED
    BY <1>c, <2>1, <2>2, <2>3 DEF IInv, TypeOK
<1>2. Serial'
  BY <1>b DEF Serial, Busy
<1>3. Unmade'
  <2>1. ASSUME NEW n \in Posts, n > begun
        PROVE  requests'[n] = requests[n]
    <3>1. n # socket
      BY <1>a, <2>1 DEF IInv, TypeOK, Posts, None
    <3>2. QED
      BY <3>1 DEF IInv, TypeOK
  <2>2. \A n \in Posts : n > begun => result'[n] = result[n]
    BY <1>a, <1>c DEF IInv, TypeOK, Posts
  <2>3. QED
    BY <1>a, <1>c, <2>1, <2>2 DEF IInv, Unmade, Empty, None, Posts
<1>4. InUse'
  BY <1>b DEF InUse, NothingOutstanding, Ready, Going
<1>5. Silent' /\ Taken'
  BY <1>a DEF IInv, TypeOK, Leftover, Silent, Taken, Empty
<1>6. Held'
  BY <1>a, <1>c, <1>d DEF IInv, TypeOK, Leftover, Held
<1>7. Unique'
  BY <1>d DEF IInv, Leftover, Unique
<1>8. Budget'
  BY <1>c DEF Budget, Cost, IInv, TypeOK
<1>99. QED
  BY <1>1, <1>2, <1>3, <1>4, <1>5, <1>6, <1>7, <1>8 DEF IInv, Leftover

(* The connection in use has been closed by the core. *)
LEMMA Closed ==
    ASSUME IInv, socket \in Posts, ~open[socket], answers[socket] = <<>>
    PROVE  lost + 1 <= faults
<1>1. Dead(socket)
  BY DEF Dead
<1>2. Cost >= 1
  BY <1>1 DEF Cost, None, Posts
<1>3. Budget /\ lost \in Nat /\ faults \in Nat /\ Cost \in Nat
  BY DEF IInv, TypeOK, Cost
<1>4. QED
  BY <1>2, <1>3 DEF Budget

LEMMA BeginStep ==
    ASSUME IInv, NEW c \in Callers, Begin(c)
    PROVE  IInv'
<1>1. TypeOK'
  <2>1. begun + 1 \in Posts /\ begun' \in 0 .. MaxPosts
    BY AdminAssumption DEF Begin, IInv, TypeOK, Posts
  <2>2. /\ pc' \in [Callers -> {"idle", "connect", "write", "read"}]
        /\ post' \in [Callers -> Posts \cup {None}]
    BY <2>1 DEF Begin, IInv, TypeOK
  <2>3. QED
    BY <2>1, <2>2 DEF Begin, conn, IInv, TypeOK
<1>2. Serial'
  <2>1. begun + 1 \in Posts /\ begun \in Nat
    BY AdminAssumption DEF Begin, IInv, TypeOK, Posts
  <2>2. /\ result[begun + 1] = "none" /\ applied[begun + 1] = 0 /\ Empty(begun + 1)
    BY <2>1 DEF IInv, Unmade
  <2>3. \A d \in Callers : pc'[d] # "idle" => d = c
    BY DEF Begin, Free, IInv, TypeOK
  <2>4. /\ pc'[c] = (IF socket = None THEN "connect" ELSE "write")
        /\ post'[c] = begun + 1
    BY DEF Begin, IInv, TypeOK
  <2>5. UNCHANGED <<socket, requests, answers, task, applied, result>> /\ begun' = begun + 1
    BY DEF Begin, conn
  <2>6. \A d \in Callers : pc'[d] # "idle" =>
           /\ post'[d] = begun' /\ begun' \in Posts
           /\ result'[begun'] = "none"
           /\ socket' = None <=> pc'[d] = "connect"
           /\ applied'[begun'] = 0
    BY <2>1, <2>2, <2>3, <2>4, <2>5
  <2>7. \A d \in Callers : pc'[d] = "connect" => Empty(begun)'
    BY <2>2, <2>5 DEF Empty
  <2>8. QED
    BY <2>3, <2>6, <2>7 DEF Serial, Busy
<1>3. Unmade'
  BY DEF Begin, conn, Empty, IInv, TypeOK, Unmade, Posts, None
<1>4. NothingOutstanding'
  BY Current, AdminAssumption DEF Begin, Free, None, conn, IInv, TypeOK, InUse,
     NothingOutstanding
<1>5. Ready'
  <2>1. ASSUME socket # None
        PROVE  Empty(socket)
    BY <2>1 DEF Begin, IInv, InUse, NothingOutstanding, Empty
  <2>2. QED
    BY <2>1 DEF Begin, Free, conn, Ready, Empty, IInv, TypeOK
<1>6. Going'
  BY Current, AdminAssumption DEF Begin, Free, None, conn, IInv, TypeOK, InUse, Going,
     Exchange, Empty
<1>7. Silent'
  BY AdminAssumption DEF Begin, Free, None, conn, IInv, TypeOK, Leftover, Silent
<1>8. Taken'
  BY AdminAssumption DEF Begin, Free, None, conn, IInv, TypeOK, Leftover, Taken
<1>9. Held'
  BY Current, AdminAssumption DEF Begin, Free, None, conn, IInv, TypeOK, Leftover,
     Held, Holds
<1>10. Unique'
  BY Fewer DEF Begin, conn
<1>11. Budget'
  BY Current, AdminAssumption DEF Begin, Free, None, conn, IInv, TypeOK, Budget, Cost,
     Refusing, Dead
<1>99. QED
  BY <1>1, <1>2, <1>3, <1>4, <1>5, <1>6, <1>7, <1>8, <1>9, <1>10, <1>11 DEF IInv,
     InUse, Leftover

LEMMA ConnectStep ==
    ASSUME IInv, NEW c \in Callers, Connect(c)
    PROVE  IInv'
<1>a. /\ post[c] = begun /\ begun \in Posts /\ result[begun] = "none" /\ socket = None
      /\ applied[begun] = 0 /\ Empty(begun)
      /\ \A d \in Callers : pc[d] # "idle" => d = c
  BY Current DEF Connect, IInv, Serial, Busy
<1>b. /\ socket' = begun /\ open' = [open EXCEPT ![begun] = TRUE]
      /\ pc' = [pc EXCEPT ![c] = "write"]
      /\ UNCHANGED <<post, requests, answers, task, ended, applied, begun, result, lost, faults>>
  BY <1>a DEF Connect, told
<1>c. \A d \in Callers : IF d = c THEN pc'[d] = "write" ELSE pc'[d] = "idle"
  BY <1>a, <1>b DEF IInv, TypeOK
<1>d. Empty(begun)'
  BY <1>a, <1>b DEF Empty
<1>1. TypeOK'
  BY <1>a, <1>b DEF IInv, TypeOK
<1>2. Serial'
  BY <1>a, <1>b, <1>c DEF Serial, Busy, None, Posts, IInv, TypeOK
<1>3. Unmade'
  BY <1>a, <1>b DEF IInv, Unmade, TypeOK, Empty, Posts
<1>4. NothingOutstanding'
  BY <1>c DEF NothingOutstanding, Free
<1>5. Ready'
  BY <1>b, <1>d DEF Ready, Empty
<1>6. Going'
  BY <1>c DEF Going
<1>7. Silent' /\ Taken'
  BY <1>a, <1>b DEF IInv, TypeOK, Leftover, Silent, Taken, None, Posts
<1>8. Held'
  <2>1. ASSUME NEW t \in Posts, NEW n \in Posts, Holds(t, n)
        PROVE  applied[n] = 0 /\ result[n] = "failed"
    BY <1>a, <2>1 DEF IInv, Leftover, Held, None, Posts
  <2>2. QED
    BY <1>b, <2>1 DEF Held, Holds
<1>9. Unique'
  BY <1>b, Fewer
<1>10. Budget'
  <2>1. lost <= faults
    BY <1>a DEF IInv, Budget, Cost, TypeOK
  <2>2. Cost' = 0
    BY <1>a, <1>b DEF Cost, Refusing, Dead, Empty, IInv, TypeOK
  <2>3. QED
    BY <1>b, <2>1, <2>2 DEF Budget, IInv, TypeOK
<1>99. QED
  BY <1>1, <1>2, <1>3, <1>4, <1>5, <1>6, <1>7, <1>8, <1>9, <1>10 DEF IInv, InUse,
     Leftover

LEMMA ConnectFailsStep ==
    ASSUME IInv, NEW c \in Callers, ConnectFails(c)
    PROVE  IInv'
<1>1. socket = None /\ Busy(c)
  BY Current DEF ConnectFails, Busy
<1>2. faults' \in Nat /\ lost + 1 <= faults'
  BY <1>1 DEF ConnectFails, Fault, IInv, TypeOK, Budget, Cost
<1>3. QED
  BY <1>1, <1>2, Dropped DEF ConnectFails, conn, None, Posts

LEMMA WriteStep ==
    ASSUME IInv, NEW c \in Callers, Write(c)
    PROVE  IInv'
<1>a. /\ post[c] = begun /\ begun \in Posts /\ result[begun] = "none"
      /\ socket \in Posts /\ Empty(socket) /\ applied[begun] = 0
      /\ \A d \in Callers : pc[d] # "idle" => d = c
  BY Current DEF Write, IInv, InUse, Ready, Serial, Busy, None
<1>b. requests' = [requests EXCEPT ![socket] = <<begun>>]
  BY <1>a, Short DEF Write, Sent, Empty
<1>c. <<begun>> \in AtMostOne(Posts \cup {Part})
  BY <1>a, Single
<1>d. \A t \in Posts : ~Holds(t, begun)
  BY <1>a DEF Write, IInv, Leftover, Held
<1>1. TypeOK'
  <2>1. requests' \in [Posts -> AtMostOne(Posts \cup {Part})]
    BY <1>a, <1>b, <1>c DEF IInv, TypeOK
  <2>2. pc' \in [Callers -> {"idle", "connect", "write", "read"}]
    BY DEF Write, IInv, TypeOK
  <2>3. QED
    BY <2>1, <2>2 DEF Write, Sent, told, IInv, TypeOK
<1>2. Serial'
  BY <1>a, <1>b, <1>c, Current DEF Write, Sent, told, IInv, TypeOK, Serial, Busy, Empty
<1>3. Unmade'
  BY <1>a, <1>b, <1>c, Current DEF Write, Sent, told, IInv, TypeOK, Unmade, Empty
<1>4. NothingOutstanding'
  BY <1>a, <1>b, <1>c, Current, Short DEF Write, Sent, told, IInv, TypeOK, InUse,
     NothingOutstanding, Free
<1>5. Ready'
  BY <1>a, <1>b, <1>c, Current DEF Write, Sent, told, IInv, TypeOK, InUse, Ready, Empty
<1>6. Going'
  BY <1>a, <1>b DEF Write, Sent, told, Going, Exchange, Empty, IInv, TypeOK
<1>7. Silent'
  BY <1>a, <1>b, <1>c DEF Write, Sent, told, IInv, TypeOK, Leftover, Silent
<1>8. Taken'
  BY <1>a, <1>b DEF Write, Sent, Empty, IInv, TypeOK, Leftover, Taken
<1>9. Held'
  <2> SUFFICES ASSUME NEW t \in Posts, NEW n \in Posts, Holds(t, n)'
               PROVE  (/\ applied[n] = 0
                       /\ \/ result[n] = "failed"
                          \/ t = socket /\ n = begun /\ \E d \in Callers : pc[d] = "read")'
    BY DEF Held
  <2>1. CASE t = socket
    <3>1. n = begun
      BY <1>a, <1>b, <2>1, Short DEF Holds, IInv, TypeOK
    <3>2. pc'[c] = "read"
      BY DEF Write, IInv, TypeOK
    <3>3. QED
      BY <1>a, <2>1, <3>1, <3>2 DEF Write, told
  <2>2. CASE t # socket
    <3>1. Holds(t, n)
      BY <1>b, <2>2 DEF Holds, IInv, TypeOK
    <3>2. applied[n] = 0 /\ result[n] = "failed"
      BY <2>2, <3>1 DEF IInv, Leftover, Held
    <3>3. QED
      BY <3>2 DEF Write, told
  <2>3. QED
    BY <2>1, <2>2
<1>10. Unique'
  <2>1. ASSUME NEW t \in Posts, NEW n \in Posts, Holds(t, n)'
        PROVE  (t = socket /\ n = begun) \/ (t # socket /\ Holds(t, n))
    <3>1. CASE t = socket
      BY <1>b, <2>1, <3>1, Short DEF Holds, IInv, TypeOK
    <3>2. CASE t # socket
      BY <1>b, <2>1, <3>2 DEF Holds, IInv, TypeOK
    <3>3. QED
      BY <3>1, <3>2
  <2>2. QED
    BY <1>d, <2>1 DEF Unique, IInv, Leftover
<1>11. Budget'
  BY <1>a, <1>b, <1>c, Current DEF Write, Sent, told, IInv, TypeOK, Budget, Cost,
     Refusing, Dead
<1>99. QED
  BY <1>1, <1>2, <1>3, <1>4, <1>5, <1>6, <1>7, <1>8, <1>9, <1>10, <1>11 DEF IInv,
     InUse, Leftover

LEMMA WriteTimesOutStep ==
    ASSUME IInv, NEW c \in Callers, WriteTimesOut(c)
    PROVE  IInv'
<1>1. Busy(c) /\ socket \in Posts /\ Empty(socket)
  BY Current DEF WriteTimesOut, IInv, InUse, Ready, Busy
<1>2. requests' = [requests EXCEPT ![socket] = <<Part>>] /\ answers[socket] = <<>>
  BY <1>1, Short DEF WriteTimesOut, Sent, Empty
<1>3. faults' \in Nat /\ lost + 1 <= faults'
  BY DEF WriteTimesOut, Fault, IInv, TypeOK, Budget, Cost
<1>4. QED
  BY <1>1, <1>2, <1>3, Dropped DEF WriteTimesOut, Sent, Close

LEMMA WriteFailsStep ==
    ASSUME IInv, NEW c \in Callers, WriteFails(c)
    PROVE  IInv'
<1>1. Busy(c) /\ socket \in Posts /\ answers[socket] = <<>>
  BY Current DEF WriteFails, IInv, InUse, Ready, Empty, Busy
<1>2. faults' \in Nat /\ lost + 1 <= faults'
  BY <1>1, Closed DEF WriteFails, IInv, TypeOK
<1>3. QED
  BY <1>1, <1>2, Dropped DEF WriteFails, Close, conn

LEMMA ReadStep ==
    ASSUME IInv, NEW c \in Callers, Read(c)
    PROVE  IInv'
<1>a. /\ post[c] = begun /\ begun \in Posts /\ result[begun] = "none"
      /\ socket \in Posts /\ Exchange(socket)
      /\ \A d \in Callers : pc[d] # "idle" => d = c
  BY Current DEF Read, IInv, InUse, Going, Serial, Busy, None
<1>b. PICK a \in Answers : answers[socket] = <<a>>
  BY <1>a DEF Read, IInv, TypeOK, AtMostOne
<1>c. Head(answers[socket]) = a /\ Tail(answers[socket]) = <<>> /\ answers[socket] # <<>>
  BY <1>b, Short
<1>d. requests[socket] = <<>> /\ task[socket] = NoTask
  BY <1>a, <1>c DEF Exchange, Empty
<1>e. answers' = [answers EXCEPT ![socket] = <<>>]
  BY <1>c DEF Read
<1>f. /\ socket' \in {None, socket}
      /\ \/ socket' = None /\ Tell(c, "failed") /\ ~a.valid
         \/ a.valid /\ a.close /\ socket' = None /\ Tell(c, IF a.status THEN "sent" ELSE "failed")
         \/ a.valid /\ ~a.close /\ socket' = socket /\ Tell(c, IF a.status THEN "sent" ELSE "failed")
  BY <1>c DEF Read, Close, CloseAsked
<1>g. a.valid \in BOOLEAN /\ a.status \in BOOLEAN /\ a.close \in BOOLEAN
  BY DEF Answers
<1>h. /\ pc' = [pc EXCEPT ![c] = "idle"] /\ result' \in [Posts -> {"none", "sent", "failed"}]
      /\ \A n \in Posts : n # begun => result'[n] = result[n]
      /\ lost' \in Nat /\ post' = post /\ begun' = begun
  BY <1>a, <1>f DEF Tell, IInv, TypeOK
<1>i. UNCHANGED <<open, requests, task, ended, applied, faults>>
  BY DEF Read
<1>j. pc' \in [Callers -> {"idle", "connect", "write", "read"}] /\ \A d \in Callers : pc'[d] = "idle"
  BY <1>a, <1>h DEF IInv, TypeOK
<1>1. TypeOK'
  <2>1. answers' \in [Posts -> AtMostOne(Answers)]
    BY <1>e, Single DEF IInv, TypeOK
  <2>2. QED
    BY <1>f, <1>h, <1>i, <1>j, <2>1 DEF IInv, TypeOK
<1>2. Serial'
  BY <1>j DEF Serial, Busy
<1>3. Unmade'
  BY <1>a, <1>e, <1>f, <1>h, <1>i DEF Unmade, Empty, IInv, TypeOK, Posts, None
<1>4. NothingOutstanding'
  BY <1>a, <1>d, <1>e, <1>f, <1>i DEF NothingOutstanding, IInv, TypeOK, None
<1>5. Ready'
  BY <1>j DEF Ready
<1>6. Going'
  BY <1>j DEF Going
<1>7. Silent'
  BY <1>a, <1>e, <1>f DEF Silent, IInv, Leftover, TypeOK
<1>8. Taken'
  BY <1>i DEF Taken, IInv, Leftover
<1>9. Held'
  <2> SUFFICES ASSUME NEW t \in Posts, NEW n \in Posts, Holds(t, n)
               PROVE  applied[n] = 0 /\ result'[n] = "failed"
    BY <1>i DEF Held, Holds
  <2>1. t # socket
    BY <1>d, Short DEF Holds
  <2>2. applied[n] = 0 /\ result[n] = "failed"
    BY <2>1 DEF IInv, Leftover, Held
  <2>3. QED
    BY <1>a, <1>h, <2>2
<1>10. Unique'
  BY <1>i DEF Unique, Holds, IInv, Leftover
<1>11. Budget'
  <2>1. Budget /\ lost \in Nat /\ faults \in Nat
    BY DEF IInv, TypeOK
  <2>2. Refusing(socket) <=> ~(a.valid /\ a.status)
    BY <1>c, <1>d DEF Refusing
  <2>3. Dead(socket) <=> ~open[socket] /\ a.valid /\ ~a.close
    BY <1>c DEF Dead
  <2>4. CASE socket' = None
    <3>1. lost' <= lost + (IF Refusing(socket) THEN 1 ELSE 0)
      BY <1>f, <1>g, <2>1, <2>2 DEF Tell
    <3>2. Cost' = 0
      BY <2>4 DEF Cost
    <3>3. QED
      <4>1. Cost >= (IF Refusing(socket) THEN 1 ELSE 0) /\ Cost \in Nat
        BY <1>a DEF Cost, None, Posts
      <4>2. lost' \in Nat /\ faults' = faults
        BY <1>h, <1>i
      <4>3. lost + Cost <= faults
        BY <2>1 DEF Budget
      <4>4. lost' <= faults
        BY <2>1, <3>1, <4>1, <4>2, <4>3
      <4>5. QED
        BY <3>2, <4>2, <4>4 DEF Budget
  <2>5. CASE socket' = socket /\ socket' # None
    <3>1. lost' = lost + (IF Refusing(socket) THEN 1 ELSE 0)
      BY <1>f, <1>g, <2>1, <2>2, <2>5 DEF Tell
    <3>2. answers'[socket] = <<>> /\ task'[socket] = NoTask
      BY <1>a, <1>d, <1>e, <1>i DEF IInv, TypeOK
    <3>3. ~Refusing(socket)' /\ (Dead(socket)' <=> Dead(socket))
      BY <1>f, <1>i, <2>3, <2>5, <3>2 DEF Refusing, Dead
    <3>4. QED
      <4>1. Cost = (IF Refusing(socket) THEN 1 ELSE 0) + (IF Dead(socket) THEN 1 ELSE 0)
        BY <2>5 DEF Cost
      <4>2. Cost' = (IF Dead(socket) THEN 1 ELSE 0)
        BY <2>5, <3>3 DEF Cost
      <4>3. QED
        BY <1>i, <2>1, <3>1, <4>1, <4>2 DEF Budget
  <2>6. QED
    BY <1>f, <2>4, <2>5
<1>99. QED
  BY <1>1, <1>2, <1>3, <1>4, <1>5, <1>6, <1>7, <1>8, <1>9, <1>10, <1>11 DEF IInv,
     InUse, Leftover

LEMMA ReadFailsStep ==
    ASSUME IInv, NEW c \in Callers, ReadFails(c)
    PROVE  IInv'
<1>1. Busy(c) /\ socket \in Posts
  BY Current DEF ReadFails, Busy
<1>2. faults' \in Nat /\ lost + 1 <= faults'
  BY <1>1, Closed DEF ReadFails, IInv, TypeOK
<1>3. QED
  BY <1>1, <1>2, Dropped DEF ReadFails, Close, conn

LEMMA ReadTimesOutStep ==
    ASSUME IInv, NEW c \in Callers, ReadTimesOut(c)
    PROVE  IInv'
<1>1. Busy(c) /\ socket \in Posts
  BY Current DEF ReadTimesOut, Busy
<1>2. faults' \in Nat /\ lost + 1 <= faults'
  BY DEF ReadTimesOut, Fault, IInv, TypeOK, Budget, Cost
<1>3. QED
  BY <1>1, <1>2, Dropped DEF ReadTimesOut, Close, conn

LEMMA DestroyStep ==
    ASSUME IInv, Destroy
    PROVE  IInv'
<1>1. TypeOK'
  BY Single DEF Destroy, Close, Free, conn, local, told, None, IInv, TypeOK
<1>2. Serial'
  BY DEF Destroy, Close, Free, conn, local, told, None, IInv, TypeOK, Serial, Busy,
     Empty
<1>3. Unmade'
  BY DEF Destroy, Close, Free, conn, local, told, None, IInv, TypeOK, Unmade, Empty
<1>4. NothingOutstanding'
  BY DEF Destroy, Close, Free, conn, local, told, None, IInv, TypeOK, InUse,
     NothingOutstanding
<1>5. Ready'
  BY DEF Destroy, Close, Free, conn, local, told, None, IInv, TypeOK, InUse, Ready,
     Empty
<1>6. Going'
  BY DEF Destroy, Close, Free, conn, local, told, None, IInv, TypeOK, InUse, Going,
     Exchange, Empty
<1>7. Silent'
  <2>1. socket \in Posts => answers[socket] = <<>>
    BY DEF Destroy, IInv, InUse, NothingOutstanding, None, Posts
  <2>2. QED
    BY <2>1 DEF Destroy, Close, conn, IInv, TypeOK, Leftover, Silent
<1>8. Taken'
  BY DEF Destroy, Close, Free, conn, local, told, None, IInv, TypeOK, Leftover, Taken
<1>9. Held'
  BY DEF Destroy, Close, Free, conn, local, told, None, IInv, TypeOK, Leftover, Held,
     Holds
<1>10. Unique'
  BY Fewer DEF Destroy, conn
<1>11. Budget'
  BY DEF Destroy, Close, Free, conn, local, told, None, IInv, TypeOK, Budget, Cost,
     Refusing, Dead
<1>99. QED
  BY <1>1, <1>2, <1>3, <1>4, <1>5, <1>6, <1>7, <1>8, <1>9, <1>10, <1>11 DEF IInv,
     InUse, Leftover

LEMMA CarryOutStep ==
    ASSUME IInv, NEW s \in Posts, CarryOut(s)
    PROVE  IInv'
<1>a. PICK n \in Posts : /\ requests[s] = <<n>> /\ Head(requests[s]) = n
                         /\ Tail(requests[s]) = <<>> /\ Holds(s, n)
                         /\ applied[n] = 0 /\ n <= begun /\ s <= begun
                         /\ s # socket => result[n] = "failed"
                         /\ s = socket => n = begun /\ \E c \in Callers : pc[c] = "read"
  BY Arrived DEF CarryOut
<1>b. /\ requests' = [requests EXCEPT ![s] = <<>>]
      /\ task' = [task EXCEPT ![s] = [to |-> n, status |-> TRUE]]
      /\ applied' = [applied EXCEPT ![n] = 1]
      /\ UNCHANGED <<pc, post, socket, open, answers, ended, begun, result, lost, faults>>
  <2>1. CarryOut(s)
    OBVIOUS
  <2>2. Took(s, TRUE) /\ applied' = [applied EXCEPT ![n] = 0 + 1]
    BY <1>a, <2>1 DEF CarryOut
  <2>3. Head(requests[s]) = n /\ Tail(requests[s]) = <<>>
    BY <1>a
  <2>4. requests' = [requests EXCEPT ![s] = <<>>]
    BY <2>2, <2>3 DEF Took
  <2>5. task' = [task EXCEPT ![s] = [to |-> n, status |-> TRUE]]
    BY <2>2, <2>3 DEF Took
  <2>6. QED
    <3>1. applied' = [applied EXCEPT ![n] = 1]
      BY <2>2
    <3>2. UNCHANGED <<pc, post, socket, ended, begun, result, lost, faults>>
      BY <2>1 DEF CarryOut, local, told
    <3>3. UNCHANGED <<open, answers>>
      BY <2>2 DEF Took
    <3>4. QED
      BY <2>4, <2>5, <3>1, <3>2, <3>3
<1>c. open[s] /\ task[s] = NoTask /\ requests[s] # <<>>
  BY DEF CarryOut, Reading
<1>1. TypeOK'
  <2>1. requests' \in [Posts -> AtMostOne(Posts \cup {Part})]
    BY <1>b, Single DEF IInv, TypeOK
  <2>2. task' \in [Posts -> [to : Posts \cup {None}, status : BOOLEAN]]
    BY <1>b DEF IInv, TypeOK
  <2>3. applied' \in [Posts -> {0, 1}] /\ faults' \in Nat
    BY <1>b DEF IInv, TypeOK
  <2>4. QED
    BY <1>b, <2>1, <2>2, <2>3 DEF IInv, TypeOK
<1>2. Serial'
  <2>1. ASSUME NEW c \in Callers, pc[c] \in {"connect", "write"}
        PROVE  n # begun
    BY <1>a, <2>1, Current DEF Busy
  <2>2. ASSUME NEW c \in Callers, pc[c] = "connect"
        PROVE  s # begun
    BY <1>c, <2>2 DEF IInv, Serial, Busy, Empty
  <2>3. QED
    BY <1>b, <2>1, <2>2 DEF IInv, Serial, TypeOK, Busy, Empty
<1>3. Unmade'
  BY <1>a, <1>b DEF IInv, Unmade, TypeOK, Empty, Posts
<1>4. NothingOutstanding'
  BY <1>a, <1>b, <1>c DEF CarryOut, Reading, Took, local, told, NoTask, Part, None,
     IInv, TypeOK, InUse, NothingOutstanding, Free
<1>5. Ready'
  <2> SUFFICES ASSUME NEW c \in Callers, pc[c] = "write"
               PROVE  Empty(socket)'
    BY <1>b DEF Ready
  <2>1. socket \in Posts /\ Empty(socket)
    BY Current DEF IInv, InUse, Ready, Busy
  <2>2. s # socket
    BY <1>c, <2>1 DEF Empty
  <2>3. QED
    BY <1>b, <2>1, <2>2 DEF Empty, IInv, TypeOK
<1>6. Going'
  <2> SUFFICES ASSUME NEW c \in Callers, pc[c] = "read"
               PROVE  Exchange(socket)'
    BY <1>b DEF Going
  <2>1. Exchange(socket) /\ socket \in Posts /\ begun \in Posts
    BY Current DEF IInv, InUse, Going, Busy, None
  <2>2. CASE s = socket
    BY <1>a, <1>b, <1>c, <2>1, <2>2 DEF Exchange, Empty, IInv, TypeOK
  <2>3. CASE s # socket
    BY <1>a, <1>b, <2>1, <2>3 DEF Exchange, Empty, IInv, TypeOK
  <2>4. QED
    BY <2>2, <2>3
<1>7. Silent'
  BY <1>b DEF Silent, IInv, Leftover
<1>8. Taken'
  BY <1>b DEF Taken, IInv, Leftover, TypeOK
<1>9. Held'
  <2> SUFFICES ASSUME NEW t \in Posts, NEW m \in Posts, Holds(t, m)'
               PROVE  (/\ applied[m] = 0
                       /\ \/ result[m] = "failed"
                          \/ t = socket /\ m = begun /\ \E d \in Callers : pc[d] = "read")'
    BY DEF Held
  <2>1. t # s /\ Holds(t, m)
    BY <1>b, Short DEF Holds, IInv, TypeOK
  <2>2. m # n
    BY <1>a, <2>1 DEF IInv, Leftover, Unique
  <2>3. QED
    BY <1>b, <2>1, <2>2 DEF IInv, Leftover, Held, TypeOK
<1>10. Unique'
  BY <1>b, Fewer DEF IInv, TypeOK
<1>11. Budget'
  BY <1>a, <1>b, <1>c DEF CarryOut, Reading, Took, local, told, NoTask, Part, None,
     IInv, TypeOK, Budget, Cost, Refusing, Dead
<1>99. QED
  BY <1>1, <1>2, <1>3, <1>4, <1>5, <1>6, <1>7, <1>8, <1>9, <1>10, <1>11 DEF IInv,
     InUse, Leftover

LEMMA RefuseStep ==
    ASSUME IInv, NEW s \in Posts, Refuse(s)
    PROVE  IInv'
<1>a. PICK n \in Posts : /\ requests[s] = <<n>> /\ Head(requests[s]) = n
                         /\ Tail(requests[s]) = <<>> /\ Holds(s, n)
                         /\ applied[n] = 0 /\ n <= begun /\ s <= begun
                         /\ s # socket => result[n] = "failed"
                         /\ s = socket => n = begun /\ \E c \in Callers : pc[c] = "read"
  BY Arrived DEF Refuse
<1>b. /\ requests' = [requests EXCEPT ![s] = <<>>]
      /\ task' = [task EXCEPT ![s] = [to |-> n, status |-> FALSE]]
      /\ UNCHANGED <<pc, post, socket, open, answers, ended, applied, begun, result, lost>>
      /\ faults' = faults + 1
  <2>1. Refuse(s)
    OBVIOUS
  <2>2. Took(s, FALSE) /\ faults' = faults + 1
    BY <2>1 DEF Refuse, Fault
  <2>3. Head(requests[s]) = n /\ Tail(requests[s]) = <<>>
    BY <1>a
  <2>4. requests' = [requests EXCEPT ![s] = <<>>]
    BY <2>2, <2>3 DEF Took
  <2>5. task' = [task EXCEPT ![s] = [to |-> n, status |-> FALSE]]
    BY <2>2, <2>3 DEF Took
  <2>6. QED
    <3>1. faults' = faults + 1
      BY <2>2
    <3>2. UNCHANGED <<pc, post, socket, ended, applied, begun, result, lost>>
      BY <2>1 DEF Refuse, local, told
    <3>3. UNCHANGED <<open, answers>>
      BY <2>2 DEF Took
    <3>4. QED
      BY <2>4, <2>5, <3>1, <3>2, <3>3
<1>c. open[s] /\ task[s] = NoTask /\ requests[s] # <<>>
  BY DEF Refuse, Reading
<1>1. TypeOK'
  <2>1. requests' \in [Posts -> AtMostOne(Posts \cup {Part})]
    BY <1>b, Single DEF IInv, TypeOK
  <2>2. task' \in [Posts -> [to : Posts \cup {None}, status : BOOLEAN]]
    BY <1>b DEF IInv, TypeOK
  <2>3. applied' \in [Posts -> {0, 1}] /\ faults' \in Nat
    BY <1>b DEF IInv, TypeOK
  <2>4. QED
    BY <1>b, <2>1, <2>2, <2>3 DEF IInv, TypeOK
<1>2. Serial'
  <2>1. ASSUME NEW c \in Callers, pc[c] = "connect"
        PROVE  s # begun
    BY <1>c, <2>1 DEF IInv, Serial, Busy, Empty
  <2>2. QED
    BY <1>b, <2>1 DEF IInv, Serial, TypeOK, Busy, Empty
<1>3. Unmade'
  BY <1>a, <1>b DEF IInv, Unmade, TypeOK, Empty, Posts
<1>4. NothingOutstanding'
  BY <1>a, <1>b, <1>c DEF Refuse, Fault, Reading, Took, local, told, NoTask, Part,
     None, IInv, TypeOK, InUse, NothingOutstanding, Free
<1>5. Ready'
  <2> SUFFICES ASSUME NEW c \in Callers, pc[c] = "write"
               PROVE  Empty(socket)'
    BY <1>b DEF Ready
  <2>1. socket \in Posts /\ Empty(socket)
    BY Current DEF IInv, InUse, Ready, Busy
  <2>2. s # socket
    BY <1>c, <2>1 DEF Empty
  <2>3. QED
    BY <1>b, <2>1, <2>2 DEF Empty, IInv, TypeOK
<1>6. Going'
  <2> SUFFICES ASSUME NEW c \in Callers, pc[c] = "read"
               PROVE  Exchange(socket)'
    BY <1>b DEF Going
  <2>1. Exchange(socket) /\ socket \in Posts /\ begun \in Posts
    BY Current DEF IInv, InUse, Going, Busy, None
  <2>2. CASE s = socket
    BY <1>a, <1>b, <1>c, <2>1, <2>2 DEF Exchange, Empty, IInv, TypeOK
  <2>3. CASE s # socket
    BY <1>a, <1>b, <2>1, <2>3 DEF Exchange, Empty, IInv, TypeOK
  <2>4. QED
    BY <2>2, <2>3
<1>7. Silent'
  BY <1>b DEF Silent, IInv, Leftover
<1>8. Taken'
  BY <1>b DEF Taken, IInv, Leftover, TypeOK
<1>9. Held'
  <2> SUFFICES ASSUME NEW t \in Posts, NEW m \in Posts, Holds(t, m)'
               PROVE  (/\ applied[m] = 0
                       /\ \/ result[m] = "failed"
                          \/ t = socket /\ m = begun /\ \E d \in Callers : pc[d] = "read")'
    BY DEF Held
  <2>1. t # s /\ Holds(t, m)
    BY <1>b, Short DEF Holds, IInv, TypeOK
  <2>2. QED
    BY <1>b, <2>1 DEF IInv, Leftover, Held, TypeOK
<1>10. Unique'
  BY <1>b, Fewer DEF IInv, TypeOK
<1>11. Budget'
  BY <1>a, <1>b, <1>c DEF Refuse, Fault, Reading, Took, local, told, NoTask, Part,
     None, IInv, TypeOK, Budget, Cost, Refusing, Dead
<1>99. QED
  BY <1>1, <1>2, <1>3, <1>4, <1>5, <1>6, <1>7, <1>8, <1>9, <1>10, <1>11 DEF IInv,
     InUse, Leftover

LEMMA AnswerStep ==
    ASSUME IInv, NEW s \in Posts, NEW valid \in BOOLEAN,
           NEW close \in BOOLEAN, Answer(s, valid, close)
    PROVE  IInv'
<1>a. /\ open[s] /\ task[s] # NoTask /\ requests[s] = <<>> /\ ~(s > begun)
  BY DEF Answer, IInv, Leftover, Taken, Unmade, Empty
<1>b. /\ task' = [task EXCEPT ![s] = NoTask] /\ open' = [open EXCEPT ![s] = ~close]
      /\ s # socket => answers' = answers
      /\ UNCHANGED <<pc, post, socket, requests, ended, applied, begun, result, lost>>
      /\ faults' = IF valid THEN faults ELSE faults + 1
  BY DEF Answer, Fault, local, told
<1> DEFINE a == [to |-> task[s].to, close |-> close, status |-> task[s].status, valid |-> valid]
<1>c. ASSUME s = socket
      PROVE  /\ answers[s] = <<>> /\ answers' = [answers EXCEPT ![s] = <<a>>]
             /\ task[s].to = begun /\ begun \in Posts
             /\ task[s].status => applied[begun] = 1
             /\ a \in Answers
             /\ \E c \in Callers : pc[c] = "read"
  BY <1>a, <1>c, Asked, Short DEF Answer, Answers, IInv, TypeOK
<1>d. a.valid = valid /\ a.close = close /\ a.status = task[s].status
  OBVIOUS
<1> HIDE DEF a
<1>e. ASSUME s = socket
      PROVE  answers'[s] = <<a>> /\ Head(answers'[s]) = a /\ answers'[s] # <<>>
  <2>1. answers' = [answers EXCEPT ![s] = <<a>>]
    BY <1>c, <1>e
  <2>2. answers'[s] = <<a>>
    BY <2>1 DEF IInv, TypeOK
  <2>3. QED
    BY <2>2, Short
<1>1. TypeOK'
  <2>1. answers' \in [Posts -> AtMostOne(Answers)]
    BY <1>b, <1>c, Single DEF IInv, TypeOK
  <2>2. task' \in [Posts -> [to : Posts \cup {None}, status : BOOLEAN]]
    BY <1>b DEF IInv, TypeOK, NoTask
  <2>3. open' \in [Posts -> BOOLEAN] /\ faults' \in Nat
    BY <1>b DEF IInv, TypeOK
  <2>4. QED
    BY <1>b, <2>1, <2>2, <2>3 DEF IInv, TypeOK
<1>2. Serial'
  BY <1>a, <1>b, <1>c DEF IInv, Serial, TypeOK, Busy, Empty
<1>3. Unmade'
  <2>1. \A n \in Posts : n > begun => n # s /\ answers'[n] = answers[n]
    BY <1>a, <1>b, <1>c DEF IInv, TypeOK
  <2>2. QED
    BY <1>b, <2>1 DEF IInv, Unmade, TypeOK, Empty
<1>4. NothingOutstanding'
  BY <1>b, <1>c DEF NothingOutstanding, IInv, InUse, TypeOK, Free
<1>5. Ready'
  BY <1>a, <1>b, <1>c DEF Ready, IInv, InUse, TypeOK, Empty
<1>6. Going'
  <2> SUFFICES ASSUME NEW c \in Callers, pc[c] = "read"
               PROVE  Exchange(socket)'
    BY <1>b DEF Going
  <2>1. Exchange(socket) /\ socket \in Posts /\ begun \in Posts
    BY Current DEF IInv, InUse, Going, Busy, None
  <2>2. CASE s = socket
    <3>1. task'[socket] = NoTask /\ requests'[socket] = <<>>
      BY <1>a, <1>b, <2>1, <2>2 DEF IInv, TypeOK
    <3>2. Head(answers'[socket]).status => applied'[begun] = 1
      BY <1>b, <1>c, <1>d, <1>e, <2>2
    <3>3. QED
      BY <1>b, <1>e, <2>2, <3>1, <3>2 DEF Exchange
  <2>3. CASE s # socket
    BY <1>b, <2>1, <2>3 DEF Exchange, Empty, IInv, TypeOK
  <2>4. QED
    BY <2>2, <2>3
<1>7. Silent'
  BY <1>b, <1>c DEF Silent, IInv, Leftover, TypeOK
<1>8. Taken'
  BY <1>b DEF Taken, IInv, Leftover, TypeOK
<1>9. Held'
  BY <1>b DEF Held, Holds, IInv, Leftover
<1>10. Unique'
  BY <1>b, Fewer
<1>11. Budget'
  <2>1. Budget /\ lost \in Nat /\ faults \in Nat
    BY DEF IInv, TypeOK
  <2>2. CASE s = socket
    <3>1. Refusing(socket) <=> ~task[s].status
      BY <1>a, <1>c, <2>2 DEF Refusing
    <3>2. ~Dead(socket)
      BY <1>a, <2>2 DEF Dead
    <3>3. Refusing(socket)' <=> ~(valid /\ task[s].status)
      BY <1>b, <1>d, <1>e, <2>2 DEF Refusing, IInv, TypeOK
    <3>4. ~Dead(socket)'
      BY <1>b, <1>d, <1>e, <2>2 DEF Dead, IInv, TypeOK
    <3>5. QED
      BY <1>b, <2>1, <2>2, <3>1, <3>2, <3>3, <3>4 DEF Budget, Cost, None, Posts
  <2>3. CASE s # socket
    <3>1. socket \in Posts => (Refusing(socket)' <=> Refusing(socket)) /\ (Dead(socket)' <=> Dead(socket))
      BY <1>b, <2>3 DEF Refusing, Dead, IInv, TypeOK
    <3>2. QED
      BY <1>b, <2>1, <3>1 DEF Budget, Cost, IInv, TypeOK
  <2>4. QED
    BY <2>2, <2>3
<1>99. QED
  BY <1>1, <1>2, <1>3, <1>4, <1>5, <1>6, <1>7, <1>8, <1>9, <1>10, <1>11 DEF IInv,
     InUse, Leftover

LEMMA HangUpStep ==
    ASSUME IInv, NEW s \in Posts, HangUp(s)
    PROVE  IInv'
<1>a. s <= begun \/ Empty(s)
  BY DEF IInv, Unmade, TypeOK, Posts
<1>b. \A t, n \in Posts : Holds(t, n)' => Holds(t, n)
  BY Short DEF HangUp, Holds, IInv, TypeOK
<1>1. TypeOK'
  <2>1. requests' \in [Posts -> AtMostOne(Posts \cup {Part})]
    BY Single DEF HangUp, IInv, TypeOK
  <2>2. task' \in [Posts -> [to : Posts \cup {None}, status : BOOLEAN]]
    BY DEF HangUp, NoTask, IInv, TypeOK
  <2>3. faults' \in Nat /\ open' \in [Posts -> BOOLEAN]
    BY DEF HangUp, Fault, IInv, TypeOK
  <2>4. QED
    BY <2>1, <2>2, <2>3 DEF HangUp, local, told, IInv, TypeOK
<1>2. Serial'
  BY DEF HangUp, Fault, NoTask, local, told, None, IInv, TypeOK, Serial, Busy, Empty
<1>3. Unmade'
  BY DEF HangUp, local, told, Unmade, Empty, IInv, TypeOK
<1>4. NothingOutstanding'
  BY Short DEF HangUp, Fault, NoTask, local, told, None, IInv, TypeOK, InUse,
     NothingOutstanding, Free
<1>5. Ready'
  BY DEF HangUp, Fault, NoTask, local, told, None, IInv, TypeOK, InUse, Ready, Empty
<1>6. Going'
  BY Short DEF HangUp, Fault, NoTask, local, told, None, IInv, TypeOK, InUse, Going,
     Exchange, Empty
<1>7. Silent'
  BY DEF HangUp, Fault, NoTask, local, told, None, IInv, TypeOK, Leftover, Silent
<1>8. Taken'
  BY DEF HangUp, Fault, NoTask, local, told, None, IInv, TypeOK, Leftover, Taken
<1>9. Held'
  BY <1>b DEF HangUp, local, told, Held, IInv, Leftover
<1>10. Unique'
  BY <1>b DEF Unique, IInv, Leftover
<1>11. Budget'
  BY DEF HangUp, Fault, NoTask, local, told, None, IInv, TypeOK, Budget, Cost,
     Refusing, Dead
<1>99. QED
  BY <1>1, <1>2, <1>3, <1>4, <1>5, <1>6, <1>7, <1>8, <1>9, <1>10, <1>11 DEF IInv,
     InUse, Leftover

-----------------------------------------------------------------------------
(* The invariant, and what it implies.                                     *)

LEMMA InitIInv == Init => IInv
<1> SUFFICES ASSUME Init PROVE IInv
  OBVIOUS
<1>1. TypeOK
  <2>1. /\ requests \in [Posts -> AtMostOne(Posts \cup {Part})]
        /\ answers \in [Posts -> AtMostOne(Answers)]
    BY Single DEF Init
  <2>2. task \in [Posts -> [to : Posts \cup {None}, status : BOOLEAN]]
    BY DEF Init, NoTask
  <2>3. begun \in 0 .. MaxPosts
    BY AdminAssumption DEF Init
  <2>4. QED
    BY <2>1, <2>2, <2>3 DEF Init, TypeOK
<1>2. Serial /\ Unmade
  BY DEF Init, Serial, Unmade, Busy, Empty, None
<1>3. InUse
  BY DEF Init, InUse, NothingOutstanding, Ready, Going
<1>4. Leftover
  BY Short DEF Init, Leftover, Silent, Taken, Held, Unique, Holds
<1>5. Budget
  BY DEF Init, Budget, Cost
<1>6. QED
  BY <1>1, <1>2, <1>3, <1>4, <1>5 DEF IInv

LEMMA NextIInv == IInv /\ [Next]_vars => IInv'
<1> SUFFICES ASSUME IInv, [Next]_vars PROVE IInv'
  OBVIOUS
<1>1. ASSUME NEW c \in Callers, Goes(c) PROVE IInv'
  BY <1>1, ConnectStep, ConnectFailsStep, WriteStep, WriteTimesOutStep, WriteFailsStep,
     ReadStep, ReadFailsStep, ReadTimesOutStep DEF Goes
<1>2. ASSUME NEW s \in Posts, Core(s) PROVE IInv'
  BY <1>2, CarryOutStep, RefuseStep, AnswerStep, HangUpStep DEF Core
<1>3. CASE UNCHANGED vars
  <2>1. TypeOK' /\ Serial' /\ Unmade'
    BY <1>3 DEF vars, local, told, conn, IInv, TypeOK, Serial, Unmade, Busy, Empty
  <2>2. InUse'
    BY <1>3 DEF vars, local, told, conn, IInv, InUse, NothingOutstanding, Free,
       Ready, Going,
       Exchange, Empty
  <2>3. Leftover'
    BY <1>3 DEF vars, local, told, conn, IInv, Leftover, Silent, Taken, Held,
       Unique, Holds
  <2>4. Budget'
    BY <1>3 DEF vars, local, told, conn, IInv, Budget, Cost, Refusing, Dead
  <2>5. QED
    BY <2>1, <2>2, <2>3, <2>4 DEF IInv
<1>4. QED
  BY <1>1, <1>2, <1>3, BeginStep, DestroyStep DEF Next

(* The inductive invariant holds always: who is in Post and with what, and *)
(* what each connection, in use or closed, may still carry.                *)
THEOREM Invariant == Spec => []IInv
BY InitIInv, NextIInv, PTL DEF Spec

(* A connection never carries more than one request and one answer, and no *)
(* post is carried out twice (Post, admin_hid.cpp:223-255).                *)
THEOREM TypeCorrect == Spec => []TypeOK
<1>1. IInv => TypeOK
  BY DEF IInv
<1>2. QED
  BY <1>1, Invariant, PTL

(* A connection kept for the next post has nothing on its way.             *)
THEOREM KeptClean == Spec => []NothingOutstanding
<1>1. IInv => NothingOutstanding
  BY DEF IInv, InUse
<1>2. QED
  BY <1>1, Invariant, PTL

(* One thing that goes wrong loses at most one post, whatever the number   *)
(* of callers, posts and faults.                                           *)
THEOREM LossBounded == Spec => []LostPerFault
<1>1. IInv => LostPerFault
  BY DEF IInv, TypeOK, Budget, Cost, LostPerFault
<1>2. QED
  BY <1>1, Invariant, PTL

-----------------------------------------------------------------------------
(* AdminHID implements HIDChannel. *)

LEMMA NobodyIn ==
    ASSUME Free
    PROVE  Posting = {}
BY DEF Free, Posting

LEMMA OneIn ==
    ASSUME IInv, NEW c \in Callers, Busy(c)
    PROVE  Posting = {begun}
<1>1. post[c] = begun /\ \A d \in Callers : Busy(d) => d = c
  BY Current
<1>2. QED
  BY <1>1 DEF Posting, Busy

(* The end of a post that is reported to have failed. *)
LEMMA Failing ==
    ASSUME IInv, NEW c \in Callers, Busy(c), Tell(c, "failed"), UNCHANGED applied,
           \A s, n \in Posts : Holds(s, n)' <=> Holds(s, n)
    PROVE  Channel!Fail(begun)
<1>1. /\ post[c] = begun /\ begun \in Posts /\ result[begun] = "none"
      /\ \A d \in Callers : Busy(d) => d = c
  BY Current
<1>2. Posting = {begun}
  BY OneIn
<1>3. Free'
  BY <1>1 DEF Tell, Free, Busy, IInv, TypeOK
<1>4. Posting' = {}
  BY <1>3 DEF Free, Posting
<1>5. result' = [result EXCEPT ![begun] = "failed"]
  BY <1>1 DEF Tell
<1>6. \A n \in Posts : n # begun => (n \in Doubtful' <=> n \in Doubtful)
  BY <1>5 DEF Doubtful, Holds, IInv, TypeOK
<1>7. begun \notin Doubtful
  BY <1>1 DEF Doubtful
<1>8. CASE \E s \in Posts : Holds(s, begun)
  <2>1. applied[begun] = 0
    BY <1>1, <1>8 DEF IInv, Leftover, Held
  <2>2. begun \in Doubtful'
    BY <1>1, <1>5, <1>8 DEF Doubtful, Holds, IInv, TypeOK
  <2>3. Doubtful' = Doubtful \cup {begun}
    BY <1>1, <1>6, <2>2 DEF Doubtful
  <2>4. QED
    BY <1>2, <1>4, <1>5, <2>1, <2>3 DEF Channel!Fail, Tell
<1>9. CASE ~\E s \in Posts : Holds(s, begun)
  <2>1. begun \notin Doubtful'
    BY <1>1, <1>9 DEF Doubtful, Holds
  <2>2. Doubtful' = Doubtful
    BY <1>1, <1>6, <1>7, <2>1 DEF Doubtful
  <2>3. QED
    BY <1>2, <1>4, <1>5, <2>2 DEF Channel!Fail, Tell
<1>10. QED
  BY <1>8, <1>9

LEMMA InitChannel == Init => Channel!Init
<1> SUFFICES ASSUME Init PROVE Channel!Init
  OBVIOUS
<1>1. Posting = {} /\ Doubtful = {}
  BY DEF Init, Posting, Doubtful
<1>2. QED
  BY <1>1 DEF Init, Channel!Init, Channel!Posts, Posts

LEMMA CallerImplements ==
    ASSUME IInv, NEW c \in Callers, Begin(c) \/ Goes(c)
    PROVE  [Channel!Next]_(Channel!vars)
<1>1. CASE Begin(c)
  <2>1. Posting = {} /\ Posting' = {begun + 1}
    <3>1. Free /\ pc' = [pc EXCEPT ![c] = IF socket = None THEN "connect" ELSE "write"]
               /\ post' = [post EXCEPT ![c] = begun + 1]
      BY <1>1 DEF Begin
    <3>2. \A d \in Callers : pc'[d] # "idle" <=> d = c
      BY <3>1 DEF Free, IInv, TypeOK
    <3>3. QED
      BY <3>1, <3>2, NobodyIn DEF Posting, IInv, TypeOK
  <2>2. Doubtful' = Doubtful
    BY <1>1 DEF Begin, conn, Doubtful
  <2>3. Channel!Begin
    BY <1>1, <2>1, <2>2 DEF Begin, Channel!Begin
  <2>4. QED
    BY <2>3 DEF Channel!Next
<1>2. ASSUME Goes(c), Channel!Fail(begun)
      PROVE  Channel!Next
  <2>1. begun \in Posts
    BY <1>2, Current DEF Goes, Connect, ConnectFails, Write, WriteTimesOut, WriteFails,
       Read, ReadFails, ReadTimesOut, Busy
  <2>2. QED
    BY <1>2, <2>1 DEF Channel!Next, Channel!Posts, Posts
<1>3. CASE Connect(c)
  <2>1. Posting' = Posting
    BY <1>3 DEF Connect, IInv, TypeOK, Posting
  <2>2. QED
    BY <1>3, <2>1 DEF Connect, told, Channel!vars, Doubtful
<1>4. CASE ConnectFails(c)
  BY <1>2, <1>4, Failing DEF Goes, ConnectFails, Busy, Holds, conn
<1>5. CASE Write(c)
  <2>1. /\ post[c] = begun /\ begun \in Posts /\ result[begun] = "none"
        /\ socket \in Posts /\ Empty(socket)
    BY <1>5, Current DEF Write, IInv, InUse, Ready, Serial, Busy, None
  <2>2. requests' = [requests EXCEPT ![socket] = <<begun>>]
    BY <1>5, <2>1, Short DEF Write, Sent, Empty
  <2>3. \A n \in Posts : n \in Doubtful' <=> n \in Doubtful
    <3>1. ASSUME NEW n \in Posts, n # begun, NEW s \in Posts
          PROVE  requests'[s] = <<n>> <=> requests[s] = <<n>>
      BY <2>1, <2>2, <3>1, Short DEF Empty, IInv, TypeOK
    <3>2. result' = result /\ begun \notin Doubtful /\ begun \notin Doubtful'
      BY <1>5, <2>1 DEF Write, told, Doubtful
    <3>3. QED
      BY <3>1, <3>2 DEF Doubtful
  <2>4. Posting' = Posting
    BY <1>5 DEF Write, Posting, IInv, TypeOK
  <2>5. Doubtful' = Doubtful
    BY <2>3 DEF Doubtful
  <2>6. QED
    BY <1>5, <2>4, <2>5 DEF Write, told, Channel!vars
<1>6. CASE WriteTimesOut(c)
  <2>1. socket \in Posts /\ Empty(socket)
    BY <1>6, Current DEF WriteTimesOut, IInv, InUse, Ready, Serial, Busy, None
  <2>2. requests' = [requests EXCEPT ![socket] = <<Part>>]
    BY <1>6, <2>1, Short DEF WriteTimesOut, Sent, Empty
  <2>3. ASSUME NEW s \in Posts, NEW n \in Posts
        PROVE  Holds(s, n)' <=> Holds(s, n)
    BY <2>1, <2>2, Short DEF Empty, Holds, Part, Posts, IInv, TypeOK
  <2>4. Channel!Fail(begun)
    BY <1>6, <2>3, Failing DEF WriteTimesOut, Busy
  <2>5. QED
    BY <1>2, <1>6, <2>4 DEF Goes
<1>7. CASE WriteFails(c)
  BY <1>2, <1>7, Failing DEF Goes, WriteFails, Busy, Holds, conn
<1>8. CASE Read(c)
  <2>1. CASE Tell(c, "failed")
    BY <1>2, <1>8, <2>1, Failing DEF Goes, Read, Busy, Holds
  <2>2. CASE Tell(c, "sent") /\ Head(answers[socket]).status
    <3>1. /\ post[c] = begun /\ begun \in Posts /\ result[begun] = "none"
          /\ \A d \in Callers : Busy(d) => d = c
          /\ socket \in Posts /\ Exchange(socket)
      BY <1>8, Current DEF Read, IInv, InUse, Going, Busy, None
    <3>2. applied[begun] = 1
      BY <1>8, <2>2, <3>1 DEF Read, Exchange, Empty
    <3>3. Posting = {begun}
      BY <1>8, OneIn DEF Read, Busy
    <3>4. Posting' = {}
      BY <2>2, <3>1 DEF Tell, Posting, Busy, IInv, TypeOK
    <3>5. result' = [result EXCEPT ![begun] = "sent"]
      BY <2>2, <3>1 DEF Tell
    <3>6. \A n \in Posts : n \in Doubtful' <=> n \in Doubtful
      BY <1>8, <3>1, <3>5 DEF Read, Doubtful, IInv, TypeOK
    <3>7. Doubtful' = Doubtful
      BY <3>6 DEF Doubtful
    <3>8. Channel!Succeed(begun)
      BY <1>8, <2>2, <3>2, <3>3, <3>4, <3>5, <3>7 DEF Read, Tell, Channel!Succeed
    <3>9. QED
      BY <3>1, <3>8 DEF Channel!Next, Channel!Posts, Posts
  <2>3. QED
    BY <1>8, <2>1, <2>2 DEF Read
<1>9. CASE ReadFails(c)
  BY <1>2, <1>9, Failing DEF Goes, ReadFails, Busy, Holds, conn
<1>10. CASE ReadTimesOut(c)
  BY <1>2, <1>10, Failing DEF Goes, ReadTimesOut, Busy, Holds, conn
<1>11. QED
  BY <1>1, <1>3, <1>4, <1>5, <1>6, <1>7, <1>8, <1>9, <1>10 DEF Goes

LEMMA CoreImplements ==
    ASSUME IInv, NEW s \in Posts, Core(s)
    PROVE  [Channel!Next]_(Channel!vars)
<1>1. ASSUME \A t, n \in Posts : requests'[t] = <<n>> => requests[t] = <<n>>,
             UNCHANGED <<pc, post, begun, applied, result>>
      PROVE  Channel!Next
  <2>1. Doubtful' \in SUBSET Doubtful /\ Posting' = Posting
    BY <1>1 DEF Doubtful, Posting
  <2>2. QED
    BY <1>1, <2>1 DEF Channel!Forget, Channel!Next
<1>2. CASE CarryOut(s)
  <2>1. PICK n \in Posts : /\ requests[s] = <<n>> /\ Head(requests[s]) = n
                           /\ Tail(requests[s]) = <<>> /\ Holds(s, n)
                           /\ applied[n] = 0
                           /\ s # socket => result[n] = "failed"
                           /\ s = socket => n = begun /\ \E c \in Callers : pc[c] = "read"
    BY <1>2, Arrived DEF CarryOut
  <2>2. requests' = [requests EXCEPT ![s] = <<>>]
    BY <1>2, <2>1 DEF CarryOut, Took
  <2>3. applied' = [applied EXCEPT ![n] = 1]
    <3>1. applied' = [applied EXCEPT ![n] = 0 + 1]
      BY <1>2, <2>1 DEF CarryOut
    <3>2. QED
      BY <3>1
  <2>4. n \in Posting \cup Doubtful
    <3>1. CASE s = socket
      BY <2>1, <3>1, OneIn DEF Busy
    <3>2. CASE s # socket
      BY <2>1, <3>2 DEF Doubtful
    <3>3. QED
      BY <3>1, <3>2
  <2>5. \A t, m \in Posts : requests'[t] = <<m>> <=> requests[t] = <<m>> /\ m # n
    <3>1. ASSUME NEW t \in Posts, NEW m \in Posts, requests'[t] = <<m>>
          PROVE  requests[t] = <<m>> /\ m # n
      <4>1. t # s /\ requests[t] = <<m>>
        BY <2>2, <3>1, Short DEF IInv, TypeOK
      <4>2. QED
        BY <2>1, <4>1 DEF Holds, IInv, Leftover, Unique
    <3>2. ASSUME NEW t \in Posts, NEW m \in Posts, requests[t] = <<m>>, m # n
          PROVE  requests'[t] = <<m>>
      <4>1. t # s
        BY <2>1, <3>2, Short
      <4>2. QED
        BY <2>2, <3>2, <4>1 DEF IInv, TypeOK
    <3>3. QED
      BY <3>1, <3>2
  <2>6. UNCHANGED <<pc, post, begun, result>>
    BY <1>2 DEF CarryOut, local, told
  <2>7. \A m \in Posts : m \in Doubtful' <=> m \in Doubtful /\ m # n
    BY <2>5, <2>6 DEF Doubtful
  <2>8. Doubtful' = Doubtful \ {n} /\ Posting' = Posting
    BY <2>6, <2>7 DEF Doubtful, Posting
  <2>9. Channel!Apply(n)
    BY <2>1, <2>3, <2>4, <2>6, <2>8 DEF Channel!Apply
  <2>10. QED
    BY <2>9 DEF Channel!Next, Channel!Posts, Posts
<1>3. CASE Refuse(s)
  <2>1. requests' = [requests EXCEPT ![s] = <<>>]
    BY <1>3, Arrived DEF Refuse, Took
  <2>2. \A t, n \in Posts : requests'[t] = <<n>> => requests[t] = <<n>>
    BY <2>1, Short DEF IInv, TypeOK
  <2>3. QED
    BY <1>1, <1>3, <2>2 DEF Refuse, local, told
<1>4. ASSUME NEW valid \in BOOLEAN, NEW close \in BOOLEAN, Answer(s, valid, close)
      PROVE  UNCHANGED Channel!vars
  BY <1>4 DEF Answer, local, told, Channel!vars, Doubtful, Posting
<1>5. CASE HangUp(s)
  <2>1. \A t, n \in Posts : requests'[t] = <<n>> => requests[t] = <<n>>
    BY <1>5, Short DEF HangUp, IInv, TypeOK
  <2>2. QED
    BY <1>1, <1>5, <2>1 DEF HangUp, local, told
<1>6. QED
  BY <1>2, <1>3, <1>4, <1>5 DEF Core

LEMMA NextChannel == IInv /\ [Next]_vars => [Channel!Next]_(Channel!vars)
<1> SUFFICES ASSUME IInv, [Next]_vars PROVE [Channel!Next]_(Channel!vars)
  OBVIOUS
<1>1. CASE Destroy
  BY <1>1 DEF Destroy, local, conn, told, Channel!vars, Doubtful, Posting
<1>2. CASE UNCHANGED vars
  BY <1>2 DEF vars, local, conn, told, Channel!vars, Doubtful, Posting
<1>3. QED
  BY <1>1, <1>2, CallerImplements, CoreImplements DEF Next

(* Every behaviour of AdminHID is one of HIDChannel: posts are serialized, *)
(* none is carried out twice, and one that is reported sent has been       *)
(* carried out, wherever the connection ends (Post, admin_hid.cpp:223-255).*)
THEOREM Refinement == Spec => ImplementsChannel
BY InitChannel, NextChannel, Invariant, PTL DEF Spec, ImplementsChannel, Channel!Spec
=============================================================================
