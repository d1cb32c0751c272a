------------------------ MODULE AudioDeliveryProofs ------------------------
(***************************************************************************)
(* Proofs about AudioDelivery, for any rate and frequencies, any limits    *)
(* and any number of viewers.  The invariant says what holds of each open  *)
(* connection (Good) and of the packets that wait for all of them.         *)
(***************************************************************************)
EXTENDS AudioDelivery, TLAPS

States == {"deaf", "offered", "playing", "confused"}

(* A viewer that knows of the extension has been told of it, or will be    *)
(* before anything else; a listener knows of it.                           *)
Speech(c) ==
    /\ c.ear.state # "confused"
    /\ c.audio_started <=> c.ear.state = "playing"
    /\ c.ear.state = "deaf" => c.audio_capability_pending \/ ~c.audio_supported
    /\ c.audio_enabled => c.audio_supported

Drift(c) ==
    c.ear.played * Rate = c.ear.fed * c.audio_frequency + c.audio_resample_position

(* Who does not listen has no backlog and no place in the stream. *)
Silent(c) ==
    ~c.audio_enabled => c.deferred_audio = <<>> /\ c.ear.last = 0 /\ c.ear.missed = {}

(* What the counter says of the backlog: nothing of an empty one, and of   *)
(* n packets no more than n of MaxQueued shares of the limit, except while *)
(* they are being sent.                                                    *)
Fits(c) ==
    ShortPackets =>
       c.deferred_audio_samples * MaxQueued <= Len(c.deferred_audio) * MaxDeferred

InTurn(c) == ~Withheld(c) /\ Due(c)

Counted(c, p) ==
    /\ c.deferred_audio = <<>> => c.deferred_audio_samples = 0
    /\ ~(p = "send" /\ InTurn(c)) => Fits(c)
    /\ p # "defer" => c.deferred_audio_samples <= MaxDeferred
    /\ p = "send" /\ InTurn(c) => c.audio_started

(* The packets: in order in every queue, all of the backlog before all of  *)
(* those in w that wait for everybody, and after the last packet heard;    *)
(* and what follows any of them is kept as well, or among the lost ones l. *)
Rising(q) == \A i, j \in 1..Len(q) : i < j => q[i].id < q[j].id

Followed(s, l, m) == \A x \in s : \A y \in (x + 1)..m : y \in s \cup l

Heard(c) == IF c.ear.last = 0 THEN {} ELSE {c.ear.last}

Complete(c, w, l, m) ==
    LET d == Ids(c.deferred_audio)
    IN  /\ Rising(c.deferred_audio) /\ d \subseteq 1..m
        /\ \A x \in d, y \in w : x < y
        /\ c.ear.last <= m /\ \A y \in d \cup w : c.ear.last < y
        /\ c.ear.missed \subseteq l
        /\ Followed(Heard(c) \cup d \cup w, l, m)

Good(c, p, w, l, m) ==
    /\ c \in Data
    /\ Speech(c) /\ Drift(c) /\ Silent(c) /\ Counted(c, p)
    /\ Complete(c, w, l, m)

Waiting == Ids(batch) \cup Ids(queue)

ViewersInv ==
    /\ client = [v \in Viewers |-> client[v]]
    /\ \A v \in Viewers : Open(v) => Good(client[v], pc, Waiting, lost, made)

SharedInv ==
    /\ pc \in {"poll", "read", "sync", "audio", "defer", "send", "frame"}
    /\ subscribed \in BOOLEAN
    /\ queue \in Seq(Packets) /\ Len(queue) <= MaxQueued
    /\ batch \in Seq(Packets) /\ Len(batch) <= MaxQueued
    /\ made \in 0..MaxPackets /\ lost \subseteq 1..made
    /\ pc # "defer" => batch = <<>>
    /\ Rising(batch) /\ Rising(queue)
    /\ \A x \in Ids(batch), y \in Ids(queue) : x < y
    /\ Waiting \subseteq 1..made
    /\ Followed(Waiting, lost, made)

IInv == ViewersInv /\ SharedInv

-----------------------------------------------------------------------------
(* Sequences of packets. *)

LEMMA NoIds == Ids(<<>>) = {} /\ Rising(<<>>)
BY DEF Ids, Rising

LEMMA EmptyIs == \A q \in Seq(Packets) : q = <<>> <=> Len(q) = 0
OBVIOUS

LEMMA IdsTyped == ASSUME NEW q \in Seq(Packets) PROVE Ids(q) \subseteq 1..MaxPackets
<1>1. \A i \in 1..Len(q) : q[i] \in Packets
  OBVIOUS
<1> QED
  BY <1>1 DEF Ids, Packets

LEMMA HeadAndTail ==
    ASSUME NEW q \in Seq(Packets), q # <<>>, Rising(q)
    PROVE  /\ Head(q) \in Packets
           /\ Tail(q) \in Seq(Packets) /\ Len(Tail(q)) = Len(q) - 1 /\ Len(q) \in Nat
           /\ Rising(Tail(q))
           /\ Ids(q) = {Head(q).id} \cup Ids(Tail(q))
           /\ \A x \in Ids(Tail(q)) : Head(q).id < x
<1>1. /\ Len(q) \in Nat /\ Len(q) >= 1 /\ Head(q) = q[1] /\ q[1] \in Packets
      /\ Tail(q) \in Seq(Packets) /\ Len(Tail(q)) = Len(q) - 1
      /\ \A i \in 1..Len(q) - 1 : Tail(q)[i] = q[i + 1]
  OBVIOUS
<1>2. Rising(Tail(q))
  BY <1>1 DEF Rising
<1>3. \A x \in Ids(Tail(q)) : Head(q).id < x
  BY <1>1 DEF Rising, Ids
<1>4. Ids(q) \subseteq {Head(q).id} \cup Ids(Tail(q))
  <2> SUFFICES ASSUME NEW i \in 1..Len(q), i # 1 PROVE q[i].id \in Ids(Tail(q))
    BY <1>1 DEF Ids
  <2>1. i - 1 \in 1..Len(Tail(q)) /\ Tail(q)[i - 1] = q[i]
    BY <1>1
  <2> QED
    BY <2>1 DEF Ids
<1>5. {Head(q).id} \cup Ids(Tail(q)) \subseteq Ids(q)
  <2>1. Head(q).id \in Ids(q)
    BY <1>1 DEF Ids
  <2>2. ASSUME NEW i \in 1..Len(Tail(q)) PROVE Tail(q)[i].id \in Ids(q)
    <3>1. i + 1 \in 1..Len(q) /\ Tail(q)[i] = q[i + 1]
      BY <1>1
    <3> QED
      BY <3>1 DEF Ids
  <2> QED
    BY <2>1, <2>2 DEF Ids
<1> QED
  BY <1>1, <1>2, <1>3, <1>4, <1>5

LEMMA Appended ==
    ASSUME NEW q \in Seq(Packets), NEW p \in Packets, Rising(q),
           \A x \in Ids(q) : x < p.id
    PROVE  /\ Append(q, p) \in Seq(Packets)
           /\ Len(Append(q, p)) = Len(q) + 1 /\ Len(q) \in Nat
           /\ Append(q, p) # <<>>
           /\ Rising(Append(q, p))
           /\ Ids(Append(q, p)) = Ids(q) \cup {p.id}
<1> DEFINE a == Append(q, p)
<1>1. /\ a \in Seq(Packets) /\ Len(a) = Len(q) + 1 /\ Len(q) \in Nat
      /\ a[Len(q) + 1] = p /\ \A i \in 1..Len(q) : a[i] = q[i]
      /\ \A i \in 1..Len(q) : q[i] \in Packets
  OBVIOUS
<1>2. \A i \in 1..Len(q) : q[i].id < p.id
  BY DEF Ids
<1>3. Rising(a)
  <2> SUFFICES ASSUME NEW i \in 1..Len(a), NEW j \in 1..Len(a), i < j
               PROVE  a[i].id < a[j].id
    BY DEF Rising
  <2>1. i \in 1..Len(q)
    BY <1>1
  <2>2. CASE j \in 1..Len(q)
    BY <1>1, <2>1, <2>2 DEF Rising
  <2>3. CASE j = Len(q) + 1
    BY <1>1, <1>2, <2>1, <2>3
  <2> QED
    BY <1>1, <2>2, <2>3
<1>4. Ids(a) \subseteq Ids(q) \cup {p.id}
  <2> SUFFICES ASSUME NEW i \in 1..Len(a) PROVE a[i].id \in Ids(q) \cup {p.id}
    BY DEF Ids
  <2>1. CASE i \in 1..Len(q)
    BY <1>1, <2>1 DEF Ids
  <2>2. CASE i = Len(q) + 1
    BY <1>1, <2>2
  <2> QED
    BY <1>1, <2>1, <2>2
<1>5. Ids(q) \cup {p.id} \subseteq Ids(a)
  <2>1. Len(q) + 1 \in 1..Len(a)
    BY <1>1
  <2>2. p.id \in Ids(a)
    BY <1>1, <2>1 DEF Ids
  <2>3. \A i \in 1..Len(q) : i \in 1..Len(a)
    BY <1>1
  <2>4. Ids(q) \subseteq Ids(a)
    BY <1>1, <2>3 DEF Ids
  <2> QED
    BY <2>2, <2>4
<1>6. a # <<>>
  BY <1>1
<1> QED
  BY <1>1, <1>3, <1>4, <1>5, <1>6

-----------------------------------------------------------------------------
(* What the operators change of a viewer. *)

LEMMA ToldFacts ==
    ASSUME NEW c \in Data, NEW state \in States
    PROVE  /\ Told(c, state) \in Data
           /\ Told(c, state) = [c EXCEPT !.ear = Told(c, state).ear]
           /\ Told(c, state).ear.state = IF c.jpeg THEN "confused" ELSE state
           /\ Told(c, state).ear.last = c.ear.last
           /\ Told(c, state).ear.missed = c.ear.missed
           /\ Told(c, state).ear.fed = c.ear.fed
           /\ Told(c, state).ear.played = c.ear.played
<1>1. c.ear \in Ears
  BY DEF Data
<1>2. (IF c.jpeg THEN "confused" ELSE state) \in States
  BY DEF States
<1> QED
  BY <1>1, <1>2 DEF Told, Data, Ears, States

LEMMA RewoundFacts ==
    ASSUME NEW c \in Data
    PROVE  /\ Rewound(c) \in Data
           /\ Rewound(c).ear.state = c.ear.state
           /\ Rewound(c).ear.last = c.ear.last
           /\ Rewound(c).ear.missed = c.ear.missed
           /\ Rewound(c).ear.fed = 0 /\ Rewound(c).ear.played = 0
           /\ Rewound(c).audio_resample_position = 0
           /\ Rewound(c) = [c EXCEPT !.ear = Rewound(c).ear, !.audio_resample_position = 0]
<1>1. c.ear \in Ears
  BY DEF Data
<1>2. 0 \in 0 .. Rate - 1
  BY AudioAssumption
<1> QED
  BY <1>1, <1>2 DEF Rewound, Data, Ears

LEMMA ResampleFacts ==
    ASSUME NEW limit \in Nat, NEW position \in 0 .. Rate - 1
    PROVE  Taken(limit, position) \in Nat /\ CarryOver(limit, position) \in 0 .. Rate - 1
<1> Rate \in Nat \ {0}
  BY AudioAssumption
<1>1. CASE position < limit
  <2> DEFINE a == limit - position + Rate - 1
  <2>1. a \in Nat
    BY <1>1
  <2>2. a = Rate * (a \div Rate) + (a % Rate)
    BY <2>1
  <2>3. a % Rate \in 0 .. Rate - 1 /\ a \div Rate \in Nat
    BY <2>1
  <2>4. Rate * Taken(limit, position) = a - (a % Rate)
    BY <1>1, <2>1, <2>2, <2>3 DEF Taken
  <2> QED
    BY <1>1, <2>1, <2>3, <2>4 DEF Taken, CarryOver
<1>2. CASE ~(position < limit)
  BY <1>2 DEF Taken, CarryOver
<1> QED
  BY <1>1, <1>2

(* Multiples of d are at least d apart. *)
LEMMA Multiples ==
    ASSUME NEW d \in Nat \ {0}, NEW i \in Nat, NEW j \in Nat, i < j
    PROVE  d * i \in Nat /\ d * j \in Nat /\ d * i + d <= d * j
<1>1. d * i \in Nat /\ d * j \in Nat /\ d * (j - i - 1) \in Nat
  <2>1. \A x, y \in Nat : x * y \in Nat
    OBVIOUS
  <2>2. j - i - 1 \in Nat
    OBVIOUS
  <2> QED
    BY <2>1, <2>2
<1>2. d * (j - i - 1) = d * j - d * i - d
  OBVIOUS
<1> QED
  BY <1>1, <1>2

(* Quotient and remainder. *)
LEMMA Division ==
    ASSUME NEW a \in Nat, NEW d \in Nat \ {0}
    PROVE  \E q \in Nat, r \in 0 .. d - 1 : q = a \div d /\ a = d * q + r
<1>1. a = d * (a \div d) + (a % d)
  OBVIOUS
<1>2. a \div d \in Nat /\ a % d \in 0 .. d - 1
  OBVIOUS
<1> QED
  BY <1>1, <1>2, Zenon

(* A number below n times d has a quotient by d below n. *)
LEMMA QuotientBelow ==
    ASSUME NEW p \in Nat, NEW d \in Nat \ {0}, NEW n \in Nat, p < n * d
    PROVE  p \div d \in 0 .. n - 1
<1>1. PICK q \in Nat, r \in 0 .. d - 1 : q = p \div d /\ p = d * q + r
  BY Division
<1>2. ASSUME q >= n PROVE FALSE
  <2>1. CASE q = n
    BY <1>1, <2>1
  <2>2. CASE q > n
    <3>1. d * n + d <= d * q /\ d * n \in Nat /\ d * q \in Nat
      BY <2>2, Multiples
    <3>2. d * n = n * d
      OBVIOUS
    <3> QED
      BY <1>1, <3>1, <3>2
  <2> QED
    BY <1>2, <2>1, <2>2
<1> QED
  BY <1>1, <1>2

(* Every sample that ConvertAudio takes of a packet lies within it, so that*)
(* interpolation reads no frame beyond the last; the samples taken are all *)
(* there are, and the buffer reserved for them is never too small: Taken is*)
(* what the loop at vnc_server.cpp:982 counts.                             *)
THEOREM SamplesWithin ==
    ASSUME NEW frames \in Nat \ {0}, NEW frequency \in 1 .. Rate,
           NEW position \in 0 .. Rate - 1, NEW k, NEW limit,
           limit = frames * frequency, k = Taken(limit, position)
    PROVE  /\ \A j \in 0 .. k - 1 :
                 /\ position + Rate * j < limit
                 /\ (position + Rate * j) \div frequency \in 0 .. frames - 1
           /\ position + Rate * k >= limit
           /\ k <= (limit + Rate - 1) \div Rate
<1>0. Rate \in Nat \ {0} /\ limit \in Nat /\ frequency \in Nat \ {0}
  BY AudioAssumption
<1>1. k \in Nat /\ CarryOver(limit, position) \in 0 .. Rate - 1
  BY <1>0, ResampleFacts
<1>2. position + Rate * k - limit \in 0 .. Rate - 1
  BY <1>0, <1>1 DEF CarryOver
<1>3. position + Rate * k >= limit
  BY <1>0, <1>1, <1>2
<1>4. ASSUME NEW j \in 0 .. k - 1
      PROVE  position + Rate * j \in Nat /\ position + Rate * j < limit
  <2>1. Rate * j \in Nat /\ Rate * k \in Nat /\ Rate * j + Rate <= Rate * k
    BY <1>0, <1>1, Multiples
  <2> QED
    BY <1>0, <1>2, <2>1
<1>5. ASSUME NEW j \in 0 .. k - 1
      PROVE  (position + Rate * j) \div frequency \in 0 .. frames - 1
  BY <1>0, <1>4, QuotientBelow
<1>6. k <= (limit + Rate - 1) \div Rate
  <2>1. limit + Rate - 1 \in Nat
    BY <1>0
  <2>2. PICK b \in Nat, r \in 0 .. Rate - 1 :
           b = (limit + Rate - 1) \div Rate /\ limit + Rate - 1 = Rate * b + r
    BY <1>0, <2>1, Division
  <2>3. ASSUME k > b PROVE FALSE
    <3>1. Rate * b \in Nat /\ Rate * k \in Nat /\ Rate * b + Rate <= Rate * k
      BY <1>0, <1>1, <2>3, Multiples
    <3> QED
      BY <1>0, <1>2, <2>2, <3>1
  <2> QED
    BY <1>1, <2>2, <2>3
<1> QED
  BY <1>3, <1>4, <1>5, <1>6

-----------------------------------------------------------------------------
(* A connection stays good. *)

(* Without a place in the stream only the waiting packets matter. *)
LEMMA QuietComplete ==
    ASSUME NEW c \in Data, NEW w \in SUBSET Nat, NEW l, NEW m \in Nat,
           c.deferred_audio = <<>>, c.ear.last = 0, c.ear.missed = {},
           w \subseteq 1..m, Followed(w, l, m)
    PROVE  Complete(c, w, l, m)
<1>1. Ids(c.deferred_audio) = {} /\ Rising(c.deferred_audio)
  BY NoIds
<1>2. Heard(c) \cup Ids(c.deferred_audio) \cup w = w
  BY <1>1 DEF Heard
<1>3. c.ear.last <= m /\ \A y \in w : c.ear.last < y
  OBVIOUS
<1> QED
  BY <1>1, <1>2, <1>3 DEF Complete

(* What Complete speaks of is the backlog and the place in the stream. *)
LEMMA SameComplete ==
    ASSUME NEW c, NEW d, NEW w, NEW l, NEW m, Complete(c, w, l, m),
           d.deferred_audio = c.deferred_audio, d.ear.last = c.ear.last,
           d.ear.missed = c.ear.missed
    PROVE  Complete(d, w, l, m)
BY DEF Complete, Heard

LEMMA NewDataGood ==
    ASSUME NEW w \in SUBSET Nat, NEW l, NEW m \in Nat,
           w \subseteq 1..m, Followed(w, l, m)
    PROVE  Good(NewData, "read", w, l, m)
<1> DEFINE c == NewData
<1>1. c \in Data
  <2>1. Deaf \in Ears
    BY AudioAssumption DEF Deaf, Ears
  <2>2. 0 \in 0 .. Rate - 1 /\ <<>> \in Seq(Packets)
    BY AudioAssumption
  <2> QED
    BY <2>1, <2>2, AudioAssumption DEF NewData, Data
<1>2. Speech(c) /\ Silent(c) /\ Drift(c)
  BY AudioAssumption DEF NewData, Deaf, Speech, Silent, Drift
<1>3. Counted(c, "read")
  BY AudioAssumption DEF NewData, Counted, Fits
<1>4. Complete(c, w, l, m)
  BY <1>1, QuietComplete DEF NewData, Deaf
<1> QED
  BY <1>1, <1>2, <1>3, <1>4 DEF Good

(* The loop goes on to a phase in which no audio is sent, ... *)
LEMMA PhaseGood ==
    ASSUME NEW c, NEW p, NEW q, NEW w, NEW l, NEW m, Good(c, p, w, l, m),
           p # "defer", p = "send" => ~InTurn(c), q # "send"
    PROVE  Good(c, q, w, l, m)
BY DEF Good, Counted

(* ... and JPEG output begins, goes on or ends in one of them. *)
LEMMA JPEGGood ==
    ASSUME NEW c, NEW p, NEW q, NEW w, NEW l, NEW m, Good(c, p, w, l, m),
           NEW jpeg \in BOOLEAN,
           p \notin {"defer", "send"}, q \notin {"defer", "send"}
    PROVE  Good([c EXCEPT !.jpeg = jpeg], q, w, l, m)
<1> DEFINE d == [c EXCEPT !.jpeg = jpeg]
<1>1. c \in Data
  BY DEF Good
<1>2. d \in Data
  BY <1>1 DEF Data
<1>3. /\ d.ear = c.ear /\ d.audio_started = c.audio_started
      /\ d.audio_capability_pending = c.audio_capability_pending
      /\ d.audio_supported = c.audio_supported /\ d.audio_enabled = c.audio_enabled
      /\ d.audio_frequency = c.audio_frequency
      /\ d.audio_resample_position = c.audio_resample_position
      /\ d.deferred_audio = c.deferred_audio
      /\ d.deferred_audio_samples = c.deferred_audio_samples
  BY <1>1 DEF Data
<1>4. Speech(d) /\ Drift(d) /\ Silent(d) /\ Counted(d, q)
  BY <1>3 DEF Good, Speech, Drift, Silent, Counted, Fits
<1>5. Complete(d, w, l, m)
  BY <1>3, SameComplete DEF Good
<1> QED
  BY <1>2, <1>4, <1>5 DEF Good

LEMMA EncodingGood ==
    ASSUME NEW c, NEW w, NEW l, NEW m, Good(c, "read", w, l, m)
    PROVE  Good([c EXCEPT !.audio_supported = TRUE,
                          !.audio_capability_pending = TRUE], "read", w, l, m)
<1> DEFINE d == [c EXCEPT !.audio_supported = TRUE, !.audio_capability_pending = TRUE]
<1>1. c \in Data
  BY DEF Good
<1>2. d \in Data
  BY <1>1 DEF Data
<1>3. /\ d.ear = c.ear /\ d.audio_started = c.audio_started
      /\ d.audio_capability_pending /\ d.audio_supported
      /\ d.audio_enabled = c.audio_enabled
      /\ d.audio_frequency = c.audio_frequency
      /\ d.audio_resample_position = c.audio_resample_position
      /\ d.deferred_audio = c.deferred_audio
      /\ d.deferred_audio_samples = c.deferred_audio_samples
  BY <1>1 DEF Data
<1>4. Speech(d) /\ Drift(d) /\ Silent(d) /\ Counted(d, "read")
  BY <1>3 DEF Good, Speech, Drift, Silent, Counted, Fits
<1>5. Complete(d, w, l, m)
  BY <1>3, SameComplete DEF Good
<1> QED
  BY <1>2, <1>4, <1>5 DEF Good

(* The sound of a new format is measured from its beginning. *)
LEMMA EnableGood ==
    ASSUME NEW c, NEW w, NEW l, NEW m, Good(c, "read", w, l, m), c.audio_supported
    PROVE  Good([Rewound(c) EXCEPT !.audio_enabled = TRUE], "read", w, l, m)
<1> DEFINE r == Rewound(c)
           d == [r EXCEPT !.audio_enabled = TRUE]
<1>1. c \in Data
  BY DEF Good
<1>0. r \in Data /\ r = [c EXCEPT !.ear = r.ear, !.audio_resample_position = 0]
  BY <1>1, RewoundFacts
<1>2. d \in Data
  BY <1>0 DEF Data
<1>3. /\ d.ear = r.ear /\ d.audio_started = c.audio_started
      /\ d.audio_capability_pending = c.audio_capability_pending
      /\ d.audio_supported /\ d.audio_frequency = c.audio_frequency
      /\ d.audio_resample_position = 0
      /\ d.deferred_audio = c.deferred_audio
      /\ d.deferred_audio_samples = c.deferred_audio_samples /\ d.audio_enabled
  BY <1>0, <1>1 DEF Data
<1>4. /\ r.ear.state = c.ear.state /\ r.ear.last = c.ear.last
      /\ r.ear.missed = c.ear.missed /\ r.ear.fed = 0 /\ r.ear.played = 0
  BY <1>1, RewoundFacts
<1>5. Drift(d)
  BY <1>1, <1>3, <1>4, AudioAssumption DEF Drift, Data
<1>6. Speech(d) /\ Silent(d) /\ Counted(d, "read")
  BY <1>3, <1>4 DEF Good, Speech, Silent, Counted, Fits
<1>7. Complete(d, w, l, m)
  BY <1>3, <1>4, SameComplete DEF Good
<1> QED
  BY <1>2, <1>5, <1>6, <1>7 DEF Good

LEMMA EndedFacts ==
    ASSUME NEW c \in Data, ~c.jpeg, Speech(c)
    PROVE  /\ Ended(c) \in Data /\ Speech(Ended(c)) /\ ~Ended(c).audio_started
           /\ Ended(c).ear.last = c.ear.last
           /\ Ended(c).ear.missed = c.ear.missed
           /\ \E state \in States : Ended(c).ear.state = state
           /\ Ended(c).audio_supported = c.audio_supported
           /\ Ended(c).audio_enabled = c.audio_enabled
           /\ Ended(c).audio_frequency = c.audio_frequency
           /\ Ended(c).deferred_audio = c.deferred_audio
           /\ Ended(c).deferred_audio_samples = c.deferred_audio_samples
           /\ Ended(c).audio_capability_pending = c.audio_capability_pending
           /\ Ended(c).jpeg = c.jpeg
<1>1. CASE ~c.audio_started
  <2>1. Ended(c) = c
    BY <1>1 DEF Ended
  <2>2. c.ear.state \in States
    BY DEF Data, Ears, States
  <2> QED
    BY <1>1, <2>1, <2>2
<1>2. CASE c.audio_started
  <2> DEFINE s == SendEnd(c)
             d == [s EXCEPT !.audio_started = FALSE]
  <2>1. c.ear.state = "playing" /\ s = Told(c, "offered") /\ "offered" \in States
    BY <1>2 DEF Speech, SendEnd, States
  <2>2. s \in Data /\ s.ear.state = "offered" /\ s.ear.last = c.ear.last
        /\ s.ear.missed = c.ear.missed /\ s = [c EXCEPT !.ear = s.ear]
    BY <2>1, ToldFacts
  <2>3. d \in Data /\ d.ear = s.ear /\ ~d.audio_started
    BY <2>2 DEF Data
  <2>4. /\ d.audio_supported = c.audio_supported /\ d.audio_enabled = c.audio_enabled
        /\ d.audio_frequency = c.audio_frequency
        /\ d.deferred_audio = c.deferred_audio
        /\ d.deferred_audio_samples = c.deferred_audio_samples
        /\ d.audio_capability_pending = c.audio_capability_pending
        /\ d.jpeg = c.jpeg
    BY <2>2 DEF Data
  <2>5. Ended(c) = d
    BY <1>2 DEF Ended
  <2>6. Speech(d)
    BY <2>2, <2>3, <2>4 DEF Speech
  <2> QED
    BY <2>2, <2>3, <2>4, <2>5, <2>6 DEF States
<1> QED
  BY <1>1, <1>2

LEMMA FormatGood ==
    ASSUME NEW c, NEW w, NEW l, NEW m, Good(c, "read", w, l, m), ~c.jpeg,
           NEW f \in 1..Rate
    PROVE  Good(NewFormat(c, f), "read", w, l, m)
<1> DEFINE e == Ended(c)
           r == Rewound(e)
           d == [r EXCEPT !.audio_frequency = f]
<1>1. c \in Data /\ e \in Data /\ Speech(e)
  BY EndedFacts DEF Good
<1>2. r \in Data /\ r.audio_resample_position = 0
      /\ r.ear.state = e.ear.state /\ r.ear.last = c.ear.last
      /\ r.ear.missed = c.ear.missed /\ r.ear.fed = 0 /\ r.ear.played = 0
      /\ r = [e EXCEPT !.ear = r.ear, !.audio_resample_position = 0]
  BY <1>1, RewoundFacts, EndedFacts DEF Good
<1>3. d \in Data
  BY <1>2 DEF Data
<1>4. /\ d.ear = r.ear /\ d.audio_started = e.audio_started
      /\ d.audio_capability_pending = e.audio_capability_pending
      /\ d.audio_supported = e.audio_supported /\ d.audio_enabled = e.audio_enabled
      /\ d.audio_frequency = f /\ d.audio_resample_position = 0
      /\ d.deferred_audio = e.deferred_audio
      /\ d.deferred_audio_samples = e.deferred_audio_samples
  BY <1>1, <1>2 DEF Data
<1>5. /\ d.audio_enabled = c.audio_enabled /\ d.deferred_audio = c.deferred_audio
      /\ d.deferred_audio_samples = c.deferred_audio_samples
  BY <1>1, <1>4, EndedFacts DEF Good
<1>6. Drift(d)
  BY <1>2, <1>4, AudioAssumption DEF Drift
<1>7. Speech(d)
  BY <1>1, <1>2, <1>4 DEF Speech
<1>8. Silent(d) /\ Counted(d, "read")
  BY <1>2, <1>4, <1>5 DEF Good, Silent, Counted, Fits
<1>9. Complete(d, w, l, m)
  <2>1. d.ear.last = c.ear.last /\ d.ear.missed = c.ear.missed
    BY <1>2, <1>4
  <2> QED
    BY <1>5, <2>1, SameComplete DEF Good
<1> QED
  BY <1>3, <1>6, <1>7, <1>8, <1>9 DEF Good, NewFormat

(* Whoever stops listening begins anew. *)
Stopped(c) == [ClearDeferred(Rewound(Ended(c))) EXCEPT
                  !.audio_enabled = FALSE, !.ear.last = 0, !.ear.missed = {}]

LEMMA DisableGood ==
    ASSUME NEW c, NEW w \in SUBSET Nat, NEW l, NEW m \in Nat,
           Good(c, "read", w, l, m), ~c.jpeg, w \subseteq 1..m, Followed(w, l, m)
    PROVE  Good(Stopped(c), "read", w, l, m)
<1> DEFINE e == Ended(c)
           r == Rewound(e)
           x == ClearDeferred(r)
           d == Stopped(c)
<1>1. c \in Data /\ e \in Data /\ Speech(e) /\ ~e.audio_started
  BY EndedFacts DEF Good
<1>2. r \in Data /\ r.audio_resample_position = 0
      /\ r.ear.state = e.ear.state /\ r.ear.fed = 0 /\ r.ear.played = 0
      /\ r = [e EXCEPT !.ear = r.ear, !.audio_resample_position = 0]
  BY <1>1, RewoundFacts
<1>3. x \in Data /\ x.ear = r.ear /\ x.audio_resample_position = 0
      /\ x.deferred_audio = <<>> /\ x.deferred_audio_samples = 0
      /\ x.audio_started = e.audio_started
      /\ x.audio_capability_pending = e.audio_capability_pending
      /\ x.audio_supported = e.audio_supported
      /\ x.audio_frequency = e.audio_frequency
  <2>1. <<>> \in Seq(Packets)
    OBVIOUS
  <2> QED
    BY <1>1, <1>2, <2>1 DEF ClearDeferred, Data
<1>0. d = [x EXCEPT !.audio_enabled = FALSE,
                    !.ear = [x.ear EXCEPT !.last = 0, !.missed = {}]]
  BY <1>3 DEF Stopped, Data
<1> DEFINE y == [x.ear EXCEPT !.last = 0, !.missed = {}]
<1>a. x.ear \in Ears
  BY <1>3 DEF Data
<1>b. /\ y \in Ears /\ y.last = 0 /\ y.missed = {}
      /\ y.state = x.ear.state /\ y.fed = x.ear.fed /\ y.played = x.ear.played
  <2>1. 0 \in 0..MaxPackets /\ {} \in SUBSET (1..MaxPackets)
    BY AudioAssumption
  <2> QED
    BY <1>a, <2>1 DEF Ears
<1>c. d \in Data /\ d.ear = y
  BY <1>0, <1>3, <1>b DEF Data
<1>4. d \in Data /\ d.ear.last = 0 /\ d.ear.missed = {} /\ ~d.audio_enabled
      /\ d.ear.state = x.ear.state /\ d.ear.fed = x.ear.fed
      /\ d.ear.played = x.ear.played
      /\ d.audio_resample_position = 0
      /\ d.deferred_audio = <<>> /\ d.deferred_audio_samples = 0
      /\ d.audio_started = x.audio_started
      /\ d.audio_capability_pending = x.audio_capability_pending
      /\ d.audio_supported = x.audio_supported
      /\ d.audio_frequency = x.audio_frequency
  BY <1>0, <1>3, <1>b, <1>c DEF Data
<1>5. Drift(d)
  <2>1. d.audio_frequency \in Nat /\ Rate \in Nat
    BY <1>4, AudioAssumption DEF Data
  <2>2. d.ear.fed = 0 /\ d.ear.played = 0 /\ d.audio_resample_position = 0
    BY <1>2, <1>3, <1>4
  <2> QED
    BY <2>1, <2>2 DEF Drift
<1>6. Speech(d)
  BY <1>1, <1>2, <1>3, <1>4 DEF Speech
<1>7. Silent(d) /\ Counted(d, "read")
  BY <1>4, AudioAssumption DEF Silent, Counted, Fits
<1>8. Complete(d, w, l, m)
  BY <1>4, QuietComplete
<1> QED
  BY <1>4, <1>5, <1>6, <1>7, <1>8 DEF Good

LEMMA Products == \A a, b \in Nat : a * b \in Nat
OBVIOUS

(* A packet moves from the batch to the backlog of a listener. *)
LEMMA DeferGood ==
    ASSUME NEW c, NEW w \in SUBSET Nat, NEW l, NEW m \in Nat, NEW packet \in Packets,
           NEW u \in SUBSET Nat, u = {packet.id} \cup w, u \subseteq 1..m,
           \A x \in w : packet.id < x,
           Good(c, "defer", u, l, m), c.audio_enabled
    PROVE  Good(Deferred(c, packet), "defer", w, l, m)
<1> DEFINE d == Deferred(c, packet)
           q == c.deferred_audio
<1>1. c \in Data /\ q \in Seq(Packets) /\ Rising(q)
  BY DEF Good, Data, Complete
<1>2. \A x \in Ids(q) : x < packet.id
  BY DEF Good, Complete
<1>3. /\ Append(q, packet) \in Seq(Packets) /\ Len(q) \in Nat
      /\ Len(Append(q, packet)) = Len(q) + 1 /\ Append(q, packet) # <<>>
      /\ Rising(Append(q, packet))
      /\ Ids(Append(q, packet)) = Ids(q) \cup {packet.id}
  BY <1>1, <1>2, Appended
<1>4. packet.frames \in Nat /\ packet.frames \in Lengths
  BY AudioAssumption DEF Packets
<1>5. d \in Data
  <2>1. c.deferred_audio_samples + 2 * packet.frames \in Nat
    BY <1>1, <1>4 DEF Data
  <2> QED
    BY <1>1, <1>3, <2>1 DEF Deferred, Data
<1>6. /\ d.ear = c.ear /\ d.audio_started = c.audio_started
      /\ d.audio_capability_pending = c.audio_capability_pending
      /\ d.audio_supported = c.audio_supported /\ d.audio_enabled
      /\ d.audio_frequency = c.audio_frequency
      /\ d.audio_resample_position = c.audio_resample_position
      /\ d.deferred_audio = Append(q, packet)
      /\ d.deferred_audio_samples = c.deferred_audio_samples + 2 * packet.frames
  BY <1>1 DEF Data, Deferred
<1>7. Speech(d) /\ Drift(d) /\ Silent(d)
  BY <1>6 DEF Good, Speech, Drift, Silent
<1>8. Fits(d)
  <2> SUFFICES ASSUME ShortPackets
               PROVE  (c.deferred_audio_samples + 2 * packet.frames) * MaxQueued
                         <= (Len(q) + 1) * MaxDeferred
    BY <1>3, <1>6 DEF Fits
  <2>1. 2 * packet.frames * MaxQueued <= MaxDeferred
    BY <1>4 DEF ShortPackets
  <2>2. c.deferred_audio_samples * MaxQueued <= Len(q) * MaxDeferred
    BY DEF Good, Counted, Fits
  <2>3. c.deferred_audio_samples \in Nat
    BY <1>1 DEF Data
  <2>4. (c.deferred_audio_samples + 2 * packet.frames) * MaxQueued
           = c.deferred_audio_samples * MaxQueued + 2 * packet.frames * MaxQueued
    BY <1>4, <2>3, AudioAssumption
  <2>5. (Len(q) + 1) * MaxDeferred = Len(q) * MaxDeferred + MaxDeferred
    BY <1>3, AudioAssumption
  <2>6. /\ c.deferred_audio_samples * MaxQueued \in Nat
        /\ 2 * packet.frames * MaxQueued \in Nat /\ Len(q) * MaxDeferred \in Nat
    BY <1>3, <1>4, <2>3, AudioAssumption, Products
  <2> QED
    BY <2>1, <2>2, <2>4, <2>5, <2>6, AudioAssumption
<1>9. Counted(d, "defer")
  BY <1>3, <1>6, <1>8 DEF Counted
<1>10. Complete(d, w, l, m)
  <2>1. Heard(d) \cup Ids(d.deferred_audio) \cup w = Heard(c) \cup Ids(q) \cup u
    BY <1>3, <1>6 DEF Heard
  <2>2. Followed(Heard(d) \cup Ids(d.deferred_audio) \cup w, l, m)
    BY <2>1 DEF Good, Complete
  <2>3. \A x \in Ids(q), y \in w : x < y
    BY DEF Good, Complete
  <2>4. Ids(q) \cup {packet.id} \subseteq 1..m
    BY DEF Good, Complete
  <2>5. \A y \in Ids(q) \cup {packet.id} \cup w : c.ear.last < y
    BY DEF Good, Complete
  <2> QED
    BY <1>3, <1>6, <2>2, <2>3, <2>4, <2>5 DEF Complete, Good
<1> QED
  BY <1>5, <1>7, <1>9, <1>10 DEF Good

(* What is written to a viewer before the packets. *)
LEMMA OfferedFacts ==
    ASSUME NEW c \in Data, Speech(c), ~c.jpeg
    PROVE  LET d == Offered(c)
           IN  /\ d \in Data /\ Speech(d) /\ ~d.audio_capability_pending
               /\ d.ear.last = c.ear.last /\ d.ear.missed = c.ear.missed
               /\ d.ear.fed = c.ear.fed /\ d.ear.played = c.ear.played
               /\ d.audio_supported = c.audio_supported
               /\ d.audio_enabled = c.audio_enabled
               /\ d.audio_frequency = c.audio_frequency
               /\ d.audio_resample_position = c.audio_resample_position
               /\ d.deferred_audio = c.deferred_audio
               /\ d.deferred_audio_samples = c.deferred_audio_samples
               /\ d.jpeg = c.jpeg
<1>1. CASE ~c.audio_capability_pending
  BY <1>1 DEF Offered
<1>2. CASE c.audio_capability_pending
  <2> DEFINE state == IF c.ear.state = "deaf" THEN "offered" ELSE c.ear.state
             s == Told(c, state)
             d == [s EXCEPT !.audio_capability_pending = FALSE]
  <2>1. state \in States
    BY DEF Data, Ears, States
  <2>2. /\ s \in Data /\ s.ear.state = state /\ s = [c EXCEPT !.ear = s.ear]
        /\ s.ear.last = c.ear.last /\ s.ear.missed = c.ear.missed
        /\ s.ear.fed = c.ear.fed /\ s.ear.played = c.ear.played
    BY <2>1, ToldFacts
  <2>3. d \in Data /\ d.ear = s.ear /\ ~d.audio_capability_pending
    BY <2>2 DEF Data
  <2>4. /\ d.audio_supported = c.audio_supported
        /\ d.audio_enabled = c.audio_enabled
        /\ d.audio_started = c.audio_started
        /\ d.audio_frequency = c.audio_frequency
        /\ d.audio_resample_position = c.audio_resample_position
        /\ d.deferred_audio = c.deferred_audio
        /\ d.deferred_audio_samples = c.deferred_audio_samples
        /\ d.jpeg = c.jpeg
    BY <2>2 DEF Data
  <2>5. Offered(c) = d
    BY <1>2 DEF Offered, SendAudioCapability
  <2>6. Speech(d)
    BY <2>2, <2>3, <2>4 DEF Speech
  <2> QED
    BY <2>2, <2>3, <2>4, <2>5, <2>6
<1> QED
  BY <1>1, <1>2

LEMMA BegunFacts ==
    ASSUME NEW c \in Data, Speech(c), ~c.jpeg, ~c.audio_capability_pending
    PROVE  LET d == Begun(c)
           IN  /\ d \in Data /\ Speech(d)
               /\ d.ear.last = c.ear.last /\ d.ear.missed = c.ear.missed
               /\ d.ear.fed = c.ear.fed /\ d.ear.played = c.ear.played
               /\ d.audio_enabled = c.audio_enabled
               /\ d.audio_frequency = c.audio_frequency
               /\ d.audio_resample_position = c.audio_resample_position
               /\ d.deferred_audio = c.deferred_audio
               /\ d.deferred_audio_samples = c.deferred_audio_samples
               /\ d.jpeg = c.jpeg
               /\ Due(d) => d.audio_started
<1>1. CASE ~Due(c) \/ c.audio_started
  BY <1>1 DEF Begun
<1>2. CASE Due(c) /\ ~c.audio_started
  <2> DEFINE s == Told(c, "playing")
             d == [s EXCEPT !.audio_started = TRUE]
  <2>1. c.ear.state = "offered"
    BY <1>2 DEF Speech, Data, Ears, Due
  <2>2. /\ s \in Data /\ s.ear.state = "playing" /\ s = [c EXCEPT !.ear = s.ear]
        /\ s.ear.last = c.ear.last /\ s.ear.missed = c.ear.missed
        /\ s.ear.fed = c.ear.fed /\ s.ear.played = c.ear.played
    BY ToldFacts DEF States
  <2>3. d \in Data /\ d.ear = s.ear /\ d.audio_started
    BY <2>2 DEF Data
  <2>4. /\ d.audio_supported = c.audio_supported
        /\ d.audio_enabled = c.audio_enabled
        /\ d.audio_capability_pending = c.audio_capability_pending
        /\ d.audio_frequency = c.audio_frequency
        /\ d.audio_resample_position = c.audio_resample_position
        /\ d.deferred_audio = c.deferred_audio
        /\ d.deferred_audio_samples = c.deferred_audio_samples
        /\ d.jpeg = c.jpeg
    BY <2>2 DEF Data
  <2>5. Begun(c) = d
    BY <1>2, <2>1 DEF Begun, SendBegin
  <2>6. Speech(d)
    BY <2>2, <2>3, <2>4 DEF Speech
  <2> QED
    BY <2>2, <2>3, <2>4, <2>5, <2>6
<1> QED
  BY <1>1, <1>2

LEMMA ServedGood ==
    ASSUME NEW c, NEW w, NEW l, NEW m, Good(c, "defer", w, l, m), ~TooFarBehind(c)
    PROVE  Good(Served(c), "send", w, l, m)
<1>1. c \in Data /\ Fits(c)
  BY DEF Good, Counted
<1>2. c.deferred_audio_samples <= MaxDeferred
  BY <1>1, AudioAssumption DEF TooFarBehind, Good, Silent, Counted, Data
<1>3. CASE Withheld(c)
  <2>1. Served(c) = c /\ ~InTurn(c)
    BY <1>3 DEF Served, InTurn
  <2>2. Counted(c, "send")
    BY <1>1, <1>2, <2>1 DEF Counted, Good
  <2> QED
    BY <2>1, <2>2 DEF Good
<1>4. CASE ~Withheld(c)
  <2> DEFINE o == Offered(c)
             d == Begun(o)
  <2>1. ~c.jpeg /\ Speech(c)
    BY <1>4 DEF Withheld, Good
  <2>2. /\ o \in Data /\ Speech(o) /\ ~o.audio_capability_pending /\ ~o.jpeg
        /\ o.ear.last = c.ear.last /\ o.ear.missed = c.ear.missed
        /\ o.ear.fed = c.ear.fed /\ o.ear.played = c.ear.played
        /\ o.audio_enabled = c.audio_enabled
        /\ o.audio_frequency = c.audio_frequency
        /\ o.audio_resample_position = c.audio_resample_position
        /\ o.deferred_audio = c.deferred_audio
        /\ o.deferred_audio_samples = c.deferred_audio_samples
    BY <1>1, <2>1, OfferedFacts
  <2>3. /\ d \in Data /\ Speech(d) /\ (Due(d) => d.audio_started)
        /\ d.ear.last = o.ear.last /\ d.ear.missed = o.ear.missed
        /\ d.ear.fed = o.ear.fed /\ d.ear.played = o.ear.played
        /\ d.audio_enabled = o.audio_enabled
        /\ d.audio_frequency = o.audio_frequency
        /\ d.audio_resample_position = o.audio_resample_position
        /\ d.deferred_audio = o.deferred_audio
        /\ d.deferred_audio_samples = o.deferred_audio_samples
    BY <2>2, BegunFacts
  <2>4. Drift(d) /\ Silent(d)
    BY <2>2, <2>3 DEF Drift, Silent, Good
  <2>5. Counted(d, "send")
    BY <1>1, <1>2, <2>2, <2>3 DEF Counted, Good, InTurn, Fits
  <2>6. Complete(d, w, l, m)
    BY <2>2, <2>3, SameComplete DEF Good
  <2>7. Served(c) = d
    BY <1>4 DEF Served
  <2> QED
    BY <2>3, <2>4, <2>5, <2>6, <2>7 DEF Good
<1> QED
  BY <1>3, <1>4

(* One packet is sent. *)
LEMMA SentDataFacts ==
    ASSUME NEW c \in Data, NEW packet \in Packets, Speech(c), Drift(c), ~c.jpeg,
           c.audio_started, packet.id > c.ear.last
    PROVE  LET s == SendAudioData(c, packet)
               between == IF c.ear.last = 0 THEN {}
                          ELSE c.ear.last + 1 .. packet.id - 1
           IN  /\ s \in Data /\ Speech(s) /\ Drift(s) /\ s.audio_started
               /\ s.ear.last = packet.id
               /\ s.ear.missed = c.ear.missed \cup between
               /\ s.audio_enabled = c.audio_enabled
               /\ s.deferred_audio = c.deferred_audio
               /\ s.deferred_audio_samples = c.deferred_audio_samples
               /\ s.jpeg = c.jpeg
<1> DEFINE limit == packet.frames * c.audio_frequency
           between == IF c.ear.last = 0 THEN {} ELSE c.ear.last + 1 .. packet.id - 1
           t == Told(c, "playing")
           position == c.audio_resample_position
           taken == Taken(limit, position)
           over == CarryOver(limit, position)
           e == [t.ear EXCEPT !.last = packet.id, !.missed = @ \cup between,
                              !.fed = @ + packet.frames, !.played = @ + taken]
           s == [t EXCEPT !.audio_resample_position = over, !.ear = e]
<1>1. /\ packet.id \in 1..MaxPackets /\ packet.frames \in Nat
      /\ c.ear \in Ears /\ c.audio_frequency \in 1..Rate
      /\ position \in 0 .. Rate - 1
  BY AudioAssumption DEF Packets, Data
<1>2. limit \in Nat
  BY <1>1, Products, AudioAssumption
<1>3. taken \in Nat /\ over \in 0 .. Rate - 1
  BY <1>1, <1>2, ResampleFacts
<1>4. c.ear.state = "playing"
  BY DEF Speech
<1>5. /\ t \in Data /\ t.ear.state = "playing" /\ t = [c EXCEPT !.ear = t.ear]
      /\ t.ear.last = c.ear.last /\ t.ear.missed = c.ear.missed
      /\ t.ear.fed = c.ear.fed /\ t.ear.played = c.ear.played
  BY ToldFacts DEF States
<1>6. between \in SUBSET (1..MaxPackets)
  BY <1>1, AudioAssumption DEF Ears
<1>7. t.ear \in Ears
  BY <1>5 DEF Data
<1>8. /\ e \in Ears /\ e.state = "playing" /\ e.last = packet.id
      /\ e.missed = c.ear.missed \cup between
      /\ e.fed = c.ear.fed + packet.frames /\ e.played = c.ear.played + taken
  <2>1. /\ t.ear.fed + packet.frames \in Nat /\ t.ear.played + taken \in Nat
        /\ t.ear.missed \cup between \in SUBSET (1..MaxPackets)
        /\ packet.id \in 0..MaxPackets
    BY <1>1, <1>3, <1>6, <1>7 DEF Ears
  <2> QED
    BY <1>5, <1>7, <2>1 DEF Ears
<1>9. s \in Data /\ s.ear = e /\ s.audio_resample_position = over
  BY <1>3, <1>5, <1>8 DEF Data
<1>10. /\ s.audio_started = c.audio_started /\ s.audio_enabled = c.audio_enabled
       /\ s.audio_supported = c.audio_supported
       /\ s.audio_capability_pending = c.audio_capability_pending
       /\ s.audio_frequency = c.audio_frequency
       /\ s.deferred_audio = c.deferred_audio
       /\ s.deferred_audio_samples = c.deferred_audio_samples /\ s.jpeg = c.jpeg
  BY <1>5, ZenonT(40) DEF Data
<1>11. SendAudioData(c, packet) = s
  <2>1. s = [t EXCEPT
               !.audio_resample_position =
                  CarryOver(packet.frames * c.audio_frequency, @),
               !.ear.last = packet.id, !.ear.missed = @ \cup between,
               !.ear.fed = @ + packet.frames,
               !.ear.played =
                  @ + Taken(packet.frames * c.audio_frequency,
                            c.audio_resample_position)]
    BY <1>5, <1>7, ZenonT(40) DEF Data, Ears
  <2> QED
    BY <1>4, <2>1 DEF SendAudioData
<1>12. Drift(s)
  <2>1. c.ear.played * Rate = c.ear.fed * c.audio_frequency + position
    BY DEF Drift
  <2>2. over = position + Rate * taken - limit
    BY DEF CarryOver
  <2>3. c.ear.played \in Nat /\ c.ear.fed \in Nat
    BY <1>1 DEF Ears
  <2>4. (c.ear.played + taken) * Rate = c.ear.played * Rate + Rate * taken
    BY <1>3, <2>3, AudioAssumption
  <2>5. (c.ear.fed + packet.frames) * c.audio_frequency
           = c.ear.fed * c.audio_frequency + limit
    BY <1>1, <2>3, AudioAssumption
  <2>6. /\ c.ear.played * Rate \in Nat /\ Rate * taken \in Nat
        /\ c.ear.fed * c.audio_frequency \in Nat
    BY <1>1, <1>3, <2>3, AudioAssumption, Products
  <2>7. (c.ear.played + taken) * Rate
           = (c.ear.fed + packet.frames) * c.audio_frequency + over
    BY <1>1, <1>2, <1>3, <2>1, <2>2, <2>4, <2>5, <2>6
  <2> QED
    BY <1>8, <1>9, <1>10, <2>7 DEF Drift
<1>13. Speech(s)
  BY <1>8, <1>9, <1>10 DEF Speech
<1>14. /\ s.ear.last = packet.id /\ s.ear.missed = c.ear.missed \cup between
       /\ s.audio_started
  BY <1>8, <1>9, <1>10
<1> HIDE DEF limit, t, position, taken, over, e, s
<1> QED
  BY <1>9, <1>10, <1>11, <1>12, <1>13, <1>14

LEMMA ClearedFacts ==
    ASSUME NEW c \in Data
    PROVE  LET d == ClearDeferred(c)
           IN  /\ d \in Data /\ d.deferred_audio = <<>>
               /\ d.deferred_audio_samples = 0 /\ d.ear = c.ear
               /\ d.audio_started = c.audio_started
               /\ d.audio_enabled = c.audio_enabled
               /\ d.audio_supported = c.audio_supported
               /\ d.audio_capability_pending = c.audio_capability_pending
               /\ d.audio_frequency = c.audio_frequency
               /\ d.audio_resample_position = c.audio_resample_position
               /\ d.jpeg = c.jpeg
<1>1. <<>> \in Seq(Packets)
  OBVIOUS
<1> QED
  BY <1>1 DEF ClearDeferred, Data

LEMMA SentGood ==
    ASSUME NEW c, NEW w \in SUBSET Nat, NEW l, NEW m \in Nat,
           Good(c, "send", w, l, m), InTurn(c)
    PROVE  Good(Sent(c), "send", w, l, m)
<1> DEFINE q == c.deferred_audio
           packet == Head(q)
           s == SendAudioData(c, packet)
           d == Sent(c)
           between == IF c.ear.last = 0 THEN {} ELSE c.ear.last + 1 .. packet.id - 1
<1>1. /\ c \in Data /\ q \in Seq(Packets) /\ q # <<>> /\ Rising(q)
      /\ ~c.jpeg /\ c.audio_enabled /\ c.audio_started /\ Speech(c) /\ Drift(c)
      /\ c.deferred_audio_samples <= MaxDeferred
  BY DEF Good, Data, Complete, InTurn, Due, Withheld, Counted
<1>2. /\ packet \in Packets /\ Tail(q) \in Seq(Packets) /\ Len(q) \in Nat
      /\ Len(Tail(q)) = Len(q) - 1 /\ Rising(Tail(q))
      /\ Ids(q) = {packet.id} \cup Ids(Tail(q))
      /\ \A x \in Ids(Tail(q)) : packet.id < x
  BY <1>1, HeadAndTail
<1>3. packet.id > c.ear.last /\ packet.id \in 1..m /\ packet.id \in Ids(q)
  BY <1>2 DEF Good, Complete, Packets
<1>4. /\ s \in Data /\ Speech(s) /\ Drift(s) /\ s.audio_started
      /\ s.ear.last = packet.id /\ s.ear.missed = c.ear.missed \cup between
      /\ s.audio_enabled /\ s.deferred_audio = q
      /\ s.deferred_audio_samples = c.deferred_audio_samples /\ ~s.jpeg
  BY <1>1, <1>2, <1>3, SentDataFacts
<1>5. /\ d \in Data /\ Speech(d) /\ Drift(d) /\ d.audio_started
      /\ d.ear = s.ear /\ d.audio_enabled
      /\ d.deferred_audio = Tail(q)
      /\ d.deferred_audio_samples <= MaxDeferred
      /\ d.deferred_audio = <<>> => d.deferred_audio_samples = 0
  <2>1. CASE Len(q) = 1
    <3>1. d = ClearDeferred(s)
      BY <2>1 DEF Sent
    <3>2. Tail(q) = <<>>
      <4>1. Len(Tail(q)) = 0
        BY <1>2, <2>1
      <4> QED
        BY <1>2, <4>1, EmptyIs
    <3>3. /\ d \in Data /\ d.deferred_audio = <<>> /\ d.deferred_audio_samples = 0
          /\ d.ear = s.ear /\ d.audio_started = s.audio_started
          /\ d.audio_enabled = s.audio_enabled
          /\ d.audio_supported = s.audio_supported
          /\ d.audio_capability_pending = s.audio_capability_pending
          /\ d.audio_frequency = s.audio_frequency
          /\ d.audio_resample_position = s.audio_resample_position
      BY <1>4, <3>1, ClearedFacts
    <3> QED
      BY <1>4, <3>2, <3>3, AudioAssumption DEF Speech, Drift
  <2>2. CASE Len(q) # 1
    <3>1. d = [s EXCEPT !.deferred_audio = Tail(q)]
      BY <1>4, <2>2 DEF Sent, Data
    <3>2. Tail(q) # <<>>
      <4>1. Len(q) # 0
        BY <1>1, EmptyIs
      <4>2. Len(Tail(q)) # 0
        BY <1>2, <2>2, <4>1
      <4> QED
        BY <1>2, <4>2, EmptyIs
    <3>3. /\ d \in Data /\ d.deferred_audio = Tail(q)
          /\ d.deferred_audio_samples = s.deferred_audio_samples
          /\ d.ear = s.ear /\ d.audio_started = s.audio_started
          /\ d.audio_enabled = s.audio_enabled
          /\ d.audio_supported = s.audio_supported
          /\ d.audio_capability_pending = s.audio_capability_pending
          /\ d.audio_frequency = s.audio_frequency
          /\ d.audio_resample_position = s.audio_resample_position
      BY <1>2, <1>4, <3>1 DEF Data
    <3> QED
      BY <1>1, <1>4, <3>2, <3>3 DEF Speech, Drift
  <2> QED
    BY <2>1, <2>2
<1>6. Silent(d)
  BY <1>5 DEF Silent
<1>7. Counted(d, "send")
  <2>1. ~InTurn(d) => d.deferred_audio = <<>>
    <3>1. d.jpeg = s.jpeg
      BY <1>4, ClearedFacts DEF Sent, Data
    <3> QED
      BY <1>4, <1>5, <3>1 DEF InTurn, Due, Withheld
  <2>2. d.deferred_audio = <<>> => Fits(d)
    <3> SUFFICES ASSUME d.deferred_audio = <<>> PROVE Fits(d)
      OBVIOUS
    <3>1. d.deferred_audio_samples = 0 /\ Len(d.deferred_audio) = 0
      BY <1>5
    <3> QED
      BY <3>1, AudioAssumption DEF Fits
  <2> QED
    BY <1>5, <2>1, <2>2 DEF Counted
<1>8. Complete(d, w, l, m)
  <2>1. Ids(Tail(q)) \subseteq 1..m /\ \A x \in Ids(Tail(q)), y \in w : x < y
    BY <1>2 DEF Good, Complete
  <2>2. \A y \in Ids(Tail(q)) \cup w : packet.id < y
    BY <1>2, <1>3 DEF Good, Complete
  <2>3. between \subseteq l
    <3> SUFFICES ASSUME NEW y \in between PROVE y \in l
      OBVIOUS
    <3>1. c.ear.last # 0 /\ c.ear.last \in Nat /\ y \in (c.ear.last + 1)..(packet.id - 1)
      BY <1>1 DEF Data, Ears
    <3>2. y \in (c.ear.last + 1)..m
      BY <1>3, <3>1
    <3>3. y \in Heard(c) \cup Ids(q) \cup w \cup l
      <4>1. Followed(Heard(c) \cup Ids(q) \cup w, l, m)
        BY DEF Good, Complete
      <4>2. c.ear.last \in Heard(c)
        BY <3>1 DEF Heard
      <4> QED
        BY <3>2, <4>1, <4>2 DEF Followed
    <3>4. y \notin Heard(c)
      BY <3>1 DEF Heard
    <3>5. y < packet.id
      BY <1>3, <3>1
    <3>6. y \notin Ids(q) \cup w
      BY <1>2, <1>3, <2>2, <3>1, <3>5
    <3> QED
      BY <3>3, <3>4, <3>6
  <2>4. d.ear.missed \subseteq l
    BY <1>4, <1>5, <2>3 DEF Good, Complete
  <2>5. Heard(d) = {packet.id}
    BY <1>3, <1>4, <1>5 DEF Heard
  <2>6. Followed({packet.id} \cup Ids(Tail(q)) \cup w, l, m)
    <3> SUFFICES ASSUME NEW x \in Ids(q) \cup w, NEW y \in (x + 1)..m
                 PROVE  y \in Ids(q) \cup w \cup l
      BY <1>2 DEF Followed
    <3>1. y \in Heard(c) \cup Ids(q) \cup w \cup l
      BY DEF Good, Complete, Followed
    <3>2. x \in Nat /\ c.ear.last \in Nat /\ c.ear.last < x
      <4>1. c.ear.last \in Nat
        BY <1>1 DEF Data, Ears
      <4>2. Ids(q) \subseteq 1..m /\ \A z \in Ids(q) \cup w : c.ear.last < z
        BY DEF Good, Complete
      <4>a. ASSUME x \in Ids(q) PROVE x \in Nat
        <5>1. x \in 1..m
          BY <4>2, <4>a
        <5> QED
          BY <5>1
      <4>b. ASSUME x \in w PROVE x \in Nat
        BY <4>b
      <4>3. x \in Nat
        BY <4>a, <4>b
      <4>4. c.ear.last < x
        BY <4>2
      <4> QED
        BY <4>1, <4>3, <4>4
    <3>3. y \notin Heard(c)
      BY <3>2 DEF Heard
    <3> QED
      BY <3>1, <3>3
  <2> QED
    BY <1>2, <1>3, <1>4, <1>5, <2>1, <2>2, <2>4, <2>5, <2>6 DEF Complete
<1> QED
  BY <1>5, <1>6, <1>7, <1>8 DEF Good

(* A packet is decoded, and a full queue loses its oldest. *)
LEMMA QueuedGood ==
    ASSUME NEW c, NEW p, NEW m \in Nat, NEW w \in SUBSET (1..m), NEW l,
           NEW u, NEW k, u \subseteq w \cup {m + 1}, m + 1 \in u,
           w \subseteq u \cup k, l \subseteq k,
           Good(c, p, w, l, m)
    PROVE  Good(c, p, u, k, m + 1)
<1> DEFINE d == Ids(c.deferred_audio)
<1>1. c \in Data /\ c.ear.last \in Nat /\ c.ear.last <= m /\ d \subseteq 1..m
  BY DEF Good, Data, Ears, Complete
<1>2. \A x \in d, y \in u : x < y
  BY <1>1 DEF Good, Complete
<1>3. \A y \in d \cup u : c.ear.last < y
  <2>1. \A y \in d \cup w : c.ear.last < y
    BY DEF Good, Complete
  <2>2. c.ear.last < m + 1
    BY <1>1
  <2> QED
    BY <2>1, <2>2
<1>4. Followed(Heard(c) \cup d \cup u, k, m + 1)
  <2> SUFFICES ASSUME NEW x \in Heard(c) \cup d \cup u, NEW y \in (x + 1)..(m + 1)
               PROVE  y \in Heard(c) \cup d \cup u \cup k
    BY DEF Followed
  <2>1. CASE y = m + 1
    BY <2>1
  <2>2. CASE y # m + 1
    <3>1. x \in Heard(c) \cup d \cup w /\ x \in Nat
      <4>1. x # m + 1
        BY <2>2
      <4>2. x \in Heard(c) \cup d \cup w
        BY <4>1
      <4>3. ASSUME x \in d PROVE x \in Nat
        <5>1. x \in 1..m
          BY <1>1, <4>3
        <5> QED
          BY <5>1
      <4>4. ASSUME x \in w PROVE x \in Nat
        BY <4>4
      <4>5. ASSUME x \in Heard(c) PROVE x \in Nat
        BY <1>1, <4>5 DEF Heard
      <4> QED
        BY <4>2, <4>3, <4>4, <4>5
    <3>2. y \in (x + 1)..m
      BY <2>2, <3>1
    <3>3. y \in Heard(c) \cup d \cup w \cup l
      BY <3>1, <3>2 DEF Good, Complete, Followed
    <3> QED
      BY <3>3
  <2> QED
    BY <2>1, <2>2
<1>5. Complete(c, u, k, m + 1)
  <2>1. d \subseteq 1..(m + 1) /\ c.ear.last <= m + 1
    BY <1>1
  <2>2. Rising(c.deferred_audio) /\ c.ear.missed \subseteq k
    BY DEF Good, Complete
  <2> QED
    BY <1>2, <1>3, <1>4, <2>1, <2>2 DEF Complete
<1> QED
  BY <1>5 DEF Good

-----------------------------------------------------------------------------
(* Every action keeps the invariant. *)

Phases == {"poll", "read", "sync", "audio", "defer", "send", "frame"}

LEMMA WaitingFacts ==
    ASSUME IInv
    PROVE  /\ Waiting \in SUBSET Nat /\ Waiting \subseteq 1..made /\ made \in Nat
           /\ Followed(Waiting, lost, made)
BY AudioAssumption DEF IInv, SharedInv

(* An action of the loop that leaves the packets alone. *)
LEMMA LoopKeeps ==
    ASSUME IInv, UNCHANGED <<subscribed, queue, batch, made, lost>>,
           pc' \in Phases, pc' # "defer" => batch = <<>>,
           client' = [v \in Viewers |-> client'[v]],
           \A v \in Viewers : Open(v)' => Good(client'[v], pc', Waiting, lost, made)
    PROVE  IInv'
<1>1. Waiting' = Waiting
  BY DEF Waiting
<1>2. SharedInv'
  BY <1>1 DEF IInv, SharedInv, Phases
<1>3. ViewersInv'
  BY <1>1 DEF ViewersInv
<1> QED
  BY <1>2, <1>3 DEF IInv

(* An action of one viewer. *)
LEMMA ViewerKeeps ==
    ASSUME IInv, NEW v \in Viewers, NEW d, client' = [client EXCEPT ![v] = d],
           UNCHANGED <<pc, subscribed, queue, batch, made, lost>>,
           d # Closed => Good(d, pc, Waiting, lost, made)
    PROVE  IInv'
<1>1. client = [w \in Viewers |-> client[w]]
  BY DEF IInv, ViewersInv
<1>2. \A w \in Viewers : client'[w] = IF w = v THEN d ELSE client[w]
  BY <1>1
<1>3. client' = [w \in Viewers |-> client'[w]]
  BY <1>1
<1>4. ASSUME NEW w \in Viewers, Open(w)' PROVE Good(client'[w], pc, Waiting, lost, made)
  BY <1>2, <1>4 DEF Open, IInv, ViewersInv
<1>5. pc' \in Phases /\ (pc' # "defer" => batch = <<>>)
  BY DEF IInv, SharedInv, Phases
<1> QED
  BY <1>3, <1>4, <1>5, LoopKeeps

LEMMA QueueAudioKeeps == ASSUME IInv, QueueAudio PROVE IInv'
<1>0. /\ made < MaxPackets /\ made' = made + 1
      /\ lost' = lost \cup IF Len(queue) >= MaxQueued THEN {Head(queue).id} ELSE {}
      /\ UNCHANGED <<pc, client, subscribed, batch>>
  BY DEF QueueAudio
<1>1. /\ queue \in Seq(Packets) /\ Len(queue) <= MaxQueued /\ Len(queue) \in Nat
      /\ made \in 0..MaxPackets /\ MaxPackets \in Nat /\ MaxQueued \in Nat \ {0}
      /\ Rising(queue) /\ Ids(queue) \subseteq 1..made /\ Ids(batch) \subseteq 1..made
      /\ lost \subseteq 1..made /\ \A x \in Ids(batch), y \in Ids(queue) : x < y
  BY AudioAssumption DEF IInv, SharedInv, Waiting
<1>2. PICK n \in Lengths :
         queue' = Append(DropOldest(queue), [id |-> made + 1, frames |-> n])
  BY DEF QueueAudio
<1> DEFINE p == [id |-> made + 1, frames |-> n]
           q == DropOldest(queue)
<1>3. p \in Packets /\ p.id = made + 1
  BY <1>0, <1>1 DEF Packets
<1>4. /\ q \in Seq(Packets) /\ Len(q) + 1 <= MaxQueued /\ Len(q) \in Nat
      /\ Rising(q) /\ Ids(q) \subseteq Ids(queue)
      /\ Ids(queue) \subseteq Ids(q) \cup lost'
      /\ lost' \subseteq 1..made
  <2>1. CASE Len(queue) >= MaxQueued
    <3>1. queue # <<>> /\ Len(queue) = MaxQueued
      BY <1>1, <2>1
    <3>2. q = Tail(queue)
      BY <1>1, <2>1, <3>1 DEF DropOldest
    <3>3. /\ Tail(queue) \in Seq(Packets) /\ Len(Tail(queue)) = Len(queue) - 1
          /\ Rising(Tail(queue))
          /\ Ids(queue) = {Head(queue).id} \cup Ids(Tail(queue))
      BY <1>1, <3>1, HeadAndTail
    <3>4. lost' = lost \cup {Head(queue).id}
      BY <1>0, <2>1
    <3>5. Len(q) + 1 <= MaxQueued /\ Len(q) \in Nat
      BY <1>1, <3>1, <3>2, <3>3
    <3>6. lost' \subseteq 1..made
      BY <1>1, <3>3, <3>4
    <3> QED
      BY <3>2, <3>3, <3>4, <3>5, <3>6
  <2>2. CASE ~(Len(queue) >= MaxQueued)
    <3>1. q = queue /\ lost' = lost
      BY <1>0, <2>2 DEF DropOldest
    <3> QED
      BY <1>1, <2>2, <3>1
  <2> QED
    BY <2>1, <2>2
<1>5. \A x \in Ids(q) : x < p.id
  BY <1>1, <1>3, <1>4
<1>6. /\ queue' \in Seq(Packets) /\ Len(queue') <= MaxQueued /\ Rising(queue')
      /\ Ids(queue') = Ids(q) \cup {made + 1}
  BY <1>2, <1>3, <1>4, <1>5, Appended
<1>7. /\ Waiting' \subseteq Waiting \cup {made + 1} /\ made + 1 \in Waiting'
      /\ Waiting \subseteq Waiting' \cup lost' /\ lost \subseteq lost'
  BY <1>0, <1>4, <1>6 DEF Waiting
<1>8. Waiting \in SUBSET (1..made) /\ made \in Nat
  BY <1>1 DEF Waiting
<1>9. Followed(Waiting', lost', made + 1)
  <2> SUFFICES ASSUME NEW x \in Waiting', NEW y \in (x + 1)..(made + 1)
               PROVE  y \in Waiting' \cup lost'
    BY DEF Followed
  <2>1. CASE y = made + 1
    BY <1>7, <2>1
  <2>2. CASE y # made + 1
    <3>1. x # made + 1
      BY <1>8, <2>2
    <3>2. x \in Waiting /\ x \in 1..made
      BY <1>7, <1>8, <3>1
    <3>3. y \in (x + 1)..made
      BY <1>8, <2>2, <3>2
    <3>4. y \in Waiting \cup lost
      BY <3>2, <3>3 DEF IInv, SharedInv, Followed
    <3> QED
      BY <1>7, <3>4
  <2> QED
    BY <2>1, <2>2
<1>10. SharedInv'
  <2>1. made' \in 0..MaxPackets /\ lost' \subseteq 1..made'
    BY <1>0, <1>1, <1>4
  <2>2. \A x \in Ids(batch), y \in Ids(queue') : x < y
    BY <1>1, <1>4, <1>6
  <2>3. Waiting' \subseteq 1..made'
    BY <1>0, <1>7, <1>8
  <2> QED
    BY <1>0, <1>6, <1>9, <2>1, <2>2, <2>3 DEF IInv, SharedInv
<1>11. ViewersInv'
  <2> SUFFICES ASSUME NEW v \in Viewers, Open(v)
               PROVE  Good(client[v], pc, Waiting', lost', made + 1)
    BY <1>0 DEF IInv, ViewersInv, Open
  <2>1. Good(client[v], pc, Waiting, lost, made)
    BY DEF IInv, ViewersInv
  <2> QED
    BY <1>7, <1>8, <2>1, QueuedGood
<1> QED
  BY <1>10, <1>11 DEF IInv

LEMMA PollKeeps == ASSUME IInv, Poll PROVE IInv'
<1>0. /\ pc = "poll" /\ pc' = "read" /\ batch = <<>>
      /\ UNCHANGED <<subscribed, queue, batch, made, lost>>
  BY DEF Poll, IInv, SharedInv
<1>1. PICK next : /\ \A v \in Viewers : next[v] \in Flushed(client[v])
                  /\ client' = [v \in Viewers |-> Reaped(next[v])]
  BY DEF Poll
<1>2. ASSUME NEW v \in Viewers, Open(v)'
      PROVE  Good(client'[v], "read", Waiting, lost, made)
  <2>1. client'[v] = next[v] /\ next[v] # Closed /\ next[v] # Absent
    BY <1>1, <1>2 DEF Reaped, Open
  <2>2. Open(v) /\ next[v] \in {client[v], [client[v] EXCEPT !.jpeg = FALSE]}
    BY <1>1, <2>1 DEF Flushed, Open
  <2>3. Good(client[v], "poll", Waiting, lost, made)
    BY <1>0, <2>2 DEF IInv, ViewersInv
  <2>4. Good(client[v], "read", Waiting, lost, made)
    BY <2>3, PhaseGood
  <2>5. ASSUME NEW jpeg \in BOOLEAN
        PROVE  Good([client[v] EXCEPT !.jpeg = jpeg], "read", Waiting, lost, made)
    BY <2>3, JPEGGood
  <2> QED
    BY <2>1, <2>2, <2>4, <2>5
<1>3. client' = [v \in Viewers |-> client'[v]]
  BY <1>1
<1> QED
  BY <1>0, <1>2, <1>3, LoopKeeps DEF Phases

LEMMA ReadsGood ==
    ASSUME IInv, NEW v \in Viewers, Reads(v)
    PROVE  /\ Good(client[v], "read", Waiting, lost, made) /\ pc = "read"
           /\ ~client[v].jpeg
           /\ UNCHANGED <<pc, subscribed, queue, batch, made, lost>>
BY DEF Reads, Readable, IInv, ViewersInv

LEMMA ViewerActsKeep == ASSUME IInv, NEW v \in Viewers, ViewerActs(v) PROVE IInv'
<1> DEFINE c == client[v]
<1>1. CASE NewClient(v)
  <2>1. Good(NewData, "read", Waiting, lost, made)
    BY WaitingFacts, NewDataGood
  <2> QED
    BY <1>1, <2>1, ViewerKeeps DEF NewClient
<1>2. CASE AudioEnableEncoding(v)
  <2> DEFINE d == [c EXCEPT !.audio_supported = TRUE, !.audio_capability_pending = TRUE]
  <2>1. client' = [client EXCEPT ![v] = d] /\ Reads(v)
    BY <1>2 DEF AudioEnableEncoding
  <2>2. Good(d, pc, Waiting, lost, made)
    BY <2>1, ReadsGood, EncodingGood
  <2> QED
    BY <2>1, <2>2, ReadsGood, ViewerKeeps
<1>3. CASE AudioEnable(v)
  <2> DEFINE d == [Rewound(c) EXCEPT !.audio_enabled = TRUE]
  <2>1. client' = [client EXCEPT ![v] = d] /\ Reads(v) /\ c.audio_supported
    BY <1>3 DEF AudioEnable
  <2>2. Good(d, pc, Waiting, lost, made)
    BY <2>1, ReadsGood, EnableGood
  <2> QED
    BY <2>1, <2>2, ReadsGood, ViewerKeeps
<1>4. CASE AudioDisable(v)
  <2>1. client' = [client EXCEPT ![v] = Stopped(c)] /\ Reads(v)
    BY <1>4 DEF AudioDisable, Stopped
  <2>2. Good(Stopped(c), pc, Waiting, lost, made)
    BY <2>1, ReadsGood, WaitingFacts, DisableGood
  <2> QED
    BY <2>1, <2>2, ReadsGood, ViewerKeeps
<1>5. CASE AudioSetFormat(v)
  <2>1. Reads(v)
    BY <1>5 DEF AudioSetFormat
  <2>2. PICK f \in Frequencies :
           client' = [client EXCEPT ![v] = IF f \in 1..Rate THEN NewFormat(c, f) ELSE Closed]
    BY <1>5 DEF AudioSetFormat
  <2>3. f \in 1..Rate => Good(NewFormat(c, f), pc, Waiting, lost, made)
    BY <2>1, ReadsGood, FormatGood
  <2> QED
    BY <2>1, <2>2, <2>3, ReadsGood, ViewerKeeps
<1>6. CASE ClientGone(v)
  BY <1>6, ReadsGood, ViewerKeeps DEF ClientGone
<1> QED
  BY <1>1, <1>2, <1>3, <1>4, <1>5, <1>6 DEF ViewerActs

LEMMA EndOfPollKeeps == ASSUME IInv, EndOfPoll PROVE IInv'
<1>0. /\ pc = "read" /\ pc' = "sync" /\ batch = <<>>
      /\ client' = [v \in Viewers |-> Reaped(client[v])]
      /\ UNCHANGED <<subscribed, queue, batch, made, lost>>
  BY DEF EndOfPoll, IInv, SharedInv
<1>1. ASSUME NEW v \in Viewers, Open(v)'
      PROVE  Good(client'[v], "sync", Waiting, lost, made)
  <2>1. client'[v] = client[v] /\ Open(v)
    BY <1>0, <1>1 DEF Reaped, Open
  <2>2. Good(client[v], "read", Waiting, lost, made)
    BY <1>0, <2>1 DEF IInv, ViewersInv
  <2> QED
    BY <2>1, <2>2, PhaseGood
<1>2. client' = [v \in Viewers |-> client'[v]]
  BY <1>0
<1> QED
  BY <1>0, <1>1, <1>2, LoopKeeps DEF Phases

LEMMA SyncKeeps == ASSUME IInv, SyncAudioSubscription PROVE IInv'
<1>0. /\ pc = "sync" /\ pc' = "audio" /\ batch = <<>>
      /\ subscribed' = \E v \in Viewers : Listening(v)
      /\ queue' = IF subscribed THEN KeptQueue(subscribed', queue) ELSE queue
      /\ UNCHANGED <<client, batch, made, lost>>
  BY DEF SyncAudioSubscription, IInv, SharedInv
<1>1. \A v \in Viewers : Open(v) => Good(client[v], "audio", Waiting, lost, made)
  BY <1>0, PhaseGood DEF IInv, ViewersInv
<1>2. CASE queue' = queue
  <2>1. Waiting' = Waiting
    BY <1>0, <1>2 DEF Waiting
  <2>2. ViewersInv'
    BY <1>0, <1>1, <2>1 DEF IInv, ViewersInv, Open
  <2>3. SharedInv'
    BY <1>0, <1>2, <2>1 DEF IInv, SharedInv
  <2> QED
    BY <2>2, <2>3 DEF IInv
<1>3. CASE queue' # queue
  <2>1. queue' = <<>> /\ ~subscribed'
    BY <1>0, <1>3 DEF KeptQueue
  <2>2. Waiting' = {} /\ Ids(queue') = {} /\ Rising(queue')
    BY <1>0, <2>1, NoIds DEF Waiting
  <2>3. Followed({}, lost, made)
    BY DEF Followed
  <2>4. ASSUME NEW v \in Viewers, Open(v)
        PROVE  Good(client[v], "audio", {}, lost, made)
    <3>1. Good(client[v], "audio", Waiting, lost, made) /\ ~client[v].audio_enabled
      BY <1>0, <1>1, <2>1, <2>4 DEF Listening
    <3>2. Complete(client[v], {}, lost, made)
      BY <2>3, <3>1, WaitingFacts, QuietComplete DEF Good, Silent
    <3> QED
      BY <3>1, <3>2 DEF Good
  <2>5. ViewersInv'
    BY <1>0, <2>2, <2>4 DEF IInv, ViewersInv, Open
  <2>6. SharedInv'
    BY <1>0, <2>1, <2>2, <2>3, AudioAssumption DEF IInv, SharedInv
  <2> QED
    BY <2>5, <2>6 DEF IInv
<1> QED
  BY <1>2, <1>3

LEMMA TakeQueueKeeps == ASSUME IInv, TakeQueue PROVE IInv'
<1>0. /\ pc = "audio" /\ pc' = "defer" /\ batch = <<>>
      /\ batch' = queue /\ queue' = <<>>
      /\ UNCHANGED <<client, subscribed, made, lost>>
  BY DEF TakeQueue, IInv, SharedInv
<1>1. Ids(batch) = {} /\ Ids(queue') = {} /\ Rising(queue')
  BY <1>0, NoIds
<1>2. Waiting' = Waiting /\ Ids(batch') = Ids(queue)
  BY <1>0, <1>1 DEF Waiting
<1>3. \A v \in Viewers : Open(v) => Good(client[v], "defer", Waiting, lost, made)
  BY <1>0, PhaseGood DEF IInv, ViewersInv
<1>4. ViewersInv'
  BY <1>0, <1>2, <1>3 DEF IInv, ViewersInv, Open
<1>5. SharedInv'
  BY <1>0, <1>1, <1>2, AudioAssumption DEF IInv, SharedInv
<1> QED
  BY <1>4, <1>5 DEF IInv

LEMMA DeferKeeps == ASSUME IInv, Defer PROVE IInv'
<1> DEFINE p == Head(batch)
           u == Ids(Tail(batch)) \cup Ids(queue)
<1>0. /\ pc = "defer" /\ pc' = "defer" /\ batch # <<>>
      /\ client' = [v \in Viewers |-> IF Listening(v) THEN Deferred(client[v], p)
                                                      ELSE client[v]]
      /\ batch' = Tail(batch)
      /\ UNCHANGED <<subscribed, queue, made, lost>>
  BY DEF Defer
<1>1. /\ batch \in Seq(Packets) /\ Len(batch) <= MaxQueued /\ Rising(batch)
      /\ \A x \in Ids(batch), y \in Ids(queue) : x < y
  BY DEF IInv, SharedInv
<1>2. /\ p \in Packets /\ Tail(batch) \in Seq(Packets)
      /\ Len(Tail(batch)) = Len(batch) - 1 /\ Len(batch) \in Nat
      /\ Rising(Tail(batch)) /\ Ids(batch) = {p.id} \cup Ids(Tail(batch))
      /\ \A x \in Ids(Tail(batch)) : p.id < x
  BY <1>0, <1>1, HeadAndTail
<1>3. /\ Waiting' = u /\ Waiting = {p.id} \cup u /\ \A x \in u : p.id < x
  BY <1>0, <1>1, <1>2 DEF Waiting
<1>4. /\ Waiting \in SUBSET Nat /\ Waiting \subseteq 1..made /\ made \in Nat
      /\ Followed(Waiting, lost, made)
  BY WaitingFacts
<1>5. u \in SUBSET Nat /\ u \subseteq 1..made
  BY <1>3, <1>4
<1>6. Followed(u, lost, made)
  <2> SUFFICES ASSUME NEW x \in u, NEW y \in (x + 1)..made PROVE y \in u \cup lost
    BY DEF Followed
  <2>1. y \in Waiting \cup lost
    BY <1>3, <1>4 DEF Followed
  <2>2. y # p.id
    BY <1>3, <1>5 DEF Packets
  <2> QED
    BY <1>3, <2>1, <2>2
<1>7. SharedInv'
  BY <1>0, <1>1, <1>2, <1>3, <1>5, <1>6, AudioAssumption DEF IInv, SharedInv
<1>8. ASSUME NEW v \in Viewers, Open(v)' PROVE Good(client'[v], "defer", u, lost, made)
  <2>1. CASE Listening(v)
    <3>1. Good(client[v], "defer", Waiting, lost, made) /\ client[v].audio_enabled
      BY <1>0, <2>1 DEF IInv, ViewersInv, Listening
    <3>2. Good(Deferred(client[v], p), "defer", u, lost, made)
      BY <1>2, <1>3, <1>4, <1>5, <3>1, DeferGood
    <3> QED
      BY <1>0, <2>1, <3>2
  <2>2. CASE ~Listening(v)
    <3>1. client'[v] = client[v] /\ Open(v)
      BY <1>0, <1>8, <2>2 DEF Open
    <3>2. Good(client[v], "defer", Waiting, lost, made) /\ ~client[v].audio_enabled
      BY <1>0, <2>2, <3>1 DEF IInv, ViewersInv, Listening
    <3>3. Complete(client[v], u, lost, made)
      BY <1>4, <1>5, <1>6, <3>2, QuietComplete DEF Good, Silent
    <3> QED
      BY <3>1, <3>2, <3>3 DEF Good
  <2> QED
    BY <2>1, <2>2
<1>9. ViewersInv'
  BY <1>0, <1>3, <1>8 DEF ViewersInv
<1> QED
  BY <1>7, <1>9 DEF IInv

LEMMA ServeKeeps == ASSUME IInv, Serve PROVE IInv'
<1>0. /\ pc = "defer" /\ batch = <<>> /\ pc' = "send"
      /\ UNCHANGED <<subscribed, queue, batch, made, lost>>
  BY DEF Serve
<1>1. PICK failed : client' = [v \in Viewers |-> IF ~Open(v) THEN client[v]
                                                 ELSE IF v \in failed THEN Closed
                                                 ELSE Served(client[v])]
  BY DEF Serve
<1>2. ASSUME NEW v \in Viewers, Open(v)'
      PROVE  Good(client'[v], "send", Waiting, lost, made)
  <2>1. Open(v) /\ client'[v] = Served(client[v]) /\ client'[v] # Closed
    BY <1>1, <1>2 DEF Open
  <2>2. ~TooFarBehind(client[v])
    BY <2>1 DEF Served
  <2>3. Good(client[v], "defer", Waiting, lost, made)
    BY <1>0, <2>1 DEF IInv, ViewersInv
  <2> QED
    BY <2>1, <2>2, <2>3, ServedGood
<1>3. client' = [v \in Viewers |-> client'[v]]
  BY <1>1
<1> QED
  BY <1>0, <1>2, <1>3, LoopKeeps DEF Phases

LEMMA SendPacketKeeps == ASSUME IInv, NEW v \in Viewers, SendPacket(v) PROVE IInv'
<1>1. /\ pc = "send" /\ Sending(v)
      /\ UNCHANGED <<pc, subscribed, queue, batch, made, lost>>
      /\ \/ client' = [client EXCEPT ![v] = Sent(client[v])]
         \/ client' = [client EXCEPT ![v] = Closed]
  BY DEF SendPacket
<1>2. Good(client[v], "send", Waiting, lost, made) /\ InTurn(client[v])
  BY <1>1 DEF Sending, InTurn, IInv, ViewersInv
<1>3. Good(Sent(client[v]), "send", Waiting, lost, made)
  BY <1>2, WaitingFacts, SentGood
<1> QED
  BY <1>1, <1>3, ViewerKeeps

LEMMA EndAudioKeeps == ASSUME IInv, EndAudio PROVE IInv'
<1>0. /\ pc = "send" /\ pc' = "frame" /\ batch = <<>>
      /\ UNCHANGED <<client, subscribed, queue, batch, made, lost>>
  BY DEF EndAudio, IInv, SharedInv
<1>1. ASSUME NEW v \in Viewers, Open(v)
      PROVE  Good(client[v], "frame", Waiting, lost, made)
  <2>1. Good(client[v], "send", Waiting, lost, made)
    BY <1>0, <1>1 DEF IInv, ViewersInv
  <2>2. ~InTurn(client[v])
    BY <1>1 DEF EndAudio, Sending, InTurn
  <2> QED
    BY <2>1, <2>2, PhaseGood
<1>2. client' = [v \in Viewers |-> client'[v]]
  BY <1>0 DEF IInv, ViewersInv
<1> QED
  BY <1>0, <1>1, <1>2, LoopKeeps DEF Phases, Open

LEMMA ProcessFrameKeeps == ASSUME IInv, ProcessFrame PROVE IInv'
<1>0. /\ pc = "frame" /\ pc' = "poll" /\ batch = <<>>
      /\ \A v \in Viewers : client'[v] \in Shown(client[v])
      /\ UNCHANGED <<subscribed, queue, batch, made, lost>>
  BY DEF ProcessFrame, IInv, SharedInv
<1>1. ASSUME NEW v \in Viewers, Open(v)'
      PROVE  Good(client'[v], "poll", Waiting, lost, made)
  <2>1. /\ Open(v) /\ client'[v] \in {client[v], [client[v] EXCEPT !.jpeg = TRUE],
                                      [client[v] EXCEPT !.jpeg = FALSE]}
    BY <1>0, <1>1 DEF Shown, Open
  <2>2. Good(client[v], "frame", Waiting, lost, made)
    BY <1>0, <2>1 DEF IInv, ViewersInv
  <2>3. Good(client[v], "poll", Waiting, lost, made)
    BY <2>2, PhaseGood
  <2>4. ASSUME NEW jpeg \in BOOLEAN
        PROVE  Good([client[v] EXCEPT !.jpeg = jpeg], "poll", Waiting, lost, made)
    BY <2>2, JPEGGood
  <2> QED
    BY <2>1, <2>3, <2>4
<1>2. client' = [v \in Viewers |-> client'[v]]
  BY DEF ProcessFrame
<1> QED
  BY <1>0, <1>1, <1>2, LoopKeeps DEF Phases

-----------------------------------------------------------------------------
(* The inductive invariant. *)

LEMMA InitInv == Init => IInv
<1> SUFFICES ASSUME Init PROVE IInv
  OBVIOUS
<1>1. ViewersInv
  BY DEF Init, ViewersInv, Open
<1>2. Waiting = {} /\ Ids(batch) = {} /\ Rising(batch) /\ Rising(queue)
  BY NoIds DEF Init, Waiting
<1>3. Followed({}, lost, made)
  BY DEF Followed
<1>4. /\ queue \in Seq(Packets) /\ Len(queue) <= MaxQueued
      /\ batch \in Seq(Packets) /\ Len(batch) <= MaxQueued
      /\ made \in 0..MaxPackets /\ lost \subseteq 1..made
  <2>1. <<>> \in Seq(Packets) /\ Len(<<>>) = 0
    OBVIOUS
  <2> QED
    BY <2>1, AudioAssumption DEF Init
<1>5. SharedInv
  BY <1>2, <1>3, <1>4 DEF Init, SharedInv
<1> QED
  BY <1>1, <1>5 DEF IInv

LEMMA StepInv == IInv /\ [Next]_vars => IInv'
<1> SUFFICES ASSUME IInv, [Next]_vars PROVE IInv'
  OBVIOUS
<1>1. CASE QueueAudio
  BY <1>1, QueueAudioKeeps
<1>2. CASE Turn
  BY <1>2, PollKeeps, EndOfPollKeeps, SyncKeeps, TakeQueueKeeps, DeferKeeps,
     ServeKeeps, EndAudioKeeps, SendPacketKeeps, ProcessFrameKeeps
     DEF Turn, ProcessAudio
<1>3. ASSUME NEW v \in Viewers, ViewerActs(v) PROVE IInv'
  BY <1>3, ViewerActsKeep
<1>4. CASE UNCHANGED vars
  BY <1>4 DEF vars, IInv, ViewersInv, SharedInv, Waiting, Open
<1> QED
  BY <1>1, <1>2, <1>3, <1>4 DEF Next

(* The inductive invariant holds in every reachable state. *)
THEOREM Invariant == Spec => []IInv
BY InitInv, StepInv, PTL DEF Spec

(* Queue and backlogs are within their limits (QueueAudio, ProcessAudio),  *)
(* whatever the limits are.                                                *)
THEOREM TypeCorrect == Spec => []TypeOK
<1>1. IInv => TypeOK
  BY DEF IInv, ViewersInv, SharedInv, TypeOK, Good, Counted
<1> QED
  BY <1>1, Invariant, PTL

(* Every stream is well formed, whatever the viewers ask for and whenever  *)
(* JPEG output holds it up (ProcessAudio, AudioHandleMessage).             *)
THEOREM WellFormed == Spec => []StreamUnderstood
<1>1. IInv => StreamUnderstood
  BY DEF IInv, ViewersInv, StreamUnderstood, Good, Speech
<1> QED
  BY <1>1, Invariant, PTL

(* Only a full queue loses packets (QueueAudio, ProcessAudio).             *)
THEOREM NoneSkipped == Spec => []NothingSkipped
<1>1. IInv => NothingSkipped
  <2> SUFFICES ASSUME IInv, NEW v \in Viewers, Listening(v)
               PROVE  /\ client[v].ear.missed \subseteq lost
                      /\ client[v].ear.last > 0 =>
                            (client[v].ear.last + 1)..made
                              \subseteq Ids(client[v].deferred_audio) \cup Ids(batch)
                                        \cup Ids(queue) \cup lost
    BY DEF NothingSkipped
  <2> DEFINE c == client[v]
  <2>1. Complete(c, Waiting, lost, made) /\ c.ear.last \in Nat
    BY DEF IInv, ViewersInv, Good, Listening, Data, Ears
  <2>2. ASSUME c.ear.last > 0, NEW y \in (c.ear.last + 1)..made
        PROVE  y \in Ids(c.deferred_audio) \cup Waiting \cup lost
    <3>1. Heard(c) = {c.ear.last}
      BY <2>2 DEF Heard
    <3>2. y \in Heard(c) \cup Ids(c.deferred_audio) \cup Waiting \cup lost
      BY <2>1, <3>1 DEF Complete, Followed
    <3>3. y # c.ear.last
      BY <2>1
    <3> QED
      BY <3>1, <3>2, <3>3
  <2> QED
    BY <2>1, <2>2 DEF Complete, Waiting
<1> QED
  BY <1>1, Invariant, PTL

(* Resampling keeps time for every pair of rates (ConvertAudio).           *)
THEOREM TimeKept == Spec => []NoDrift
<1>1. IInv => NoDrift
  BY DEF IInv, ViewersInv, NoDrift, Good, Drift
<1> QED
  BY <1>1, Invariant, PTL

(* Nobody who keeps up is closed for the backlog (ProcessAudio).           *)
THEOREM FastViewersStay == Spec => []OnlySlowViewersCut
<1>1. IInv => OnlySlowViewersCut
  <2> SUFFICES ASSUME IInv, ShortPackets, NEW v \in Viewers, pc = "defer",
                      Listening(v), TooFarBehind(client[v]),
                      Len(client[v].deferred_audio) <= MaxQueued
               PROVE  FALSE
    <3>1. \A v \in Viewers : Listening(v) => Len(client[v].deferred_audio) \in Nat
      BY DEF IInv, ViewersInv, Listening, Good, Data
    <3> QED
      BY <3>1, AudioAssumption DEF OnlySlowViewersCut
  <2> DEFINE c == client[v]
             n == Len(c.deferred_audio)
             k == c.deferred_audio_samples
  <2>1. /\ n \in Nat /\ k \in Nat /\ k > MaxDeferred
        /\ k * MaxQueued <= n * MaxDeferred
    BY DEF IInv, ViewersInv, Listening, TooFarBehind, Good, Data, Counted, Fits
  <2>2. MaxQueued \in Nat \ {0} /\ MaxDeferred \in Nat
    BY AudioAssumption
  <2>3. n * MaxDeferred <= MaxQueued * MaxDeferred
    BY <2>1, <2>2
  <2>4. k * MaxQueued > MaxDeferred * MaxQueued
    BY <2>1, <2>2
  <2>5. /\ MaxDeferred * MaxQueued = MaxQueued * MaxDeferred
        /\ k * MaxQueued \in Nat /\ n * MaxDeferred \in Nat
        /\ MaxDeferred * MaxQueued \in Nat
    BY <2>1, <2>2, Products
  <2> QED
    BY <2>1, <2>3, <2>4, <2>5
<1> QED
  BY <1>1, Invariant, PTL
=============================================================================
