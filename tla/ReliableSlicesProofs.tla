------------------------ MODULE ReliableSlicesProofs ------------------------
(***************************************************************************)
(* Proofs about the slice transport, for any senders, messages of any       *)
(* number of slices, any number of buffers and tries, and whatever the     *)
(* network loses or the checker removes: it implements LossyChannel, the   *)
(* reformer loses none of its buffers to a message that was sent, and what *)
(* the sender holds for sent has arrived.                                  *)
(*                                                                         *)
(* Slices arrive in the order of (message, slice), perhaps again.  When a  *)
(* message has been put together, only its last slice can still be on its  *)
(* way; the reformer has emptied its buffer, so that it takes no slice but *)
(* a first one, and a message of several slices is not put together twice. *)
(* An earlier copy of the same content may have left slices in the buffer: *)
(* they may complete a later copy, never one that was delivered.           *)
(*                                                                         *)
(* The buffers need a second invariant, which follows one message on both   *)
(* ways: while it is sent, slices and acknowledgements of it are of the    *)
(* current slice and the one before, and once the current one has been     *)
(* acknowledged no earlier one is left.  The last acknowledgement comes    *)
(* therefore after the buffer was emptied, and what is still on its way    *)
(* cannot fill it: of a message with two slices a last one is no first.    *)
(*                                                                         *)
(* What was acknowledged is a third one, for every message that was never  *)
(* refused or expired, given up or not.  Count the slices of all copies of *)
(* it: the sender is at the slices acknowledged to it, the receiver at     *)
(* those it has taken.  An acknowledgement on its way tells the sender of a*)
(* place the receiver had passed when it was sent, though not of which     *)
(* copy; those places only grow.  The sender goes one slice on at most, so *)
(* that it never gets past the receiver, and as no buffer holds a whole    *)
(* message, it counts no copy that the receiver has not put together.      *)
(***************************************************************************)
EXTENDS ReliableSlices, TLAPS, FiniteSetTheorems

Slice == [pid : Msg, sid : Nat, no : Nat]

\* The slices q on their way are of the messages ms, the last of them of
\* slice k at most; none is of a message before the one delivered last.
OnTheWay(q, ms, last, k) ==
  /\ q \in Seq(Slice)
  /\ \A i \in 1 .. Len(q) :
       /\ q[i].no \in 1 .. Len(ms) /\ q[i].pid = ms[q[i].no]
       /\ q[i].sid \in 1 .. Slices[q[i].pid]
       /\ last <= q[i].no
       /\ q[i].no = Len(ms) => q[i].sid <= k
  /\ \A i, j \in 1 .. Len(q) :
       i < j => q[i].no < q[j].no \/ (q[i].no = q[j].no /\ q[i].sid <= q[j].sid)

\* Of the message delivered last only last slices follow, and its buffer b is
\* empty as long as one may.
Complete(q, ms, last, k, b) ==
  last > 0 /\ Slices[ms[last]] > 1 =>
    /\ last = Len(ms) => k = Slices[ms[last]] /\ b[ms[last]] = 0
    /\ \A i \in 1 .. Len(q) :
         q[i].no = last => q[i].sid = Slices[ms[last]] /\ b[ms[last]] = 0

Types ==
  /\ at \in [Sender -> {"idle", "send", "wait"}]
  /\ sid \in [Sender -> Nat]
  /\ toReceiver \in [Sender -> Seq(Slice)]
  /\ stored \in [Msg -> Nat]
  /\ sent \in [Sender -> Seq(Msg)]
  /\ got \in [Sender -> Seq(Nat)]

\* Of a sender s that stands at a, has sent ms, is at slice k of the last of
\* them, and has the slices q on their way.
Consistent(s, a, ms, k, last, q, b) ==
  /\ \A i \in 1 .. Len(ms) : From[ms[i]] = s
  /\ a # "idle" => Len(ms) > 0
  /\ Len(ms) > 0 => k \in 1 .. Slices[ms[Len(ms)]]
  /\ last \in 0 .. Len(ms)
  /\ OnTheWay(q, ms, last, k)
  /\ Complete(q, ms, last, k, b)

SenderInv(s) ==
  Consistent(s, at[s], sent[s], sid[s], Channel!LastGot(s), toReceiver[s], stored)

IInv == Types /\ \A s \in Sender : SenderInv(s)

-----------------------------------------------------------------------------
(* Slices on their way. *)

\* The first slice is taken off, and perhaps completes its message.
LEMMA TailOnTheWay ==
  ASSUME NEW q, NEW ms, NEW k, NEW last \in Nat, OnTheWay(q, ms, last, k), q # <<>>,
         NEW d, d = last \/ d = Head(q).no
  PROVE  OnTheWay(Tail(q), ms, d, k)
<1> DEFINE r == Tail(q)
<1>1. /\ Len(q) \in Nat /\ r \in Seq(Slice) /\ Len(r) = Len(q) - 1
      /\ 1 \in 1 .. Len(q) /\ Head(q) = q[1]
      /\ \A i \in 1 .. Len(r) : r[i] = q[i + 1] /\ i + 1 \in 1 .. Len(q) /\ 1 < i + 1
      /\ \A i \in 1 .. Len(q) : q[i].no \in Nat
  BY DEF OnTheWay, Slice
<1> HIDE DEF r
<1>2. ASSUME NEW i \in 1 .. Len(r)
      PROVE  /\ r[i].no \in 1 .. Len(ms) /\ r[i].pid = ms[r[i].no]
             /\ r[i].sid \in 1 .. Slices[r[i].pid]
             /\ d <= r[i].no
             /\ r[i].no = Len(ms) => r[i].sid <= k
  <2>1. /\ q[i + 1].no \in 1 .. Len(ms) /\ q[i + 1].pid = ms[q[i + 1].no]
        /\ q[i + 1].sid \in 1 .. Slices[q[i + 1].pid]
        /\ last <= q[i + 1].no
        /\ q[i + 1].no = Len(ms) => q[i + 1].sid <= k
    BY <1>1 DEF OnTheWay
  <2>2. q[1].no <= q[i + 1].no
    BY <1>1 DEF OnTheWay
  <2> QED BY <1>1, <2>1, <2>2
<1>3. ASSUME NEW i \in 1 .. Len(r), NEW j \in 1 .. Len(r), i < j
      PROVE  r[i].no < r[j].no \/ (r[i].no = r[j].no /\ r[i].sid <= r[j].sid)
  <2>1. i + 1 \in 1 .. Len(q) /\ j + 1 \in 1 .. Len(q) /\ i + 1 < j + 1
    BY <1>1, <1>3
  <2>2. \/ q[i + 1].no < q[j + 1].no
        \/ q[i + 1].no = q[j + 1].no /\ q[i + 1].sid <= q[j + 1].sid
    BY <2>1 DEF OnTheWay
  <2> QED BY <1>1, <2>2
<1> QED BY <1>1, <1>2, <1>3 DEF OnTheWay, r

\* The current slice is sent, perhaps again.
LEMMA SendOnTheWay ==
  ASSUME NEW q, NEW ms \in Seq(Msg), NEW k \in Nat, NEW last \in Nat, OnTheWay(q, ms, last, k),
         Len(ms) > 0, last <= Len(ms), k \in 1 .. Slices[ms[Len(ms)]],
         NEW p \in Slice, p.no = Len(ms), p.pid = ms[Len(ms)], p.sid = k
  PROVE  OnTheWay(Append(q, p), ms, last, k)
<1> DEFINE r == Append(q, p)
<1>1. /\ Len(q) \in Nat /\ r \in Seq(Slice) /\ Len(r) = Len(q) + 1 /\ Len(ms) \in Nat
      /\ r[Len(r)] = p /\ \A i \in 1 .. Len(q) : r[i] = q[i]
      /\ \A i \in 1 .. Len(r) : i \in 1 .. Len(q) \/ i = Len(r)
      /\ \A i \in 1 .. Len(q) : q[i].no \in Nat /\ q[i].sid \in Nat
  BY DEF OnTheWay, Slice
<1> HIDE DEF r
<1>2. ASSUME NEW i \in 1 .. Len(r)
      PROVE  /\ r[i].no \in 1 .. Len(ms) /\ r[i].pid = ms[r[i].no]
             /\ r[i].sid \in 1 .. Slices[r[i].pid]
             /\ last <= r[i].no
             /\ r[i].no = Len(ms) => r[i].sid <= k
  <2>1. CASE i \in 1 .. Len(q)
    BY <1>1, <2>1 DEF OnTheWay
  <2>2. CASE i = Len(r)
    BY <1>1, <2>2
  <2> QED BY <1>1, <2>1, <2>2
<1>3. ASSUME NEW i \in 1 .. Len(r), NEW j \in 1 .. Len(r), i < j
      PROVE  r[i].no < r[j].no \/ (r[i].no = r[j].no /\ r[i].sid <= r[j].sid)
  <2>1. i \in 1 .. Len(q)
    BY <1>1, <1>3
  <2>2. CASE j \in 1 .. Len(q)
    <3>1. q[i].no < q[j].no \/ (q[i].no = q[j].no /\ q[i].sid <= q[j].sid)
      BY <1>3, <2>1, <2>2 DEF OnTheWay
    <3>2. r[i] = q[i] /\ r[j] = q[j]
      BY <1>1, <2>1, <2>2
    <3> QED BY <3>1, <3>2
  <2>3. CASE j = Len(r)
    <3>1. q[i].no \in 1 .. Len(ms) /\ (q[i].no = Len(ms) => q[i].sid <= k)
      BY <2>1 DEF OnTheWay
    <3> QED BY <1>1, <2>1, <2>3, <3>1
  <2> QED BY <1>1, <2>2, <2>3
<1> QED BY <1>1, <1>2, <1>3 DEF OnTheWay, r

\* The sender goes on to its next slice.
LEMMA NextOnTheWay ==
  ASSUME NEW q, NEW ms, NEW k \in Nat, NEW last, OnTheWay(q, ms, last, k)
  PROVE  OnTheWay(q, ms, last, k + 1)
<1>1. \A i \in 1 .. Len(q) : q[i].sid \in Nat
  BY DEF OnTheWay, Slice
<1> QED BY <1>1 DEF OnTheWay

\* The sender begins a message.
LEMMA BeginOnTheWay ==
  ASSUME NEW q, NEW ms \in Seq(Msg), NEW m \in Msg, NEW k, NEW n, NEW last, OnTheWay(q, ms, last, k)
  PROVE  OnTheWay(q, Append(ms, m), last, n)
<1> DEFINE r == Append(ms, m)
<1>1. /\ Len(ms) \in Nat /\ Len(r) = Len(ms) + 1
      /\ \A i \in 1 .. Len(ms) : r[i] = ms[i] /\ i \in 1 .. Len(r) /\ i # Len(r)
  OBVIOUS
<1> HIDE DEF r
<1>2. OnTheWay(q, r, last, n)
  BY <1>1 DEF OnTheWay
<1> QED BY <1>2 DEF r

-----------------------------------------------------------------------------
(* What a step changes of one sender. *)

\* A buffer of its messages may be emptied; it may also stand anywhere else.
LEMMA FreedConsistent ==
  ASSUME NEW s, NEW a, NEW ms \in Seq(Msg), NEW k, NEW last, NEW q, NEW b,
         Consistent(s, a, ms, k, last, q, b),
         NEW a2, a2 # "idle" => Len(ms) > 0,
         NEW c, \A m \in Msg : From[m] = s => c[m] \in {b[m], 0}
  PROVE  Consistent(s, a2, ms, k, last, q, c)
<1>1. last > 0 => ms[last] \in Msg /\ From[ms[last]] = s
  BY DEF Consistent
<1>2. last > 0 => (b[ms[last]] = 0 => c[ms[last]] = 0)
  BY <1>1
<1>3. Complete(q, ms, last, k, c)
  BY <1>2 DEF Consistent, Complete
<1> QED BY <1>3 DEF Consistent

LEMMA BeginConsistent ==
  ASSUME NEW s, NEW a, NEW ms \in Seq(Msg), NEW k, NEW last, NEW q, NEW b,
         Consistent(s, a, ms, k, last, q, b),
         NEW a2, NEW m \in Msg, From[m] = s
  PROVE  Consistent(s, a2, Append(ms, m), 1, last, q, b)
<1> DEFINE r == Append(ms, m)
<1>1. /\ Len(ms) \in Nat /\ Len(r) = Len(ms) + 1 /\ r[Len(r)] = m
      /\ \A i \in 1 .. Len(ms) : r[i] = ms[i]
      /\ \A i \in 1 .. Len(r) : i \in 1 .. Len(ms) \/ i = Len(r)
  OBVIOUS
<1>2. OnTheWay(q, r, last, 1)
  BY BeginOnTheWay DEF Consistent
<1> HIDE DEF r
<1>3. last \in 0 .. Len(ms) /\ \A i \in 1 .. Len(r) : From[r[i]] = s
  BY <1>1 DEF Consistent
<1>4. Complete(q, r, last, 1, b)
  BY <1>1, <1>3 DEF Consistent, Complete
<1>5. Slices[m] \in Nat \ {0}
  BY SlicesAssumption
<1>6. Consistent(s, a2, r, 1, last, q, b)
  BY <1>1, <1>2, <1>3, <1>4, <1>5 DEF Consistent
<1> QED BY <1>6 DEF r

LEMMA SendConsistent ==
  ASSUME NEW s, NEW a, NEW ms \in Seq(Msg), NEW k \in Nat, NEW last, NEW q, NEW b,
         Consistent(s, a, ms, k, last, q, b), a # "idle",
         NEW p \in Slice, p.no = Len(ms), p.pid = ms[Len(ms)], p.sid = k
  PROVE  Consistent(s, a, ms, k, last, Append(q, p), b)
<1> DEFINE r == Append(q, p)
<1>1. /\ q \in Seq(Slice) /\ Len(ms) > 0 /\ k \in 1 .. Slices[ms[Len(ms)]]
      /\ last \in Nat /\ last <= Len(ms)
  BY DEF Consistent, OnTheWay
<1>2. /\ Len(r) = Len(q) + 1 /\ r[Len(r)] = p /\ \A i \in 1 .. Len(q) : r[i] = q[i]
      /\ \A i \in 1 .. Len(r) : i \in 1 .. Len(q) \/ i = Len(r)
  BY <1>1
<1>3. OnTheWay(r, ms, last, k)
  BY <1>1, SendOnTheWay DEF Consistent
<1> HIDE DEF r
<1>4. Complete(r, ms, last, k, b)
  BY <1>2 DEF Consistent, Complete
<1>5. Consistent(s, a, ms, k, last, r, b)
  BY <1>3, <1>4 DEF Consistent
<1> QED BY <1>5 DEF r

\* The message delivered last has no next slice.
LEMMA NextConsistent ==
  ASSUME NEW s, NEW a, NEW ms \in Seq(Msg), NEW k \in Nat, NEW last, NEW q, NEW b,
         Consistent(s, a, ms, k, last, q, b), a # "idle", k # Slices[ms[Len(ms)]],
         NEW a2
  PROVE  Consistent(s, a2, ms, k + 1, last, q, b)
<1>1. /\ Len(ms) > 0 /\ k \in 1 .. Slices[ms[Len(ms)]] /\ Slices[ms[Len(ms)]] \in Nat
  BY SlicesAssumption DEF Consistent
<1>2. OnTheWay(q, ms, last, k + 1)
  BY NextOnTheWay DEF Consistent
<1>3. Complete(q, ms, last, k + 1, b)
  BY <1>1 DEF Consistent, Complete
<1> QED BY <1>1, <1>2, <1>3 DEF Consistent

-----------------------------------------------------------------------------
(* The receiver takes the first of the slices on their way: it drops it,    *)
(* keeps it, or puts a message together.                                    *)

\* What is known of the first slice.
First(s, ms, k, last, q, b) ==
  /\ Head(q) \in Slice /\ From[Head(q).pid] = s
  /\ Head(q).no \in 1 .. Len(ms) /\ Head(q).pid = ms[Head(q).no]
  /\ Head(q).sid \in 1 .. Slices[Head(q).pid]
  /\ Slices[Head(q).pid] \in Nat \ {0}
  /\ last <= Head(q).no /\ last \in Nat
  /\ Head(q).no = Len(ms) => Head(q).sid <= k
  /\ last > 0 /\ Slices[ms[last]] > 1 /\ Head(q).no = last =>
       Head(q).sid = Slices[ms[last]] /\ b[ms[last]] = 0
  /\ \A i \in 1 .. Len(Tail(q)) :
       /\ i + 1 \in 1 .. Len(q) /\ Tail(q)[i] = q[i + 1]
       /\ Tail(q)[i].no \in Nat /\ Tail(q)[i].sid \in Nat
       /\ Tail(q)[i].sid <= Slices[ms[Tail(q)[i].no]]
       /\ Head(q).no <= Tail(q)[i].no
       /\ Head(q).no = Tail(q)[i].no => Head(q).sid <= Tail(q)[i].sid

LEMMA FirstSlice ==
  ASSUME NEW s, NEW a, NEW ms \in Seq(Msg), NEW k, NEW last, NEW q, NEW b,
         Consistent(s, a, ms, k, last, q, b), q # <<>>
  PROVE  First(s, ms, k, last, q, b)
<1>1. /\ q \in Seq(Slice) /\ 1 \in 1 .. Len(q) /\ Head(q) = q[1] /\ Head(q) \in Slice
      /\ last \in Nat
      /\ \A i \in 1 .. Len(Tail(q)) :
           i + 1 \in 1 .. Len(q) /\ 1 < i + 1 /\ Tail(q)[i] = q[i + 1] /\ Tail(q)[i] \in Slice
  BY DEF Consistent, OnTheWay
<1>2. /\ q[1].no \in 1 .. Len(ms) /\ q[1].pid = ms[q[1].no]
      /\ q[1].sid \in 1 .. Slices[q[1].pid]
      /\ last <= q[1].no
      /\ q[1].no = Len(ms) => q[1].sid <= k
  BY <1>1 DEF Consistent, OnTheWay
<1>3. last > 0 /\ Slices[ms[last]] > 1 /\ q[1].no = last =>
        q[1].sid = Slices[ms[last]] /\ b[ms[last]] = 0
  BY <1>1 DEF Consistent, Complete
<1>4. From[q[1].pid] = s /\ Slices[q[1].pid] \in Nat \ {0}
  BY <1>2, SlicesAssumption DEF Consistent
<1>5. ASSUME NEW i \in 1 .. Len(Tail(q))
      PROVE  /\ Tail(q)[i].no \in Nat /\ Tail(q)[i].sid \in Nat
             /\ Tail(q)[i].sid <= Slices[ms[Tail(q)[i].no]]
             /\ q[1].no <= Tail(q)[i].no
             /\ q[1].no = Tail(q)[i].no => q[1].sid <= Tail(q)[i].sid
  <2>1. i + 1 \in 1 .. Len(q) /\ 1 < i + 1 /\ Tail(q)[i] = q[i + 1] /\ Tail(q)[i] \in Slice
    BY <1>1
  <2>2. q[1].no < q[i + 1].no \/ (q[1].no = q[i + 1].no /\ q[1].sid <= q[i + 1].sid)
    BY <1>1, <2>1 DEF Consistent, OnTheWay
  <2>3. /\ q[i + 1].no \in 1 .. Len(ms) /\ q[i + 1].pid = ms[q[i + 1].no]
        /\ q[i + 1].sid \in 1 .. Slices[q[i + 1].pid]
    BY <2>1 DEF Consistent, OnTheWay
  <2> QED BY <1>1, <1>2, <2>1, <2>2, <2>3 DEF Slice
<1> QED BY <1>1, <1>2, <1>3, <1>4, <1>5 DEF First

LEMMA DropConsistent ==
  ASSUME NEW s, NEW a, NEW ms \in Seq(Msg), NEW k, NEW last, NEW q, NEW b,
         Consistent(s, a, ms, k, last, q, b), q # <<>>
  PROVE  Consistent(s, a, ms, k, last, Tail(q), b)
<1>1. last \in Nat /\ \A i \in 1 .. Len(Tail(q)) : i + 1 \in 1 .. Len(q) /\ Tail(q)[i] = q[i + 1]
  <2>1. First(s, ms, k, last, q, b)
    BY FirstSlice
  <2> QED BY <2>1 DEF First
<1>2. OnTheWay(Tail(q), ms, last, k)
  BY <1>1, TailOnTheWay DEF Consistent
<1>3. Complete(Tail(q), ms, last, k, b)
  BY <1>1 DEF Consistent, Complete
<1> QED BY <1>2, <1>3 DEF Consistent

\* A slice is kept only of a message after the one delivered last.
LEMMA KeepConsistent ==
  ASSUME NEW s, NEW a, NEW ms \in Seq(Msg), NEW k, NEW last, NEW q, NEW b \in [Msg -> Nat],
         Consistent(s, a, ms, k, last, q, b), q # <<>>,
         Head(q).sid = b[Head(q).pid] + 1, Head(q).sid # Slices[Head(q).pid]
  PROVE  Consistent(s, a, ms, k, last, Tail(q), [b EXCEPT ![Head(q).pid] = Head(q).sid])
<1> DEFINE c == [b EXCEPT ![Head(q).pid] = Head(q).sid]
<1>1. Consistent(s, a, ms, k, last, Tail(q), b) /\ First(s, ms, k, last, q, b)
  BY DropConsistent, FirstSlice
<1>2. Complete(Tail(q), ms, last, k, c)
  <2>1. SUFFICES ASSUME last > 0, Slices[ms[last]] > 1
                 PROVE  /\ last # Len(ms)
                        /\ \A i \in 1 .. Len(Tail(q)) : Tail(q)[i].no # last
    BY DEF Complete
  <2>2. Head(q).no # last /\ last <= Head(q).no /\ last \in Nat /\ Head(q).no \in 1 .. Len(ms)
    BY <1>1, <2>1 DEF First
  <2>3. \A i \in 1 .. Len(Tail(q)) : Head(q).no <= Tail(q)[i].no /\ Tail(q)[i].no \in Nat
    BY <1>1 DEF First
  <2> QED BY <2>2, <2>3
<1> QED BY <1>1, <1>2 DEF Consistent

\* A message put together: what is left of it on its way are last slices.
LEMMA PutTogetherConsistent ==
  ASSUME NEW s, NEW a, NEW ms \in Seq(Msg), NEW k \in Nat, NEW last, NEW q, NEW b \in [Msg -> Nat],
         Consistent(s, a, ms, k, last, q, b), q # <<>>,
         Head(q).sid = Slices[Head(q).pid]
  PROVE  Consistent(s, a, ms, k, Head(q).no, Tail(q), [b EXCEPT ![Head(q).pid] = 0])
<1> DEFINE c == [b EXCEPT ![Head(q).pid] = 0]
           d == Head(q).no
<1>1. /\ last \in Nat /\ d \in 1 .. Len(ms) /\ Head(q).pid = ms[d] /\ Head(q).pid \in Msg
      /\ Slices[ms[d]] \in Nat /\ (d = Len(ms) => Slices[ms[d]] <= k)
      /\ \A i \in 1 .. Len(Tail(q)) :
           /\ Tail(q)[i].no \in Nat /\ Tail(q)[i].sid \in Nat
           /\ Tail(q)[i].sid <= Slices[ms[Tail(q)[i].no]]
           /\ d = Tail(q)[i].no => Slices[ms[d]] <= Tail(q)[i].sid
  <2>1. First(s, ms, k, last, q, b)
    BY FirstSlice
  <2> QED BY <2>1 DEF First, Slice
<1>2. OnTheWay(Tail(q), ms, d, k)
  BY <1>1, TailOnTheWay DEF Consistent
<1>3. c[ms[d]] = 0
  BY <1>1
<1> HIDE DEF c, d
<1>4. d = Len(ms) => k = Slices[ms[d]]
  BY <1>1 DEF Consistent
<1>5. ASSUME NEW i \in 1 .. Len(Tail(q)), Tail(q)[i].no = d
      PROVE  Tail(q)[i].sid = Slices[ms[d]]
  <2>1. /\ Slices[ms[d]] \in Nat /\ Tail(q)[i].sid \in Nat
        /\ Slices[ms[d]] <= Tail(q)[i].sid /\ Tail(q)[i].sid <= Slices[ms[d]]
    BY <1>1, <1>5
  <2> QED BY <2>1
<1>6. Complete(Tail(q), ms, d, k, c)
  BY <1>3, <1>4, <1>5 DEF Complete
<1>7. Consistent(s, a, ms, k, d, Tail(q), c)
  BY <1>1, <1>2, <1>6 DEF Consistent
<1> QED BY <1>7 DEF c, d

\* The message is not the one delivered last, unless it has one slice.
LEMMA NotTwice ==
  ASSUME NEW s, NEW a, NEW ms \in Seq(Msg), NEW k, NEW last, NEW q, NEW b \in [Msg -> Nat],
         Consistent(s, a, ms, k, last, q, b), q # <<>>,
         Head(q).sid = b[Head(q).pid] + 1, Head(q).sid = Slices[Head(q).pid]
  PROVE  last < Head(q).no \/ (last = Head(q).no /\ Slices[Head(q).pid] = 1)
<1>1. /\ last \in Nat /\ Head(q).no \in 1 .. Len(ms) /\ last <= Head(q).no
      /\ Head(q).pid = ms[Head(q).no] /\ Slices[Head(q).pid] \in Nat \ {0}
      /\ last > 0 /\ Slices[ms[last]] > 1 /\ Head(q).no = last => b[ms[last]] = 0
  <2>1. First(s, ms, k, last, q, b)
    BY FirstSlice
  <2> QED BY <2>1 DEF First
<1>2. CASE last = Head(q).no
  BY <1>1, <1>2
<1> QED BY <1>1, <1>2

-----------------------------------------------------------------------------
(* The steps keep the invariant. *)

\* The other senders have neither changed nor lost what is stored of theirs,
\* unless the checker removed it.
LEMMA OtherSenders ==
  ASSUME IInv, NEW s \in Sender, at'[s] = at[s], sent'[s] = sent[s], sid'[s] = sid[s],
         got'[s] = got[s], toReceiver'[s] = toReceiver[s],
         \A m \in Msg : From[m] = s => stored'[m] \in {stored[m], 0}
  PROVE  SenderInv(s)'
<1>1. /\ Consistent(s, at[s], sent[s], sid[s], Channel!LastGot(s), toReceiver[s], stored)
      /\ sent[s] \in Seq(Msg)
  BY DEF IInv, Types, SenderInv
<1>2. at[s] # "idle" => Len(sent[s]) > 0
  BY <1>1 DEF Consistent
<1>3. Consistent(s, at[s], sent[s], sid[s], Channel!LastGot(s), toReceiver[s], stored')
  BY <1>1, <1>2, FreedConsistent
<1>4. Channel!LastGot(s)' = Channel!LastGot(s)
  BY DEF Channel!LastGot
<1> QED BY <1>3, <1>4 DEF SenderInv

LEMMA BeginStep ==
  ASSUME IInv, NEW s \in Sender, NEW m \in Msg, Begin(s, m)
  PROVE  IInv'
<1>1. /\ From[m] = s /\ stored' = stored /\ got' = got /\ toReceiver' = toReceiver
      /\ at' = [at EXCEPT ![s] = "send"] /\ sid' = [sid EXCEPT ![s] = 1]
      /\ sent' = [sent EXCEPT ![s] = Append(@, m)]
  BY DEF Begin, netVars, reformerVars
<1>2. Types'
  BY <1>1 DEF IInv, Types
<1>3. SenderInv(s)'
  <2>1. /\ at'[s] = "send" /\ sid'[s] = 1 /\ sent'[s] = Append(sent[s], m)
        /\ sent[s] \in Seq(Msg)
    BY <1>1 DEF IInv, Types
  <2>2. Consistent(s, at[s], sent[s], sid[s], Channel!LastGot(s), toReceiver[s], stored)
    BY DEF IInv, SenderInv
  <2>3. Consistent(s, "send", Append(sent[s], m), 1, Channel!LastGot(s), toReceiver[s], stored)
    BY <1>1, <2>1, <2>2, BeginConsistent
  <2>4. Channel!LastGot(s)' = Channel!LastGot(s)
    BY <1>1 DEF Channel!LastGot
  <2> QED BY <1>1, <2>1, <2>3, <2>4 DEF SenderInv
<1>4. ASSUME NEW t \in Sender, t # s PROVE SenderInv(t)'
  <2>1. sent'[t] = sent[t] /\ at'[t] = at[t] /\ sid'[t] = sid[t]
    BY <1>1, <1>4 DEF IInv, Types
  <2> QED BY <1>1, <2>1, OtherSenders
<1> QED BY <1>2, <1>3, <1>4 DEF IInv

LEMMA SendSliceStep ==
  ASSUME IInv, NEW s \in Sender, SendSlice(s)
  PROVE  IInv'
<1> DEFINE p == [pid |-> Current(s), sid |-> sid[s], no |-> Number(s)]
<1>1. /\ at[s] = "send" /\ sid' = sid /\ sent' = sent /\ got' = got /\ stored' = stored
      /\ at' = [at EXCEPT ![s] = "wait"]
      /\ \/ toReceiver' = [toReceiver EXCEPT ![s] = Append(@, p)]
         \/ toReceiver' = toReceiver
  BY DEF SendSlice, reformerVars
<1>2. /\ Consistent(s, at[s], sent[s], sid[s], Channel!LastGot(s), toReceiver[s], stored)
      /\ sent[s] \in Seq(Msg) /\ sid[s] \in Nat
  BY DEF IInv, Types, SenderInv
<1>3. Len(sent[s]) > 0
  BY <1>1, <1>2 DEF Consistent
<1>4. p \in Slice /\ p.no = Len(sent[s]) /\ p.pid = sent[s][Len(sent[s])] /\ p.sid = sid[s]
  BY <1>2, <1>3 DEF Slice, Current, Number
<1> HIDE DEF p
<1>5. Types'
  <2>1. toReceiver[s] \in Seq(Slice) /\ toReceiver \in [Sender -> Seq(Slice)]
    BY DEF IInv, Types
  <2>2. Append(toReceiver[s], p) \in Seq(Slice)
    BY <1>4, <2>1
  <2>3. toReceiver' \in [Sender -> Seq(Slice)]
    BY <1>1, <2>1, <2>2
  <2>4. at' \in [Sender -> {"idle", "send", "wait"}]
    BY <1>1 DEF IInv, Types
  <2> QED BY <1>1, <2>3, <2>4 DEF IInv, Types
<1>6. SenderInv(s)'
  <2>1. /\ at'[s] = "wait"
        /\ toReceiver'[s] = Append(toReceiver[s], p) \/ toReceiver'[s] = toReceiver[s]
    BY <1>1 DEF IInv, Types
  <2>2. Consistent(s, at[s], sent[s], sid[s], Channel!LastGot(s), Append(toReceiver[s], p), stored)
    BY <1>1, <1>2, <1>4, SendConsistent
  <2>3. Consistent(s, at[s], sent[s], sid[s], Channel!LastGot(s), toReceiver'[s], stored)
    BY <1>2, <2>1, <2>2
  <2>4. Consistent(s, "wait", sent[s], sid[s], Channel!LastGot(s), toReceiver'[s], stored)
    BY <1>3, <2>3 DEF Consistent
  <2>5. Channel!LastGot(s)' = Channel!LastGot(s)
    BY <1>1 DEF Channel!LastGot
  <2> QED BY <1>1, <2>1, <2>4, <2>5 DEF SenderInv
<1>7. ASSUME NEW t \in Sender, t # s PROVE SenderInv(t)'
  <2>1. at'[t] = at[t] /\ toReceiver'[t] = toReceiver[t]
    BY <1>1, <1>7 DEF IInv, Types
  <2> QED BY <1>1, <2>1, OtherSenders
<1> QED BY <1>5, <1>6, <1>7 DEF IInv

\* An acknowledgement moves the sender on, unless it has sent its last slice.
LEMMA RecvAckStep ==
  ASSUME IInv, NEW s \in Sender, RecvAck(s)
  PROVE  IInv'
<1>1. /\ sent' = sent /\ got' = got /\ stored' = stored /\ toReceiver' = toReceiver
      /\ at[s] = "wait"
      /\ \/ at' = at /\ sid' = sid
         \/ at' = [at EXCEPT ![s] = "idle"] /\ sid' = sid
         \/ ~IsLast(s) /\ at' = [at EXCEPT ![s] = "send"] /\ sid' = [sid EXCEPT ![s] = @ + 1]
  BY DEF RecvAck, reformerVars, senderVars
<1>2. Types'
  <2>1. at' \in [Sender -> {"idle", "send", "wait"}]
    BY <1>1 DEF IInv, Types
  <2>2. sid' \in [Sender -> Nat]
    BY <1>1 DEF IInv, Types
  <2> QED BY <1>1, <2>1, <2>2 DEF IInv, Types
<1>3. SenderInv(s)'
  <2>1. /\ Consistent(s, at[s], sent[s], sid[s], Channel!LastGot(s), toReceiver[s], stored)
        /\ sent[s] \in Seq(Msg) /\ sid[s] \in Nat
    BY DEF IInv, Types, SenderInv
  <2>2. Len(sent[s]) > 0
    BY <1>1, <2>1 DEF Consistent
  <2>3. Channel!LastGot(s)' = Channel!LastGot(s)
    BY <1>1 DEF Channel!LastGot
  <2>4. CASE sid' = sid
    <3>1. Consistent(s, at'[s], sent[s], sid[s], Channel!LastGot(s), toReceiver[s], stored)
      BY <2>1, <2>2 DEF Consistent
    <3> QED BY <1>1, <2>3, <2>4, <3>1 DEF SenderInv
  <2>5. CASE ~IsLast(s) /\ sid' = [sid EXCEPT ![s] = @ + 1]
    <3>1. sid'[s] = sid[s] + 1 /\ sid[s] # Slices[sent[s][Len(sent[s])]]
      BY <2>5 DEF IInv, Types, IsLast, Current, Number
    <3>2. Consistent(s, at'[s], sent[s], sid[s] + 1, Channel!LastGot(s), toReceiver[s], stored)
      BY <1>1, <2>1, <3>1, NextConsistent
    <3> QED BY <1>1, <2>3, <3>1, <3>2 DEF SenderInv
  <2> QED BY <1>1, <2>4, <2>5
<1>4. ASSUME NEW t \in Sender, t # s PROVE SenderInv(t)'
  <2>1. at'[t] = at[t] /\ sid'[t] = sid[t]
    BY <1>1, <1>4 DEF IInv, Types
  <2> QED BY <1>1, <2>1, OtherSenders
<1> QED BY <1>2, <1>3, <1>4 DEF IInv

LEMMA TimeoutStep ==
  ASSUME IInv, NEW s \in Sender, Timeout(s)
  PROVE  IInv'
<1>1. /\ sent' = sent /\ got' = got /\ stored' = stored /\ toReceiver' = toReceiver /\ sid' = sid
      /\ at[s] = "wait"
      /\ at' = [at EXCEPT ![s] = "send"] \/ at' = [at EXCEPT ![s] = "idle"]
  BY DEF Timeout, reformerVars, netVars
<1>2. Types'
  BY <1>1 DEF IInv, Types
<1>3. SenderInv(s)'
  <2>1. Consistent(s, at[s], sent[s], sid[s], Channel!LastGot(s), toReceiver[s], stored)
    BY DEF IInv, SenderInv
  <2>2. Consistent(s, at'[s], sent[s], sid[s], Channel!LastGot(s), toReceiver[s], stored)
    BY <1>1, <2>1 DEF Consistent
  <2>3. Channel!LastGot(s)' = Channel!LastGot(s)
    BY <1>1 DEF Channel!LastGot
  <2> QED BY <1>1, <2>2, <2>3 DEF SenderInv
<1>4. ASSUME NEW t \in Sender, t # s PROVE SenderInv(t)'
  <2>1. at'[t] = at[t]
    BY <1>1, <1>4 DEF IInv, Types
  <2> QED BY <1>1, <2>1, OtherSenders
<1> QED BY <1>2, <1>3, <1>4 DEF IInv

LEMMA CheckStep ==
  ASSUME IInv, NEW m \in Msg, Check(m)
  PROVE  IInv'
<1>1. /\ sent' = sent /\ got' = got /\ toReceiver' = toReceiver /\ sid' = sid /\ at' = at
      /\ stored' = [stored EXCEPT ![m] = 0]
  BY DEF Check, RemoveSlice, senderVars, netVars
<1>2. Types'
  BY <1>1 DEF IInv, Types
<1>3. \A n \in Msg : stored'[n] \in {stored[n], 0}
  BY <1>1 DEF IInv, Types
<1>4. ASSUME NEW t \in Sender PROVE SenderInv(t)'
  BY <1>1, <1>3, OtherSenders
<1> QED BY <1>2, <1>4 DEF IInv

\* What the receiver thread does with the first slice p on its way: it drops
\* or refuses it, keeps it, or puts a message together, the one of p.
LEMMA ReceiveCases ==
  ASSUME IInv, NEW s \in Sender, Receive(s)
  PROVE  LET q == toReceiver[s]
             p == Head(q)
         IN  /\ q # <<>> /\ p \in Slice /\ From[p.pid] = s /\ p.no \in 1 .. Len(sent[s])
             /\ p.pid = sent[s][p.no]
             /\ sent' = sent /\ sid' = sid /\ at' = at
             /\ toReceiver' = [toReceiver EXCEPT ![s] = Tail(q)]
             /\ \/ stored' = stored /\ got' = got
                \/ /\ p.sid = stored[p.pid] + 1 /\ p.sid # Slices[p.pid]
                   /\ stored' = [stored EXCEPT ![p.pid] = p.sid] /\ got' = got
                \/ /\ p.sid = stored[p.pid] + 1 /\ p.sid = Slices[p.pid]
                   /\ stored' = [stored EXCEPT ![p.pid] = 0]
                   /\ got' = [got EXCEPT ![s] = Append(@, p.no)]
<1> DEFINE q == toReceiver[s]
           p == Head(q)
<1>1. /\ q # <<>> /\ toReceiver' = [toReceiver EXCEPT ![s] = Tail(q)]
      /\ sent' = sent /\ sid' = sid /\ at' = at /\ PutSlice(p)
  BY DEF Receive, senderVars, IInv, Types
<1>2. /\ Consistent(s, at[s], sent[s], sid[s], Channel!LastGot(s), q, stored)
      /\ sent[s] \in Seq(Msg)
  BY DEF IInv, Types, SenderInv
<1>3. First(s, sent[s], sid[s], Channel!LastGot(s), q, stored)
  BY <1>1, <1>2, FirstSlice
<1>4. p \in Slice /\ From[p.pid] = s /\ p.no \in 1 .. Len(sent[s]) /\ p.pid = sent[s][p.no]
  BY <1>3 DEF First
<1> HIDE DEF p
<1>5. \/ stored' = stored /\ got' = got
      \/ p.sid = stored[p.pid] + 1 /\ Store(p)
  BY <1>1 DEF PutSlice, reformerVars
<1>6. ASSUME p.sid = stored[p.pid] + 1, Store(p), p.sid # Slices[p.pid]
      PROVE  stored' = [stored EXCEPT ![p.pid] = p.sid] /\ got' = got
  BY <1>6 DEF Store
<1>7. ASSUME p.sid = stored[p.pid] + 1, Store(p), p.sid = Slices[p.pid]
      PROVE  /\ stored' = [stored EXCEPT ![p.pid] = 0]
             /\ got' = [got EXCEPT ![s] = Append(@, p.no)]
  BY <1>4, <1>7 DEF Store, Reassemble, RemoveSlice
<1> QED BY <1>1, <1>4, <1>5, <1>6, <1>7 DEF p

LEMMA LastOfAppend ==
  ASSUME NEW g \in Seq(Nat), NEW n \in Nat
  PROVE  Append(g, n) # <<>> /\ Append(g, n)[Len(Append(g, n))] = n
OBVIOUS

LEMMA ReceiveStep ==
  ASSUME IInv, NEW s \in Sender, Receive(s)
  PROVE  IInv'
<1> DEFINE q == toReceiver[s]
           p == Head(q)
<1>1. /\ q # <<>> /\ p \in Slice /\ From[p.pid] = s /\ p.no \in 1 .. Len(sent[s])
      /\ sent' = sent /\ sid' = sid /\ at' = at
      /\ toReceiver' = [toReceiver EXCEPT ![s] = Tail(q)]
      /\ \/ stored' = stored /\ got' = got
         \/ /\ p.sid = stored[p.pid] + 1 /\ p.sid # Slices[p.pid]
            /\ stored' = [stored EXCEPT ![p.pid] = p.sid] /\ got' = got
         \/ /\ p.sid = stored[p.pid] + 1 /\ p.sid = Slices[p.pid]
            /\ stored' = [stored EXCEPT ![p.pid] = 0]
            /\ got' = [got EXCEPT ![s] = Append(@, p.no)]
  BY ReceiveCases
<1>2. /\ Consistent(s, at[s], sent[s], sid[s], Channel!LastGot(s), q, stored)
      /\ sent[s] \in Seq(Msg) /\ sid[s] \in Nat /\ stored \in [Msg -> Nat]
      /\ toReceiver'[s] = Tail(q) /\ Tail(q) \in Seq(Slice) /\ got[s] \in Seq(Nat)
  BY <1>1 DEF IInv, Types, SenderInv
<1> HIDE DEF q
<1>3. p.pid \in Msg /\ p.sid \in Nat /\ p.no \in Nat
  BY <1>1 DEF Slice
<1>4. Types'
  <2>1. toReceiver' \in [Sender -> Seq(Slice)]
    BY <1>1, <1>2 DEF IInv, Types
  <2>2. \A m \in Msg, n \in Nat : [stored EXCEPT ![m] = n] \in [Msg -> Nat]
    BY <1>2
  <2>3. stored' \in [Msg -> Nat]
    BY <1>1, <1>2, <1>3, <2>2
  <2>4. Append(got[s], p.no) \in Seq(Nat) /\ got \in [Sender -> Seq(Nat)]
    BY <1>2, <1>3 DEF IInv, Types
  <2>5. got' \in [Sender -> Seq(Nat)]
    BY <1>1, <2>4
  <2> QED BY <1>1, <2>1, <2>3, <2>5 DEF IInv, Types
<1>5. SenderInv(s)'
  <2>1. CASE stored' = stored /\ got' = got
    <3>1. Channel!LastGot(s)' = Channel!LastGot(s)
      BY <2>1 DEF Channel!LastGot
    <3>2. Consistent(s, at[s], sent[s], sid[s], Channel!LastGot(s), Tail(q), stored)
      BY <1>1, <1>2, DropConsistent
    <3> QED BY <1>1, <1>2, <2>1, <3>1, <3>2 DEF SenderInv
  <2>2. CASE /\ p.sid = stored[p.pid] + 1 /\ p.sid # Slices[p.pid]
             /\ stored' = [stored EXCEPT ![p.pid] = p.sid] /\ got' = got
    <3>1. Channel!LastGot(s)' = Channel!LastGot(s)
      BY <2>2 DEF Channel!LastGot
    <3>2. Consistent(s, at[s], sent[s], sid[s], Channel!LastGot(s), Tail(q), stored')
      BY <1>1, <1>2, <2>2, KeepConsistent
    <3> QED BY <1>1, <1>2, <3>1, <3>2 DEF SenderInv
  <2>3. CASE /\ p.sid = stored[p.pid] + 1 /\ p.sid = Slices[p.pid]
             /\ stored' = [stored EXCEPT ![p.pid] = 0]
             /\ got' = [got EXCEPT ![s] = Append(@, p.no)]
    <3>1. got'[s] = Append(got[s], p.no)
      BY <2>3 DEF IInv, Types
    <3>2. Channel!LastGot(s)' = p.no
      BY <1>2, <1>3, <3>1, LastOfAppend DEF Channel!LastGot
    <3>3. Consistent(s, at[s], sent[s], sid[s], p.no, Tail(q), stored')
      BY <1>1, <1>2, <2>3, PutTogetherConsistent
    <3> QED BY <1>1, <1>2, <3>2, <3>3 DEF SenderInv
  <2> QED BY <1>1, <2>1, <2>2, <2>3
<1>6. ASSUME NEW t \in Sender, t # s PROVE SenderInv(t)'
  <2>1. got'[t] = got[t] /\ toReceiver'[t] = toReceiver[t]
    BY <1>1, <1>6 DEF IInv, Types
  <2>2. \A m \in Msg : From[m] = t => stored'[m] \in {stored[m], 0}
    BY <1>1, <1>2, <1>6
  <2> QED BY <1>1, <2>1, <2>2, OtherSenders
<1> QED BY <1>4, <1>5, <1>6 DEF IInv

-----------------------------------------------------------------------------
(* The theorems. *)

LEMMA InitInv == Init => IInv
<1> SUFFICES ASSUME Init PROVE IInv
  OBVIOUS
<1>1. Types
  BY DEF Init, Types
<1>2. ASSUME NEW s \in Sender PROVE SenderInv(s)
  <2>1. /\ at[s] = "idle" /\ sent[s] = <<>> /\ sid[s] = 0 /\ toReceiver[s] = <<>>
        /\ Channel!LastGot(s) = 0
    BY DEF Init, Channel!LastGot
  <2>2. OnTheWay(<<>>, <<>>, 0, 0) /\ Complete(<<>>, <<>>, 0, 0, stored)
    BY DEF OnTheWay, Complete
  <2>3. Consistent(s, "idle", <<>>, 0, 0, <<>>, stored)
    BY <2>2 DEF Consistent
  <2> QED BY <2>1, <2>3 DEF SenderInv
<1> QED BY <1>1, <1>2 DEF IInv

LEMMA StepInv == IInv /\ [Next]_vars => IInv'
<1> SUFFICES ASSUME IInv, [Next]_vars PROVE IInv'
  OBVIOUS
<1>1. ASSUME NEW s \in Sender, SenderStep(s) PROVE IInv'
  BY <1>1, SendSliceStep, RecvAckStep, TimeoutStep DEF SenderStep
<1>2. ASSUME NEW s \in Sender, Receive(s) PROVE IInv'
  BY <1>2, ReceiveStep
<1>3. ASSUME NEW s \in Sender, NEW m \in Msg, Begin(s, m) PROVE IInv'
  BY <1>3, BeginStep
<1>4. ASSUME NEW m \in Msg, Check(m) PROVE IInv'
  BY <1>4, CheckStep
<1>5. ASSUME UNCHANGED vars PROVE IInv'
  <2>1. /\ at' = at /\ sent' = sent /\ sid' = sid /\ got' = got /\ toReceiver' = toReceiver
        /\ stored' = stored
    BY <1>5 DEF vars, senderVars, netVars, reformerVars
  <2>2. Types'
    BY <2>1 DEF IInv, Types
  <2>3. \A s \in Sender : SenderInv(s)'
    BY <2>1, OtherSenders
  <2> QED BY <2>2, <2>3 DEF IInv
<1> QED BY <1>1, <1>2, <1>3, <1>4, <1>5 DEF Next

\* In every reachable state the slices on their way are in order, and none of
\* them can put a message of several slices together again.
THEOREM SlicesInOrder == Spec => []IInv
<1> QED BY InitInv, StepInv, PTL DEF Spec

LEMMA InitSimulation == Init => Channel!ChannelInit
BY DEF Init, Channel!ChannelInit

\* A message put together is a delivery, a message begun is one sent, and
\* nothing else is seen of the transport.
LEMMA StepSimulation == IInv /\ [Next]_vars => [Channel!ChannelNext]_<<sent, got>>
<1> SUFFICES ASSUME IInv, [Next]_vars PROVE [Channel!ChannelNext]_<<sent, got>>
  OBVIOUS
<1>1. ASSUME NEW s \in Sender, SenderStep(s) PROVE UNCHANGED <<sent, got>>
  BY <1>1 DEF SenderStep, SendSlice, RecvAck, Timeout, senderVars, reformerVars
<1>2. ASSUME NEW s \in Sender, Receive(s) PROVE [Channel!ChannelNext]_<<sent, got>>
  <2> DEFINE q == toReceiver[s]
             p == Head(q)
  <2>1. /\ q # <<>> /\ p \in Slice /\ p.no \in 1 .. Len(sent[s]) /\ p.pid = sent[s][p.no]
        /\ sent' = sent
        /\ \/ got' = got
           \/ /\ p.sid = stored[p.pid] + 1 /\ p.sid = Slices[p.pid]
              /\ got' = [got EXCEPT ![s] = Append(@, p.no)]
    BY <1>2, ReceiveCases
  <2>2. /\ Consistent(s, at[s], sent[s], sid[s], Channel!LastGot(s), q, stored)
        /\ sent[s] \in Seq(Msg) /\ stored \in [Msg -> Nat]
    BY DEF IInv, Types, SenderInv
  <2> HIDE DEF q
  <2>3. ASSUME p.sid = stored[p.pid] + 1, p.sid = Slices[p.pid],
               got' = [got EXCEPT ![s] = Append(@, p.no)]
        PROVE  Channel!Deliver(s, p.no)
    <3>1. \/ Channel!LastGot(s) < p.no
          \/ Channel!LastGot(s) = p.no /\ Slices[p.pid] = 1
      BY <2>1, <2>2, <2>3, NotTwice
    <3>2. p.pid \in Msg
      BY <2>1 DEF Slice
    <3> QED BY <2>1, <2>3, <3>1, <3>2 DEF Channel!Deliver
  <2> QED BY <2>1, <2>3 DEF Channel!ChannelNext
<1>3. ASSUME NEW s \in Sender, NEW m \in Msg, Begin(s, m)
      PROVE  Channel!ChannelNext
  <2>1. Channel!Send(s, m)
    BY <1>3 DEF Begin, reformerVars, Channel!Send
  <2> QED BY <2>1 DEF Channel!ChannelNext
<1>4. ASSUME NEW m \in Msg, Check(m) PROVE UNCHANGED <<sent, got>>
  BY <1>4 DEF Check, senderVars
<1>5. ASSUME UNCHANGED vars PROVE UNCHANGED <<sent, got>>
  BY <1>5 DEF vars, senderVars, reformerVars
<1> QED BY <1>1, <1>2, <1>3, <1>4, <1>5 DEF Next

\* The slice transport (MsgSender.cpp, Communicator.cpp, MsgReceiver.cpp,
\* Reformer.cpp) implements LossyChannel: whatever is lost, late, sent again
\* or timed out, messages are put into the receive buffer whole and in the
\* order in which they were sent, and only one of a single slice twice.
THEOREM ChannelImplemented == Spec => ImplementsChannel
<1> QED BY InitInv, StepInv, InitSimulation, StepSimulation, PTL
     DEF Spec, ImplementsChannel, Channel!ChannelSpec

-----------------------------------------------------------------------------
(* The slice buffers of messages that were never given up. *)

\* Message m is not being sent: only its last slice, and acknowledgements of
\* that, are on their way, and its buffer b is empty.
Settled(m, q, a, b) ==
  /\ b = 0
  /\ \A i \in DOMAIN q : q[i].pid = m => q[i].sid = Slices[m]
  /\ \A i \in DOMAIN a : a[i][1] = m => a[i][2] = Slices[m]

\* Slice k is being sent of message m, the n-th: nothing is on its way of it
\* but slices k and k - 1, or the last slice of an earlier copy.
Moving(m, n, k, q, a, b) ==
  /\ b \in {0, k - 1, k}
  /\ \A i \in DOMAIN q : q[i].pid = m =>
       \/ q[i].no = n /\ q[i].sid \in {k - 1, k}
       \/ k = 1 /\ q[i].sid = Slices[m] /\ b = 0
  /\ \A i \in DOMAIN a : a[i][1] = m =>
       a[i][2] \in {k - 1, k} \/ (k = 1 /\ a[i][2] = Slices[m])
  /\ \A i \in DOMAIN a : a[i] = <<m, k>> =>
       /\ b \in {0, k} /\ (k = Slices[m] => b = 0)
       /\ \A j \in DOMAIN q : q[j].pid = m => q[j].sid = k
       /\ \A j \in DOMAIN a : i < j /\ a[j][1] = m => a[j][2] = k

BufferInv(m) ==
  LET s == From[m] IN
  IF at[s] # "idle" /\ Current(s) = m
  THEN Moving(m, Number(s), sid[s], toReceiver[s], toSender[s], stored[m])
  ELSE Settled(m, toReceiver[s], toSender[s], stored[m])

BInv ==
  /\ toSender \in [Sender -> Seq(Msg \X Nat)]
  /\ \A m \in Msg : stored[m] < Slices[m]
  /\ \A m \in Msg \ abandoned : Slices[m] > 1 => BufferInv(m)

LEMMA TailOf ==
  ASSUME NEW S, NEW q \in Seq(S), q # <<>>
  PROVE  /\ 1 \in DOMAIN q /\ Head(q) = q[1] /\ Head(q) \in S /\ Tail(q) \in Seq(S)
         /\ \A i \in DOMAIN Tail(q) : i + 1 \in DOMAIN q /\ Tail(q)[i] = q[i + 1] /\ 1 < i + 1
         /\ \A i, j \in DOMAIN Tail(q) : i < j => i + 1 < j + 1
OBVIOUS

LEMMA AppendOf ==
  ASSUME NEW S, NEW q \in Seq(S), NEW e \in S
  PROVE  /\ Append(q, e) \in Seq(S)
         /\ \A i \in DOMAIN Append(q, e) :
              (i \in DOMAIN q /\ Append(q, e)[i] = q[i]) \/ (i = Len(q) + 1 /\ Append(q, e)[i] = e)
         /\ \A i \in DOMAIN q : ~(Len(q) + 1 < i)
         /\ ~(Len(q) + 1 < Len(q) + 1)
OBVIOUS

\* An acknowledgement is taken that moves nobody on.
LEMMA AckTaken ==
  ASSUME NEW m \in Msg, NEW n, NEW k, NEW q, NEW b, NEW a \in Seq(Msg \X Nat), a # <<>>
  PROVE  /\ Moving(m, n, k, q, a, b) => Moving(m, n, k, q, Tail(a), b)
         /\ Settled(m, q, a, b) => Settled(m, q, Tail(a), b)
<1> DEFINE c == Tail(a)
<1>1. /\ \A i \in DOMAIN c : i + 1 \in DOMAIN a /\ c[i] = a[i + 1]
      /\ \A i, j \in DOMAIN c : i < j => i + 1 < j + 1
  BY TailOf
<1> HIDE DEF c
<1>2. ASSUME Moving(m, n, k, q, a, b) PROVE Moving(m, n, k, q, c, b)
  <2>1. ASSUME NEW i \in DOMAIN c, c[i] = <<m, k>>
        PROVE  /\ b \in {0, k} /\ (k = Slices[m] => b = 0)
               /\ \A j \in DOMAIN q : q[j].pid = m => q[j].sid = k
               /\ \A j \in DOMAIN c : i < j /\ c[j][1] = m => c[j][2] = k
    <3>1. /\ i + 1 \in DOMAIN a /\ a[i + 1] = <<m, k>>
          /\ \A j \in DOMAIN c : i < j => i + 1 < j + 1 /\ j + 1 \in DOMAIN a /\ c[j] = a[j + 1]
      BY <1>1, <2>1
    <3> QED BY <1>2, <3>1 DEF Moving
  <2>2. \A i \in DOMAIN c : c[i][1] = m => c[i][2] \in {k - 1, k} \/ (k = 1 /\ c[i][2] = Slices[m])
    BY <1>1, <1>2 DEF Moving
  <2> QED BY <1>2, <2>1, <2>2 DEF Moving
<1>3. ASSUME Settled(m, q, a, b) PROVE Settled(m, q, c, b)
  BY <1>1, <1>3 DEF Settled
<1> QED BY <1>2, <1>3 DEF c

\* The acknowledgement of the current slice is taken: slices and other
\* acknowledgements on their way are of this slice, too.
LEMMA AckMatched ==
  ASSUME NEW m \in Msg, Slices[m] > 1, NEW n, NEW k \in 1 .. Slices[m], NEW q, NEW b,
         NEW a \in Seq(Msg \X Nat), a # <<>>, Head(a) = <<m, k>>,
         Moving(m, n, k, q, a, b)
  PROVE  /\ k = Slices[m] => Settled(m, q, Tail(a), b)
         /\ k # Slices[m] => Moving(m, n, k + 1, q, Tail(a), b)
<1> DEFINE c == Tail(a)
<1>1. /\ 1 \in DOMAIN a /\ a[1] = <<m, k>>
      /\ \A i \in DOMAIN c : i + 1 \in DOMAIN a /\ c[i] = a[i + 1] /\ 1 < i + 1
  BY TailOf
<1> HIDE DEF c
<1>2. k \in Nat /\ Slices[m] \in Nat
  BY SlicesAssumption
<1>3. /\ b \in {0, k} /\ (k = Slices[m] => b = 0)
      /\ \A j \in DOMAIN q : q[j].pid = m => q[j].sid = k
      /\ \A j \in DOMAIN a : 1 < j /\ a[j][1] = m => a[j][2] = k
  BY <1>1 DEF Moving
<1>4. \A j \in DOMAIN c : c[j][1] = m => c[j][2] = k
  BY <1>1, <1>3
<1>5. k = Slices[m] => Settled(m, q, c, b)
  BY <1>3, <1>4 DEF Settled
<1>6. ASSUME k # Slices[m] PROVE Moving(m, n, k + 1, q, c, b)
  <2>1. \A j \in DOMAIN q : q[j].pid = m => q[j].no = n /\ q[j].sid = k
    BY <1>2, <1>3 DEF Moving
  <2>2. \A j \in DOMAIN c : c[j] # <<m, k + 1>>
    BY <1>2, <1>4
  <2>3. b \in {0, (k + 1) - 1, k + 1} /\ k \in {(k + 1) - 1, k + 1}
    BY <1>2, <1>3
  <2> QED BY <1>4, <2>1, <2>2, <2>3 DEF Moving
<1> QED BY <1>5, <1>6 DEF c

\* The current slice is sent, perhaps again.
LEMMA SliceSent ==
  ASSUME NEW m \in Msg, NEW n, NEW k \in Nat, NEW b, NEW a, NEW q \in Seq(Slice),
         NEW p \in Slice
  PROVE  /\ p.pid = m /\ p.no = n /\ p.sid = k /\ Moving(m, n, k, q, a, b)
              => Moving(m, n, k, Append(q, p), a, b)
         /\ p.pid # m /\ Settled(m, q, a, b) => Settled(m, Append(q, p), a, b)
<1> DEFINE r == Append(q, p)
<1>1. \A i \in DOMAIN r : (i \in DOMAIN q /\ r[i] = q[i]) \/ r[i] = p
  BY AppendOf
<1> HIDE DEF r
<1>2. ASSUME p.pid = m, p.no = n, p.sid = k, Moving(m, n, k, q, a, b)
      PROVE  Moving(m, n, k, r, a, b)
  BY <1>1, <1>2 DEF Moving
<1>3. ASSUME p.pid # m, Settled(m, q, a, b) PROVE Settled(m, r, a, b)
  BY <1>1, <1>3 DEF Settled
<1> QED BY <1>2, <1>3 DEF r

\* A buffer is emptied by the checker.
LEMMA BufferEmptied ==
  ASSUME NEW m, NEW n, NEW k, NEW q, NEW a, NEW b
  PROVE  /\ Moving(m, n, k, q, a, b) => Moving(m, n, k, q, a, 0)
         /\ Settled(m, q, a, b) => Settled(m, q, a, 0)
BY DEF Moving, Settled

\* A message is begun, once more or for the first time.
LEMMA MessageBegun ==
  ASSUME NEW m \in Msg, Slices[m] > 1, NEW n, NEW q, NEW b, NEW a,
         Settled(m, q, a, b)
  PROVE  Moving(m, n, 1, q, a, b)
<1>1. Slices[m] # 1 /\ Slices[m] \in Nat
  BY SlicesAssumption
<1>2. \A i \in DOMAIN a : a[i] # <<m, 1>>
  BY <1>1 DEF Settled
<1> QED BY <1>2 DEF Settled, Moving

\* What PutSlice makes of the buffer b of the message of slice p.
Buffered(p, b, b2) ==
  \/ b2 = b /\ (p.sid = b + 1 => b = 0 /\ p.sid = 1)
  \/ p.sid = b + 1 /\ b2 = (IF p.sid = Slices[p.pid] THEN 0 ELSE p.sid)

\* Acknowledgements c after those of a, at most one of slice p more.
Acknowledged(p, a, c) == c = a \/ c = Append(a, <<p.pid, p.sid>>)

LEMMA AckAppended ==
  ASSUME NEW p, NEW a \in Seq(Msg \X Nat), NEW c, p.pid \in Msg, p.sid \in Nat,
         Acknowledged(p, a, c)
  PROVE  /\ c \in Seq(Msg \X Nat)
         /\ \A i \in DOMAIN c :
              (i \in DOMAIN a /\ c[i] = a[i]) \/ (i = Len(a) + 1 /\ c[i] = <<p.pid, p.sid>>)
         /\ \A i \in DOMAIN a : ~(Len(a) + 1 < i)
         /\ ~(Len(a) + 1 < Len(a) + 1)
<1>1. ASSUME NEW S, NEW e \in S, NEW q \in Seq(S), NEW r, r = q \/ r = Append(q, e)
      PROVE  /\ r \in Seq(S)
             /\ \A i \in DOMAIN r : (i \in DOMAIN q /\ r[i] = q[i]) \/ (i = Len(q) + 1 /\ r[i] = e)
             /\ \A i \in DOMAIN q : ~(Len(q) + 1 < i)
             /\ ~(Len(q) + 1 < Len(q) + 1)
  <2>1. CASE r = q
    BY <2>1
  <2>2. CASE r = Append(q, e)
    BY <2>2, AppendOf
  <2> QED BY <1>1, <2>1, <2>2
<1>2. <<p.pid, p.sid>> \in Msg \X Nat
  OBVIOUS
<1>3. c = a \/ c = Append(a, <<p.pid, p.sid>>)
  BY DEF Acknowledged
<1> DEFINE E == Msg \X Nat
           e == <<p.pid, p.sid>>
<1>4. e \in E /\ a \in Seq(E) /\ (c = a \/ c = Append(a, e))
  BY <1>2, <1>3
<1> HIDE DEF E, e
<1>5. /\ c \in Seq(E)
      /\ \A i \in DOMAIN c : (i \in DOMAIN a /\ c[i] = a[i]) \/ (i = Len(a) + 1 /\ c[i] = e)
      /\ \A i \in DOMAIN a : ~(Len(a) + 1 < i)
      /\ ~(Len(a) + 1 < Len(a) + 1)
  BY <1>1, <1>4
<1> QED BY <1>5 DEF E, e

\* A slice of another message is taken.
LEMMA OtherReceived ==
  ASSUME NEW m \in Msg, NEW n, NEW k, NEW b, NEW q \in Seq(Slice), q # <<>>,
         NEW a \in Seq(Msg \X Nat), NEW c, Acknowledged(Head(q), a, c), Head(q).pid # m
  PROVE  /\ Moving(m, n, k, q, a, b) => Moving(m, n, k, Tail(q), c, b)
         /\ Settled(m, q, a, b) => Settled(m, Tail(q), c, b)
<1> DEFINE r == Tail(q)
           e == <<Head(q).pid, Head(q).sid>>
<1>1. /\ \A i \in DOMAIN r : i + 1 \in DOMAIN q /\ r[i] = q[i + 1]
      /\ Head(q) \in Slice
  BY TailOf
<1>2. e[1] # m /\ Head(q).pid \in Msg /\ Head(q).sid \in Nat
  BY <1>1 DEF Slice
<1>3. \A i \in DOMAIN c : (i \in DOMAIN a /\ c[i] = a[i]) \/ c[i][1] # m
  <2>1. \A i \in DOMAIN c : (i \in DOMAIN a /\ c[i] = a[i]) \/ c[i] = e
    BY <1>2, AckAppended
  <2> QED BY <1>2, <2>1
<1> HIDE DEF r, e
<1>4. ASSUME Moving(m, n, k, q, a, b) PROVE Moving(m, n, k, r, c, b)
  <2>1. /\ b \in {0, k - 1, k}
        /\ \A i \in DOMAIN r : r[i].pid = m =>
             \/ r[i].no = n /\ r[i].sid \in {k - 1, k}
             \/ k = 1 /\ r[i].sid = Slices[m] /\ b = 0
    BY <1>1, <1>4 DEF Moving
  <2>2. \A i \in DOMAIN c : c[i][1] = m => c[i][2] \in {k - 1, k} \/ (k = 1 /\ c[i][2] = Slices[m])
    BY <1>3, <1>4 DEF Moving
  <2>3. ASSUME NEW i \in DOMAIN c, c[i] = <<m, k>>
        PROVE  /\ b \in {0, k} /\ (k = Slices[m] => b = 0)
               /\ \A j \in DOMAIN r : r[j].pid = m => r[j].sid = k
               /\ \A j \in DOMAIN c : i < j /\ c[j][1] = m => c[j][2] = k
    <3>1. i \in DOMAIN a /\ a[i] = <<m, k>>
      BY <1>3, <2>3
    <3>2. /\ b \in {0, k} /\ (k = Slices[m] => b = 0)
          /\ \A j \in DOMAIN q : q[j].pid = m => q[j].sid = k
          /\ \A j \in DOMAIN a : i < j /\ a[j][1] = m => a[j][2] = k
      BY <1>4, <3>1 DEF Moving
    <3> QED BY <1>1, <1>3, <3>2
  <2> QED BY <2>1, <2>2, <2>3 DEF Moving
<1>5. ASSUME Settled(m, q, a, b) PROVE Settled(m, r, c, b)
  BY <1>1, <1>3, <1>5 DEF Settled
<1> QED BY <1>4, <1>5 DEF r

\* The last slice of a message that is not being sent is taken: it finds no
\* buffer and is dropped.
LEMMA SettledReceived ==
  ASSUME NEW m \in Msg, Slices[m] > 1, NEW b, NEW b2, NEW q \in Seq(Slice), q # <<>>,
         NEW a \in Seq(Msg \X Nat), NEW c, Acknowledged(Head(q), a, c), Head(q).pid = m,
         Buffered(Head(q), b, b2), Settled(m, q, a, b)
  PROVE  Settled(m, Tail(q), c, b2)
<1> DEFINE r == Tail(q)
           e == <<Head(q).pid, Head(q).sid>>
<1>1. /\ \A i \in DOMAIN r : i + 1 \in DOMAIN q /\ r[i] = q[i + 1]
      /\ Head(q) \in Slice /\ 1 \in DOMAIN q /\ Head(q) = q[1]
  BY TailOf
<1>2. Head(q).sid = Slices[m] /\ b = 0 /\ Slices[m] \in Nat
  BY <1>1, SlicesAssumption DEF Settled
<1>3. e[2] = Slices[m] /\ Head(q).pid \in Msg /\ Head(q).sid \in Nat
  BY <1>1, <1>2 DEF Slice
<1>4. \A i \in DOMAIN c : (i \in DOMAIN a /\ c[i] = a[i]) \/ c[i][2] = Slices[m]
  <2>1. \A i \in DOMAIN c : (i \in DOMAIN a /\ c[i] = a[i]) \/ c[i] = e
    BY <1>3, AckAppended
  <2> QED BY <1>3, <2>1
<1>5. b2 = 0
  BY <1>2 DEF Buffered
<1> HIDE DEF r, e
<1>6. Settled(m, r, c, b2)
  BY <1>1, <1>4, <1>5 DEF Settled
<1> QED BY <1>6 DEF r

\* A slice of the message being sent is taken: of the slice before the
\* current one, the current one, or a last slice of an earlier copy.
LEMMA MovingReceived ==
  ASSUME NEW m \in Msg, Slices[m] > 1, NEW n \in Nat, NEW k \in 1 .. Slices[m], NEW b \in Nat, NEW b2,
         b < Slices[m], NEW q \in Seq(Slice), q # <<>>,
         NEW a \in Seq(Msg \X Nat), NEW c, Acknowledged(Head(q), a, c), Head(q).pid = m,
         Buffered(Head(q), b, b2), Moving(m, n, k, q, a, b), Head(q).sid \in 1 .. Slices[m],
         \A i \in DOMAIN q : q[i].pid = m => q[i].no <= n /\ (q[i].no = n => q[i].sid <= k),
         \A i \in DOMAIN Tail(q) :
           /\ Head(q).no <= Tail(q)[i].no
           /\ Head(q).no = Tail(q)[i].no => Head(q).sid <= Tail(q)[i].sid
  PROVE  Moving(m, n, k, Tail(q), c, b2)
<1> DEFINE r == Tail(q)
           p == Head(q)
<1>1. /\ \A i \in DOMAIN r : i + 1 \in DOMAIN q /\ r[i] = q[i + 1]
      /\ p \in Slice /\ 1 \in DOMAIN q /\ p = q[1] /\ r \in Seq(Slice)
  BY TailOf
<1>2. p.pid \in Msg /\ p.sid \in Nat /\ p.pid = m
  BY <1>1 DEF Slice
<1>3. /\ \A i \in DOMAIN c : (i \in DOMAIN a /\ c[i] = a[i]) \/ (c[i] = <<m, p.sid>> /\ i = Len(a) + 1)
      /\ \A i \in DOMAIN a : ~(Len(a) + 1 < i)
      /\ ~(Len(a) + 1 < Len(a) + 1)
  <2>2. p.pid \in Msg /\ p.sid \in Nat /\ p.pid = m /\ Acknowledged(p, a, c)
    BY <1>2
  <2> HIDE DEF p
  <2>3. /\ c \in Seq(Msg \X Nat)
        /\ \A i \in DOMAIN c :
             (i \in DOMAIN a /\ c[i] = a[i]) \/ (i = Len(a) + 1 /\ c[i] = <<p.pid, p.sid>>)
        /\ \A i \in DOMAIN a : ~(Len(a) + 1 < i)
        /\ ~(Len(a) + 1 < Len(a) + 1)
    BY <2>2, AckAppended
  <2> QED BY <2>2, <2>3
<1>4. k \in Nat /\ Slices[m] \in Nat /\ p.sid \in Nat /\ p.no \in Nat
      /\ \A i \in DOMAIN r : r[i].no \in Nat /\ r[i].sid \in Nat
  <2>1. k \in Nat /\ Slices[m] \in Nat
    BY SlicesAssumption
  <2>2. \A i \in DOMAIN r : r[i] \in Slice
    BY <1>1
  <2> QED BY <1>1, <2>1, <2>2 DEF Slice
<1>5. /\ \A i \in DOMAIN r : p.no <= r[i].no /\ (p.no = r[i].no => p.sid <= r[i].sid)
      /\ Acknowledged(p, a, c) /\ Buffered(p, b, b2) /\ p.pid = m
      /\ p.sid \in 1 .. Slices[m]
  OBVIOUS
<1> HIDE DEF r, p
<1>6. \A i \in DOMAIN r : r[i].pid = m => r[i].no <= n /\ (r[i].no = n => r[i].sid <= k)
  BY <1>1
<1>7. \/ p.no = n /\ p.sid \in {k - 1, k}
      \/ k = 1 /\ p.sid = Slices[m] /\ b = 0
  BY <1>1, <1>5 DEF Moving
<1>8. /\ b \in {0, k - 1, k}
      /\ \A i \in DOMAIN r : r[i].pid = m =>
           \/ r[i].no = n /\ r[i].sid \in {k - 1, k}
           \/ k = 1 /\ r[i].sid = Slices[m] /\ b = 0
      /\ \A i \in DOMAIN a : a[i][1] = m => a[i][2] \in {k - 1, k} \/ (k = 1 /\ a[i][2] = Slices[m])
  BY <1>1 DEF Moving
<1>9. ASSUME NEW i \in DOMAIN a, a[i] = <<m, k>>
      PROVE  /\ p.sid = k /\ b \in {0, k} /\ (k = Slices[m] => b = 0)
             /\ \A j \in DOMAIN r : r[j].pid = m => r[j].sid = k
             /\ \A j \in DOMAIN a : i < j /\ a[j][1] = m => a[j][2] = k
  <2>1. /\ b \in {0, k} /\ (k = Slices[m] => b = 0)
        /\ \A j \in DOMAIN q : q[j].pid = m => q[j].sid = k
        /\ \A j \in DOMAIN a : i < j /\ a[j][1] = m => a[j][2] = k
    BY <1>9 DEF Moving
  <2> QED BY <1>1, <1>2, <2>1
<1>10. \A i \in DOMAIN c : c[i][1] = m => c[i][2] \in {k - 1, k} \/ (k = 1 /\ c[i][2] = Slices[m])
  <2>1. p.sid \in {k - 1, k} \/ (k = 1 /\ p.sid = Slices[m])
    BY <1>7
  <2> QED BY <1>3, <1>8, <2>1
<1>11. ASSUME p.no = n, p.sid = k - 1 PROVE Moving(m, n, k, r, c, b2)
  <2>1. b2 \in {0, k - 1, k}
    BY <1>4, <1>5, <1>8, <1>11 DEF Buffered
  <2>2. \A i \in DOMAIN r : r[i].pid = m => r[i].no = n /\ r[i].sid \in {k - 1, k}
    BY <1>4, <1>5, <1>6, <1>8, <1>11
  <2>3. \A i \in DOMAIN c : c[i] # <<m, k>>
    <3>1. p.sid # k
      BY <1>4, <1>11
    <3>2. \A i \in DOMAIN a : a[i] # <<m, k>>
      BY <1>9, <3>1
    <3>3. <<m, p.sid>> # <<m, k>>
      BY <3>1
    <3> QED BY <1>3, <3>2, <3>3
  <2> QED BY <1>10, <2>1, <2>2, <2>3 DEF Moving
<1>12. ASSUME p.no = n, p.sid = k PROVE Moving(m, n, k, r, c, b2)
  <2>1. b2 \in {0, k} /\ (k = Slices[m] => b2 = 0)
    <3>1. k - 1 + 1 = k /\ (b = k - 1 => k = b + 1) /\ k # 0
      BY <1>4
    <3>2. k = Slices[m] => b # k
      BY <1>4
    <3>3. b = k - 1 => b2 \in {0, k} /\ (k = Slices[m] => b2 = 0)
      BY <1>4, <1>5, <1>12, <3>1 DEF Buffered
    <3>4. b # k - 1 => b2 = b
      BY <1>4, <1>5, <1>12 DEF Buffered
    <3> QED BY <1>8, <3>2, <3>3, <3>4
  <2>2. \A i \in DOMAIN r : r[i].pid = m => r[i].no = n /\ r[i].sid = k
    BY <1>4, <1>5, <1>6, <1>8, <1>12
  <2>3. ASSUME NEW i \in DOMAIN c, c[i] = <<m, k>>
        PROVE  \A j \in DOMAIN c : i < j /\ c[j][1] = m => c[j][2] = k
    <3>1. SUFFICES ASSUME NEW j \in DOMAIN c, i < j, c[j][1] = m PROVE c[j][2] = k
      OBVIOUS
    <3>2. j \in DOMAIN a => i \in DOMAIN a
      BY <1>3, <2>3, <3>1
    <3>3. j \in DOMAIN a /\ c[j] = a[j] => c[j][2] = k
      <4>1. ASSUME j \in DOMAIN a, c[j] = a[j] PROVE i \in DOMAIN a /\ c[i] = a[i]
        BY <1>3, <3>1, <4>1
      <4> QED BY <1>9, <2>3, <3>1, <4>1
    <3>4. c[j] = <<m, p.sid>> => c[j][2] = k
      BY <1>12
    <3> QED BY <1>3, <3>3, <3>4
  <2> QED BY <1>10, <2>1, <2>2, <2>3 DEF Moving
<1>13. ASSUME k = 1, p.sid = Slices[m], b = 0 PROVE Moving(m, n, k, r, c, b2)
  <2>1. b2 = b
    BY <1>4, <1>5, <1>13 DEF Buffered
  <2>2. \A i \in DOMAIN c : c[i] # <<m, k>>
    <3>1. p.sid # k
      BY <1>4, <1>13
    <3>2. \A i \in DOMAIN a : a[i] # <<m, k>>
      BY <1>9, <3>1
    <3>3. <<m, p.sid>> # <<m, k>>
      BY <3>1
    <3> QED BY <1>3, <3>2, <3>3
  <2> QED BY <1>8, <1>10, <2>1, <2>2 DEF Moving
<1>14. Moving(m, n, k, r, c, b2)
  BY <1>7, <1>11, <1>12, <1>13
<1> QED BY <1>14 DEF r

\* What is known of message m and its sender before a step.
LEMMA BufferFacts ==
  ASSUME IInv, BInv, NEW m \in Msg
  PROVE  /\ From[m] \in Sender /\ toReceiver[From[m]] \in Seq(Slice)
         /\ toSender[From[m]] \in Seq(Msg \X Nat)
         /\ stored[m] \in Nat /\ stored[m] < Slices[m] /\ Slices[m] \in Nat
         /\ sent[From[m]] \in Seq(Msg) /\ sid[From[m]] \in Nat
         /\ Number(From[m]) \in Nat
         /\ at[From[m]] # "idle" =>
              /\ Current(From[m]) \in Msg /\ Number(From[m]) > 0
              /\ sid[From[m]] \in 1 .. Slices[Current(From[m])]
<1>1. From[m] \in Sender /\ Slices[m] \in Nat
  BY SlicesAssumption
<1>2. /\ toReceiver[From[m]] \in Seq(Slice)
      /\ toSender[From[m]] \in Seq(Msg \X Nat)
      /\ stored[m] \in Nat /\ stored[m] < Slices[m]
      /\ sent[From[m]] \in Seq(Msg) /\ sid[From[m]] \in Nat
  BY <1>1 DEF IInv, Types, BInv
<1>3. Number(From[m]) \in Nat
  BY <1>2 DEF Number
<1>4. ASSUME at[From[m]] # "idle"
      PROVE  /\ Current(From[m]) \in Msg /\ Number(From[m]) > 0
             /\ sid[From[m]] \in 1 .. Slices[Current(From[m])]
  <2>1. Len(sent[From[m]]) > 0 /\ sid[From[m]] \in 1 .. Slices[sent[From[m]][Len(sent[From[m]])]]
    BY <1>1, <1>4 DEF IInv, SenderInv, Consistent
  <2>2. sent[From[m]][Len(sent[From[m]])] \in Msg
    BY <1>2, <2>1
  <2> QED BY <2>1, <2>2 DEF Current, Number
<1> QED BY <1>1, <1>2, <1>3, <1>4

\* Nothing has changed for message m.
LEMMA SameBuffer ==
  ASSUME NEW m \in Msg, NEW s, s = From[m], BufferInv(m),
         (at'[s] # "idle") <=> (at[s] # "idle"), sent'[s] = sent[s], sid'[s] = sid[s],
         toReceiver'[s] = toReceiver[s], toSender'[s] = toSender[s], stored'[m] = stored[m]
  PROVE  BufferInv(m)'
BY DEF BufferInv, Current, Number

LEMMA BeginBuffers ==
  ASSUME IInv, BInv, NEW m \in Msg, Slices[m] > 1, BufferInv(m),
         NEW t \in Sender, NEW x \in Msg, Begin(t, x)
  PROVE  BufferInv(m)'
<1> DEFINE s == From[m]
<1>1. /\ s \in Sender /\ sent[s] \in Seq(Msg)
      /\ From[x] = t /\ stored' = stored /\ toReceiver' = toReceiver /\ toSender' = toSender
      /\ at[t] = "idle" /\ at' = [at EXCEPT ![t] = "send"] /\ sid' = [sid EXCEPT ![t] = 1]
      /\ sent' = [sent EXCEPT ![t] = Append(@, x)]
      /\ at \in [Sender -> {"idle", "send", "wait"}] /\ sid \in [Sender -> Nat]
      /\ sent \in [Sender -> Seq(Msg)]
  BY BufferFacts DEF Begin, netVars, reformerVars, IInv, Types
<1>2. CASE t # s
  <2>1. at'[s] = at[s] /\ sid'[s] = sid[s] /\ sent'[s] = sent[s]
    BY <1>1, <1>2
  <2> QED BY <1>1, <2>1, SameBuffer
<1>3. CASE t = s
  <2>1. /\ at'[s] = "send" /\ sid'[s] = 1 /\ sent'[s] = Append(sent[s], x)
        /\ sent'[s][Len(sent'[s])] = x
    BY <1>1, <1>3
  <2>2. Settled(m, toReceiver[s], toSender[s], stored[m])
    BY <1>1, <1>3 DEF BufferInv
  <2>3. x = m => Moving(m, Len(sent'[s]), 1, toReceiver[s], toSender[s], stored[m])
    BY <2>2, MessageBegun
  <2> QED BY <1>1, <2>1, <2>2, <2>3 DEF BufferInv, Current, Number
<1> QED BY <1>2, <1>3

LEMMA SendBuffers ==
  ASSUME IInv, BInv, NEW m \in Msg, Slices[m] > 1, BufferInv(m),
         NEW t \in Sender, SendSlice(t)
  PROVE  BufferInv(m)'
<1> DEFINE s == From[m]
           p == [pid |-> Current(t), sid |-> sid[t], no |-> Number(t)]
<1>1. /\ s \in Sender /\ stored' = stored /\ sent' = sent /\ sid' = sid /\ toSender' = toSender
      /\ at[t] = "send" /\ at' = [at EXCEPT ![t] = "wait"]
      /\ toReceiver' = toReceiver \/ toReceiver' = [toReceiver EXCEPT ![t] = Append(@, p)]
      /\ at \in [Sender -> {"idle", "send", "wait"}]
      /\ toReceiver \in [Sender -> Seq(Slice)]
  BY BufferFacts DEF SendSlice, reformerVars, IInv, Types
<1>2. t = s => p \in Slice /\ p.pid = Current(s) /\ p.sid = sid[s] /\ p.no = Number(s)
  BY <1>1, BufferFacts DEF Slice
<1> HIDE DEF p
<1>3. (at'[s] # "idle") <=> (at[s] # "idle")
  BY <1>1
<1>4. CASE toReceiver'[s] = toReceiver[s]
  BY <1>1, <1>3, <1>4, SameBuffer
<1>5. CASE toReceiver'[s] # toReceiver[s]
  <2>1. t = s /\ toReceiver'[s] = Append(toReceiver[s], p)
    BY <1>1, <1>5
  <2>2. at[s] = "send" /\ at'[s] = "wait" /\ sid[s] \in Nat /\ toReceiver[s] \in Seq(Slice)
    BY <1>1, <2>1, BufferFacts
  <2>3. ASSUME Current(s) = m
        PROVE  Moving(m, Number(s), sid[s], toReceiver'[s], toSender[s], stored[m])
    <3>1. Moving(m, Number(s), sid[s], toReceiver[s], toSender[s], stored[m])
      BY <2>2, <2>3 DEF BufferInv
    <3> QED BY <1>2, <2>1, <2>2, <2>3, <3>1, SliceSent
  <2>4. ASSUME Current(s) # m
        PROVE  Settled(m, toReceiver'[s], toSender[s], stored[m])
    <3>1. Settled(m, toReceiver[s], toSender[s], stored[m])
      BY <2>4 DEF BufferInv
    <3> QED BY <1>2, <2>1, <2>2, <2>4, <3>1, SliceSent
  <2> QED BY <1>1, <2>2, <2>3, <2>4 DEF BufferInv, Current, Number
<1> QED BY <1>4, <1>5

LEMMA RecvAckBuffers ==
  ASSUME IInv, BInv, NEW m \in Msg, Slices[m] > 1, BufferInv(m),
         NEW t \in Sender, RecvAck(t)
  PROVE  BufferInv(m)'
<1> DEFINE s == From[m]
           a == toSender[s]
<1>1. /\ s \in Sender /\ stored' = stored /\ sent' = sent /\ toReceiver' = toReceiver
      /\ at[t] = "wait" /\ toSender[t] # <<>>
      /\ toSender' = [toSender EXCEPT ![t] = Tail(@)]
      /\ \/ ~Matches(t, Head(toSender[t])) /\ at' = at /\ sid' = sid
         \/ /\ Matches(t, Head(toSender[t])) /\ IsLast(t)
            /\ at' = [at EXCEPT ![t] = "idle"] /\ sid' = sid
         \/ /\ Matches(t, Head(toSender[t])) /\ ~IsLast(t)
            /\ at' = [at EXCEPT ![t] = "send"] /\ sid' = [sid EXCEPT ![t] = @ + 1]
      /\ at \in [Sender -> {"idle", "send", "wait"}] /\ sid \in [Sender -> Nat]
      /\ toSender \in [Sender -> Seq(Msg \X Nat)]
  BY BufferFacts DEF RecvAck, reformerVars, senderVars, IInv, Types, BInv
<1>2. CASE t # s
  <2>1. at'[s] = at[s] /\ sid'[s] = sid[s] /\ toSender'[s] = toSender[s]
    BY <1>1, <1>2
  <2> QED BY <1>1, <2>1, SameBuffer
<1>3. CASE t = s
  <2>1. /\ at[s] = "wait" /\ a # <<>> /\ a \in Seq(Msg \X Nat) /\ toSender'[s] = Tail(a)
        /\ sid[s] \in Nat
    BY <1>1, <1>3
  <2>2. \/ at'[s] = at[s] /\ sid'[s] = sid[s] /\ ~Matches(s, Head(a))
        \/ at'[s] = "idle" /\ sid'[s] = sid[s] /\ Matches(s, Head(a)) /\ IsLast(s)
        \/ at'[s] = "send" /\ sid'[s] = sid[s] + 1 /\ Matches(s, Head(a)) /\ ~IsLast(s)
    BY <1>1, <1>3
  <2> HIDE DEF a
  <2>3. ASSUME Current(s) = m, Matches(s, Head(a))
        PROVE  /\ IsLast(s) => Settled(m, toReceiver[s], Tail(a), stored[m])
               /\ ~IsLast(s) => Moving(m, Number(s), sid[s] + 1, toReceiver[s], Tail(a), stored[m])
    <3>1. Moving(m, Number(s), sid[s], toReceiver[s], a, stored[m])
      BY <2>1, <2>3 DEF BufferInv, a
    <3>2. Head(a) = <<m, sid[s]>> /\ sid[s] \in 1 .. Slices[m] /\ (IsLast(s) <=> sid[s] = Slices[m])
      BY <2>1, <2>3, BufferFacts DEF Matches, IsLast
    <3> QED BY <2>1, <3>1, <3>2, AckMatched
  <2>4. ASSUME Current(s) = m
        PROVE  Moving(m, Number(s), sid[s], toReceiver[s], Tail(a), stored[m])
    <3>1. Moving(m, Number(s), sid[s], toReceiver[s], a, stored[m])
      BY <2>1, <2>4 DEF BufferInv, a
    <3> QED BY <2>1, <3>1, AckTaken
  <2>5. ASSUME Current(s) # m
        PROVE  Settled(m, toReceiver[s], Tail(a), stored[m])
    <3>1. Settled(m, toReceiver[s], a, stored[m])
      BY <2>5 DEF BufferInv, a
    <3> QED BY <2>1, <3>1, AckTaken
  <2>6. Current(s)' = Current(s) /\ Number(s)' = Number(s)
    BY <1>1 DEF Current, Number
  <2>7. CASE at'[s] = at[s] /\ sid'[s] = sid[s]
    BY <1>1, <2>1, <2>4, <2>5, <2>6, <2>7 DEF BufferInv
  <2>8. CASE at'[s] = "idle" /\ Matches(s, Head(a)) /\ IsLast(s)
    BY <1>1, <2>1, <2>3, <2>5, <2>6, <2>8 DEF BufferInv
  <2>9. CASE at'[s] = "send" /\ sid'[s] = sid[s] + 1 /\ Matches(s, Head(a)) /\ ~IsLast(s)
    BY <1>1, <2>1, <2>3, <2>5, <2>6, <2>9 DEF BufferInv
  <2> QED BY <2>2, <2>7, <2>8, <2>9
<1> QED BY <1>2, <1>3

\* A sender that gives up gives the current message up.
LEMMA TimeoutBuffers ==
  ASSUME IInv, BInv, NEW m \in Msg, Slices[m] > 1, BufferInv(m),
         NEW t \in Sender, Timeout(t), m \notin abandoned'
  PROVE  BufferInv(m)'
<1> DEFINE s == From[m]
<1>1. /\ s \in Sender /\ stored' = stored /\ sent' = sent /\ toReceiver' = toReceiver
      /\ toSender' = toSender /\ sid' = sid /\ at[t] = "wait"
      /\ \/ at' = [at EXCEPT ![t] = "send"]
         \/ at' = [at EXCEPT ![t] = "idle"] /\ Current(t) # m
      /\ at \in [Sender -> {"idle", "send", "wait"}]
  BY BufferFacts DEF Timeout, reformerVars, netVars, IInv, Types
<1>2. CASE (at'[s] # "idle") <=> (at[s] # "idle")
  BY <1>1, <1>2, SameBuffer
<1>3. CASE ~((at'[s] # "idle") <=> (at[s] # "idle"))
  <2>1. at'[s] = "idle" /\ Current(s) # m
    BY <1>1, <1>3
  <2> QED BY <1>1, <2>1 DEF BufferInv
<1> QED BY <1>2, <1>3

LEMMA CheckBuffers ==
  ASSUME IInv, BInv, NEW m \in Msg, Slices[m] > 1, BufferInv(m),
         NEW x \in Msg, Check(x)
  PROVE  BufferInv(m)'
<1>1. /\ UNCHANGED <<at, sid, sent, toReceiver, toSender>>
      /\ stored'[m] = stored[m] \/ stored'[m] = 0
  BY DEF Check, RemoveSlice, senderVars, netVars, IInv, Types
<1> QED BY <1>1, BufferEmptied DEF BufferInv, Current, Number

\* PutSlice changes the buffer of the message of the slice at most.
LEMMA PutSliceBuffer ==
  ASSUME IInv, NEW p \in Slice, PutSlice(p)
  PROVE  /\ Buffered(p, stored[p.pid], stored'[p.pid])
         /\ \A m \in Msg : m # p.pid => stored'[m] = stored[m]
<1>1. p.pid \in Msg /\ p.sid \in Nat /\ stored \in [Msg -> Nat]
  BY DEF Slice, IInv, Types
<1>2. \/ stored' = stored /\ (p.sid = stored[p.pid] + 1 => stored[p.pid] = 0 /\ p.sid = 1)
      \/ p.sid = stored[p.pid] + 1 /\ Store(p)
  BY DEF PutSlice, reformerVars
<1>3. ASSUME p.sid = stored[p.pid] + 1, Store(p)
      PROVE  stored' = [stored EXCEPT ![p.pid] = IF p.sid = Slices[p.pid] THEN 0 ELSE p.sid]
  BY <1>3 DEF Store, Reassemble, RemoveSlice
<1> QED BY <1>1, <1>2, <1>3 DEF Buffered

LEMMA FirstInOrder ==
  ASSUME NEW s, NEW ms, NEW k, NEW last, NEW q \in Seq(Slice), q # <<>>, NEW b,
         First(s, ms, k, last, q, b)
  PROVE  /\ Head(q).sid \in 1 .. Slices[Head(q).pid]
         /\ \A i \in DOMAIN Tail(q) :
              /\ Head(q).no <= Tail(q)[i].no
              /\ Head(q).no = Tail(q)[i].no => Head(q).sid <= Tail(q)[i].sid
<1>1. Tail(q) \in Seq(Slice)
  OBVIOUS
<1>2. DOMAIN Tail(q) = 1 .. Len(Tail(q))
  BY <1>1
<1> QED BY <1>2 DEF First

LEMMA ReceiveBuffers ==
  ASSUME IInv, BInv, NEW m \in Msg, Slices[m] > 1, BufferInv(m),
         NEW t \in Sender, Receive(t)
  PROVE  BufferInv(m)'
<1> DEFINE s == From[m]
           q == toReceiver[t]
           p == Head(q)
<1>1. /\ s \in Sender /\ sent' = sent /\ at' = at /\ sid' = sid
      /\ q # <<>> /\ p \in Slice /\ From[p.pid] = t /\ PutSlice(p)
      /\ toReceiver' = [toReceiver EXCEPT ![t] = Tail(q)]
      /\ \/ toSender' = toSender
         \/ toSender' = [toSender EXCEPT ![t] = Append(@, <<p.pid, p.sid>>)]
      /\ toReceiver \in [Sender -> Seq(Slice)]
      /\ toSender \in [Sender -> Seq(Msg \X Nat)]
  BY BufferFacts, ReceiveCases DEF Receive, Acknowledge, IInv, Types, BInv
<1>2. /\ Buffered(p, stored[p.pid], stored'[p.pid])
      /\ m # p.pid => stored'[m] = stored[m]
  BY <1>1, PutSliceBuffer
<1>3. ASSUME t # s PROVE BufferInv(m)'
  <2>1. /\ toReceiver'[s] = toReceiver[s] /\ toSender'[s] = toSender[s]
        /\ stored'[m] = stored[m]
    BY <1>1, <1>2, <1>3
  <2> QED BY <1>1, <2>1, SameBuffer
<1>4. ASSUME t = s PROVE BufferInv(m)'
  <2> DEFINE a == toSender[s]
             c == toSender'[s]
             b == stored[m]
             b2 == stored'[m]
  <2>1. /\ toReceiver'[s] = Tail(q) /\ q \in Seq(Slice) /\ a \in Seq(Msg \X Nat)
        /\ Acknowledged(p, a, c) /\ q = toReceiver[s] /\ p = Head(q)
        /\ b \in Nat /\ b < Slices[m]
    BY <1>1, <1>4, BufferFacts DEF Acknowledged
  <2>2. Current(s)' = Current(s) /\ Number(s)' = Number(s)
    BY <1>1 DEF Current, Number
  <2>3. Consistent(s, at[s], sent[s], sid[s], Channel!LastGot(s), q, stored) /\ sent[s] \in Seq(Msg)
    BY <1>1, <1>4 DEF IInv, Types, SenderInv
  <2>4. p.sid \in 1 .. Slices[p.pid]
        /\ \A i \in DOMAIN Tail(q) : p.no <= Tail(q)[i].no
                                     /\ (p.no = Tail(q)[i].no => p.sid <= Tail(q)[i].sid)
    <3>1. First(s, sent[s], sid[s], Channel!LastGot(s), q, stored)
      BY <1>1, <2>3, FirstSlice
    <3> QED BY <1>1, <2>1, <3>1, FirstInOrder
  <2>5. \A i \in DOMAIN q : q[i].no <= Number(s) /\ (q[i].no = Number(s) => q[i].sid <= sid[s])
    <3>1. DOMAIN q = 1 .. Len(q) /\ Len(sent[s]) \in Nat
      BY <2>1, <2>3
    <3> QED BY <2>3, <3>1 DEF Consistent, OnTheWay, Number
  <2> HIDE DEF q, p, a, c, b, b2
  <2>6. ASSUME at[s] # "idle", Current(s) = m
        PROVE  Moving(m, Number(s), sid[s], Tail(q), c, b2)
    <3>1. Moving(m, Number(s), sid[s], q, a, b)
      BY <2>1, <2>6 DEF BufferInv, a, b
    <3>2. Number(s) \in Nat /\ sid[s] \in 1 .. Slices[m]
      BY <2>6, BufferFacts
    <3>3. ASSUME p.pid # m PROVE Moving(m, Number(s), sid[s], Tail(q), c, b2)
      <4>1. b2 = b
        BY <1>2, <3>3 DEF b, b2
      <4> QED BY <1>1, <2>1, <3>1, <3>3, <4>1, OtherReceived
    <3>4. ASSUME p.pid = m PROVE Moving(m, Number(s), sid[s], Tail(q), c, b2)
      <4>1. Buffered(Head(q), b, b2) /\ Acknowledged(Head(q), a, c) /\ Head(q).pid = m
        BY <1>2, <2>1, <3>4 DEF b, b2
      <4>2. Head(q).sid \in 1 .. Slices[m]
            /\ \A i \in DOMAIN Tail(q) :
                 /\ Head(q).no <= Tail(q)[i].no
                 /\ Head(q).no = Tail(q)[i].no => Head(q).sid <= Tail(q)[i].sid
        BY <2>1, <2>4, <3>4
      <4> QED BY <1>1, <2>1, <2>5, <3>1, <3>2, <4>1, <4>2, MovingReceived
    <3> QED BY <3>3, <3>4
  <2>7. ASSUME ~(at[s] # "idle" /\ Current(s) = m)
        PROVE  Settled(m, Tail(q), c, b2)
    <3>1. Settled(m, q, a, b)
      BY <2>1, <2>7 DEF BufferInv, a, b
    <3>2. ASSUME p.pid # m PROVE Settled(m, Tail(q), c, b2)
      <4>1. b2 = b
        BY <1>2, <3>2 DEF b, b2
      <4> QED BY <1>1, <2>1, <3>1, <3>2, <4>1, OtherReceived
    <3>3. ASSUME p.pid = m PROVE Settled(m, Tail(q), c, b2)
      <4>1. Buffered(Head(q), b, b2) /\ Acknowledged(Head(q), a, c) /\ Head(q).pid = m
        BY <1>2, <2>1, <3>3 DEF b, b2
      <4> QED BY <1>1, <2>1, <3>1, <4>1, SettledReceived
    <3> QED BY <3>2, <3>3
  <2> QED BY <1>1, <2>1, <2>2, <2>6, <2>7 DEF BufferInv, c, b2
<1> QED BY <1>3, <1>4

\* Acknowledgements are of slices, and no buffer holds a whole message.
LEMMA BufferTypes ==
  ASSUME IInv, BInv, [Next]_vars
  PROVE  /\ toSender' \in [Sender -> Seq(Msg \X Nat)]
         /\ \A m \in Msg : stored'[m] < Slices[m]
<1>1. /\ toSender \in [Sender -> Seq(Msg \X Nat)] /\ stored \in [Msg -> Nat]
      /\ \A m \in Msg : stored[m] < Slices[m] /\ Slices[m] \in Nat \ {0}
  BY SlicesAssumption DEF IInv, Types, BInv
<1>2. ASSUME toSender' = toSender, stored' = stored
      PROVE  /\ toSender' \in [Sender -> Seq(Msg \X Nat)]
             /\ \A m \in Msg : stored'[m] < Slices[m]
  BY <1>1, <1>2
<1>3. ASSUME NEW s \in Sender, SenderStep(s)
      PROVE  stored' = stored /\ toSender' \in [Sender -> Seq(Msg \X Nat)]
  <2>1. /\ stored' = stored
        /\ \/ toSender' = toSender
           \/ toSender[s] # <<>> /\ toSender' = [toSender EXCEPT ![s] = Tail(@)]
    BY <1>3 DEF SenderStep, SendSlice, RecvAck, Timeout, netVars, reformerVars
  <2>2. toSender[s] \in Seq(Msg \X Nat)
    BY <1>1
  <2>3. toSender[s] # <<>> => Tail(toSender[s]) \in Seq(Msg \X Nat)
    BY <2>2, TailOf
  <2> QED BY <1>1, <2>1, <2>3
<1>4. ASSUME NEW s \in Sender, Receive(s)
      PROVE  /\ toSender' \in [Sender -> Seq(Msg \X Nat)]
             /\ \A m \in Msg : stored'[m] < Slices[m]
  <2> DEFINE p == Head(toReceiver[s])
  <2>1. /\ p \in Slice /\ PutSlice(p) /\ p.pid \in Msg /\ p.sid \in Nat
        /\ \/ toSender' = toSender
           \/ toSender' = [toSender EXCEPT ![s] = Append(@, <<p.pid, p.sid>>)]
    BY <1>4, ReceiveCases DEF Receive, Acknowledge, Slice
  <2>2. p.sid \in 1 .. Slices[p.pid]
    <3>1. /\ Consistent(s, at[s], sent[s], sid[s], Channel!LastGot(s), toReceiver[s], stored)
          /\ sent[s] \in Seq(Msg) /\ toReceiver[s] # <<>>
      BY <1>4 DEF IInv, Types, SenderInv, Receive
    <3>2. First(s, sent[s], sid[s], Channel!LastGot(s), toReceiver[s], stored)
      BY <3>1, FirstSlice
    <3>3. toReceiver[s] \in Seq(Slice)
      BY DEF IInv, Types
    <3> QED BY <3>1, <3>2, <3>3, FirstInOrder
  <2>3. /\ Buffered(p, stored[p.pid], stored'[p.pid])
        /\ \A m \in Msg : m # p.pid => stored'[m] = stored[m]
    BY <2>1, PutSliceBuffer
  <2> HIDE DEF p
  <2>4. toSender[s] \in Seq(Msg \X Nat)
    BY <1>1
  <2>5. Append(toSender[s], <<p.pid, p.sid>>) \in Seq(Msg \X Nat)
    BY <2>1, <2>4, AckAppended DEF Acknowledged
  <2>6. toSender' \in [Sender -> Seq(Msg \X Nat)]
    BY <1>1, <2>1, <2>5
  <2>7. stored'[p.pid] < Slices[p.pid]
    BY <1>1, <2>1, <2>2, <2>3 DEF Buffered
  <2> QED BY <1>1, <2>3, <2>6, <2>7
<1>5. ASSUME NEW s \in Sender, NEW x \in Msg, Begin(s, x)
      PROVE  toSender' = toSender /\ stored' = stored
  BY <1>5 DEF Begin, netVars, reformerVars
<1>6. ASSUME NEW x \in Msg, Check(x)
      PROVE  /\ toSender' \in [Sender -> Seq(Msg \X Nat)]
             /\ \A m \in Msg : stored'[m] < Slices[m]
  BY <1>1, <1>6 DEF Check, RemoveSlice, netVars
<1>7. ASSUME UNCHANGED vars PROVE toSender' = toSender /\ stored' = stored
  BY <1>7 DEF vars, netVars, reformerVars
<1> QED BY <1>1, <1>2, <1>3, <1>4, <1>5, <1>6, <1>7 DEF Next

LEMMA InitBuffers == Init => BInv
<1> SUFFICES ASSUME Init PROVE BInv
  OBVIOUS
<1>1. toSender = [s \in Sender |-> <<>>] /\ \A m \in Msg : Slices[m] \in Nat \ {0}
  BY SlicesAssumption DEF Init
<1>2. toSender \in [Sender -> Seq(Msg \X Nat)]
  BY <1>1
<1>3. \A m \in Msg : stored[m] = 0 /\ stored[m] < Slices[m]
  BY <1>1 DEF Init
<1>4. ASSUME NEW m \in Msg PROVE BufferInv(m)
  <2>1. /\ From[m] \in Sender /\ at[From[m]] = "idle" /\ stored[m] = 0
        /\ toReceiver[From[m]] = <<>> /\ toSender[From[m]] = <<>>
    BY SlicesAssumption DEF Init
  <2> QED BY <2>1 DEF BufferInv, Settled
<1> QED BY <1>2, <1>3, <1>4 DEF BInv

LEMMA StepBuffers == IInv /\ BInv /\ [Next]_vars => BInv'
<1> SUFFICES ASSUME IInv, BInv, [Next]_vars PROVE BInv'
  OBVIOUS
<1>1. ASSUME NEW m \in Msg, m \notin abandoned', Slices[m] > 1
      PROVE  BufferInv(m)'
  <2>1. m \notin abandoned
    BY <1>1 DEF Next, SenderStep, SendSlice, RecvAck, Timeout, Receive, Begin, Check,
                vars, senderVars
  <2>2. BufferInv(m)
    BY <1>1, <2>1 DEF BInv
  <2>3. ASSUME NEW s \in Sender, SenderStep(s) PROVE BufferInv(m)'
    BY <1>1, <2>2, <2>3, SendBuffers, RecvAckBuffers, TimeoutBuffers DEF SenderStep
  <2>4. ASSUME NEW s \in Sender, Receive(s) PROVE BufferInv(m)'
    BY <1>1, <2>2, <2>4, ReceiveBuffers
  <2>5. ASSUME NEW s \in Sender, NEW x \in Msg, Begin(s, x) PROVE BufferInv(m)'
    BY <1>1, <2>2, <2>5, BeginBuffers
  <2>6. ASSUME NEW x \in Msg, Check(x) PROVE BufferInv(m)'
    BY <1>1, <2>2, <2>6, CheckBuffers
  <2>7. ASSUME UNCHANGED vars PROVE BufferInv(m)'
    <3>1. /\ at' = at /\ sent' = sent /\ sid' = sid /\ toReceiver' = toReceiver
          /\ toSender' = toSender /\ stored' = stored
      BY <2>7 DEF vars, senderVars, netVars, reformerVars
    <3> QED BY <2>2, <3>1, SameBuffer
  <2> QED BY <2>3, <2>4, <2>5, <2>6, <2>7 DEF Next
<1> QED BY <1>1, BufferTypes DEF BInv

\* In every reachable state, all that is on its way of a message that was never
\* given up belongs to its current slice or the one before, or to the last of
\* an earlier copy that was acknowledged to the end.
THEOREM BuffersInvariant == Spec => [](IInv /\ BInv)
<1> QED BY InitInv, StepInv, InitBuffers, StepBuffers, PTL DEF Spec

LEMMA InvBuffers == IInv /\ BInv => BuffersAccounted
<1> SUFFICES ASSUME IInv, BInv, NEW m \in InUse \ abandoned
             PROVE  at[From[m]] # "idle" /\ Current(From[m]) = m
  BY DEF BuffersAccounted
<1>1. m \in Msg /\ stored[m] > 0 /\ stored[m] < Slices[m] /\ stored[m] \in Nat /\ Slices[m] \in Nat
  BY BufferFacts DEF InUse
<1>2. Slices[m] > 1 /\ stored[m] # 0
  BY <1>1
<1>3. BufferInv(m)
  BY <1>1, <1>2 DEF BInv
<1> QED BY <1>2, <1>3 DEF BufferInv, Settled

\* The reformer (Reformer.cpp) loses none of its slice buffers to a message
\* that was acknowledged to the end: one in use belongs to the message its
\* sender is at, or to one that its sender gave up, whatever the network loses,
\* repeats or delays and whenever the checker removes a message.
THEOREM BuffersCorrect == Spec => []BuffersAccounted
<1> QED BY BuffersInvariant, InvBuffers, PTL
-----------------------------------------------------------------------------
(* What the sender holds for sent, and what has arrived. *)

\* The slices of message m in d whole copies and k of the next one.
Upto(m, d, k) == d * Slices[m] + k

Acked(m) == {n \in done[From[m]] : sent[From[m]][n] = m}

Arrived(m) ==
  LET g == got[From[m]]
  IN  {i \in 1 .. Len(g) : g[i] > 0 /\ sent[From[m]][g[i]] = m}

SenderAt(m) ==
  Upto(m, Cardinality(Acked(m)),
       IF at[From[m]] # "idle" /\ Current(From[m]) = m THEN sid[From[m]] - 1 ELSE 0)

ReceiverAt(m) == Upto(m, Cardinality(Arrived(m)), stored[m])

\* Between the sender at lo and the receiver at hi, r[i] is where the receiver
\* stood when it sent the i-th of the acknowledgements a, and r[0] before the
\* first of them: who acknowledges a slice has it, or had not the one before.
Stamps(r, a, m, lo, hi) ==
  /\ r \in [0 .. Len(a) -> Nat]
  /\ lo <= r[0] /\ r[Len(a)] <= hi
  /\ \A i, j \in 0 .. Len(a) : i <= j => r[i] <= r[j]
  /\ \A i \in 1 .. Len(a) : a[i][1] = m =>
       \A d \in Nat : Upto(m, d, a[i][2]) <= r[i - 1] + 1 => Upto(m, d, a[i][2]) <= r[i]

Behind(a, m, lo, hi) == \E r : Stamps(r, a, m, lo, hi)

AckTypes ==
  /\ done \in [Sender -> SUBSET Nat]
  /\ \A s \in Sender :
       /\ done[s] \subseteq 1 .. Len(sent[s])
       /\ at[s] # "idle" => Number(s) \notin done[s]
       /\ \A i \in 1 .. Len(got[s]) : got[s][i] <= Len(sent[s])

AInv ==
  /\ AckTypes
  /\ \A m \in Msg \ cut : Behind(toSender[From[m]], m, SenderAt(m), ReceiverAt(m))

LEMMA UptoFacts ==
  ASSUME NEW m \in Msg, NEW d \in Nat, NEW k \in Nat
  PROVE  /\ Upto(m, d, k) \in Nat
         /\ Upto(m, d, k + 1) = Upto(m, d, k) + 1
         /\ Upto(m, d, Slices[m]) = Upto(m, d + 1, 0)
         /\ Upto(m, d, 0) <= Upto(m, d, k)
<1>1. Slices[m] \in Nat
  BY SlicesAssumption
<1>2. d * Slices[m] \in Nat /\ (d + 1) * Slices[m] = d * Slices[m] + Slices[m]
  BY <1>1
<1> QED BY <1>1, <1>2 DEF Upto

\* A copy more is all its slices more.
LEMMA WholeCopies ==
  ASSUME NEW K \in Nat, NEW d \in Nat, NEW g \in Nat, d < g
  PROVE  d * K + K <= g * K
<1> DEFINE e == g - d - 1
<1>1. e \in Nat /\ g = d + 1 + e
  OBVIOUS
<1> HIDE DEF e
<1>2. g * K = d * K + K + e * K
  <2>1. (d + 1 + e) * K = d * K + K + e * K
    BY <1>1
  <2> QED BY <1>1, <2>1
<1>3. e * K \in Nat /\ d * K \in Nat
  BY <1>1
<1> QED BY <1>2, <1>3

\* With fewer than all slices of the next copy, nobody is a whole copy ahead
\* of who is not behind; and only the next slice is one slice ahead.
LEMMA UptoOrder ==
  ASSUME NEW m \in Msg, NEW d \in Nat, NEW g \in Nat, NEW b \in Nat, b < Slices[m], NEW k \in Nat
  PROVE  /\ Upto(m, d, k) <= Upto(m, g, b) => d <= g
         /\ k \in 1 .. Slices[m] /\ Upto(m, d, k) = Upto(m, g, b) + 1 => k = b + 1
<1> DEFINE K == Slices[m]
           x == d * K
           y == g * K
<1>1. K \in Nat /\ b < K
  BY SlicesAssumption
<1>2. x \in Nat /\ y \in Nat
  BY <1>1
<1>3. d < g => x + K <= y
  BY <1>1, WholeCopies
<1>4. g < d => y + K <= x
  BY <1>1, WholeCopies
<1>5. d = g => x = y
  OBVIOUS
<1>6. Upto(m, d, k) = x + k /\ Upto(m, g, b) = y + b
  BY DEF Upto
<1> HIDE DEF K, x, y
<1>7. x + k <= y + b => d <= g
  BY <1>1, <1>2, <1>4
<1>8. k \in 1 .. K /\ x + k = y + b + 1 => k = b + 1
  BY <1>1, <1>2, <1>3, <1>4, <1>5
<1> QED BY <1>6, <1>7, <1>8 DEF K

-----------------------------------------------------------------------------
(* Acknowledgements on their way. *)

LEMMA BehindOrdered ==
  ASSUME NEW a \in Seq(Msg \X Nat), NEW m, NEW lo \in Nat, NEW hi \in Nat, Behind(a, m, lo, hi)
  PROVE  lo <= hi
<1>1. PICK r : Stamps(r, a, m, lo, hi)
  BY DEF Behind
<1>2. 0 \in 0 .. Len(a) /\ Len(a) \in 0 .. Len(a) /\ 0 <= Len(a)
  OBVIOUS
<1>3. r[0] <= r[Len(a)] /\ r[0] \in Nat /\ r[Len(a)] \in Nat /\ lo <= r[0] /\ r[Len(a)] <= hi
  BY <1>1, <1>2 DEF Stamps
<1> QED BY <1>3

LEMMA BehindWeaker ==
  ASSUME NEW a \in Seq(Msg \X Nat), NEW m, NEW lo \in Nat, NEW hi \in Nat, Behind(a, m, lo, hi),
         NEW lo2 \in Nat, lo2 <= lo, NEW hi2 \in Nat, hi <= hi2
  PROVE  Behind(a, m, lo2, hi2)
<1>1. PICK r : Stamps(r, a, m, lo, hi)
  BY DEF Behind
<1>2. 0 \in 0 .. Len(a) /\ Len(a) \in 0 .. Len(a)
  OBVIOUS
<1>3. r[0] \in Nat /\ r[Len(a)] \in Nat /\ lo <= r[0] /\ r[Len(a)] <= hi
  BY <1>1, <1>2 DEF Stamps
<1>4. Stamps(r, a, m, lo2, hi2)
  BY <1>1, <1>3 DEF Stamps
<1> QED BY <1>4 DEF Behind

LEMMA BehindNone ==
  ASSUME NEW m, NEW lo \in Nat, NEW hi \in Nat, lo <= hi
  PROVE  Behind(<<>>, m, lo, hi)
<1> DEFINE r == [i \in 0 .. 0 |-> lo]
<1>1. Len(<<>>) = 0 /\ r \in [0 .. 0 -> Nat] /\ r[0] = lo
  OBVIOUS
<1>2. \A i \in 0 .. 0 : i = 0
  OBVIOUS
<1>3. \A i \in 1 .. 0 : FALSE
  OBVIOUS
<1> HIDE DEF r
<1>4. Stamps(r, <<>>, m, lo, hi)
  BY <1>1, <1>2, <1>3 DEF Stamps
<1> QED BY <1>4 DEF Behind

\* The first acknowledgement is taken; if it is of the slice after those the
\* sender knows of, the receiver has that slice.
LEMMA BehindTaken ==
  ASSUME NEW a \in Seq(Msg \X Nat), a # <<>>, NEW m \in Msg, NEW lo \in Nat, NEW hi \in Nat,
         Behind(a, m, lo, hi)
  PROVE  /\ Behind(Tail(a), m, lo, hi)
         /\ \A d, k \in Nat : Head(a) = <<m, k>> /\ Upto(m, d, k) = lo + 1
              => Behind(Tail(a), m, lo + 1, hi)
<1> DEFINE c == Tail(a)
           n == Len(c)
<1>1. PICK r : Stamps(r, a, m, lo, hi)
  BY DEF Behind
<1>2. /\ n \in Nat /\ Len(a) = n + 1 /\ a[1] = Head(a) /\ c \in Seq(Msg \X Nat)
      /\ \A i \in 1 .. n : c[i] = a[i + 1]
  <2>1. ASSUME NEW S, NEW q \in Seq(S), q # <<>>
        PROVE  /\ Len(Tail(q)) \in Nat /\ Len(q) = Len(Tail(q)) + 1 /\ q[1] = Head(q)
               /\ Tail(q) \in Seq(S)
               /\ \A i \in 1 .. Len(Tail(q)) : Tail(q)[i] = q[i + 1]
    BY <2>1
  <2> QED BY <2>1
<1> DEFINE t == [i \in 0 .. n |-> r[i + 1]]
<1> HIDE DEF c, n
<1>3. \A i \in 0 .. n : i + 1 \in 0 .. Len(a) /\ i + 1 \in 1 .. Len(a) /\ i + 1 - 1 = i
  BY <1>2
<1>4. /\ r \in [0 .. Len(a) -> Nat] /\ lo <= r[0] /\ r[Len(a)] <= hi
      /\ \A i, j \in 0 .. Len(a) : i <= j => r[i] <= r[j]
      /\ \A i \in 1 .. Len(a) : a[i][1] = m =>
           \A d \in Nat : Upto(m, d, a[i][2]) <= r[i - 1] + 1 => Upto(m, d, a[i][2]) <= r[i]
  BY <1>1 DEF Stamps
<1>5. /\ t \in [0 .. n -> Nat] /\ t[n] = r[Len(a)] /\ t[0] = r[1] /\ r[0] <= r[1]
      /\ r[0] \in Nat /\ r[1] \in Nat
      /\ \A i \in 0 .. n : t[i] = r[i + 1]
  <2>1. \A i \in 0 .. n : r[i + 1] \in Nat
    BY <1>3, <1>4
  <2>2. 0 \in 0 .. n /\ n \in 0 .. n /\ 0 \in 0 .. Len(a) /\ 1 \in 0 .. Len(a)
    BY <1>2
  <2> QED BY <1>2, <1>4, <2>1, <2>2
<1> HIDE DEF t
<1>6. \A i, j \in 0 .. n : i <= j => t[i] <= t[j]
  BY <1>2, <1>3, <1>4, <1>5
<1>7. \A i \in 1 .. n : c[i][1] = m =>
        \A d \in Nat : Upto(m, d, c[i][2]) <= t[i - 1] + 1 => Upto(m, d, c[i][2]) <= t[i]
  <2>1. SUFFICES ASSUME NEW i \in 1 .. n, c[i][1] = m, NEW d \in Nat,
                        Upto(m, d, c[i][2]) <= t[i - 1] + 1
                 PROVE  Upto(m, d, c[i][2]) <= t[i]
    OBVIOUS
  <2>2. /\ c[i] = a[i + 1] /\ i - 1 \in 0 .. n /\ i \in 0 .. n /\ (i - 1) + 1 = i /\ (i + 1) - 1 = i
        /\ i + 1 \in 1 .. Len(a)
    BY <1>2, <1>3
  <2>3. t[i - 1] = r[i] /\ t[i] = r[i + 1]
    BY <1>5, <2>2
  <2> QED BY <1>4, <2>1, <2>2, <2>3
<1>8. ASSUME NEW l \in Nat, l <= r[1] PROVE Behind(c, m, l, hi)
  <2>1. Stamps(t, c, m, l, hi)
    BY <1>4, <1>5, <1>6, <1>7, <1>8 DEF Stamps, n
  <2> QED BY <2>1 DEF Behind
<1>9. Behind(c, m, lo, hi)
  <2>1. lo <= r[1]
    BY <1>4, <1>5
  <2> QED BY <1>8, <2>1
<1>10. ASSUME NEW d \in Nat, NEW k \in Nat, Head(a) = <<m, k>>, Upto(m, d, k) = lo + 1
       PROVE  Behind(c, m, lo + 1, hi)
  <2>1. a[1][1] = m /\ a[1][2] = k /\ 1 \in 1 .. Len(a) /\ 1 - 1 = 0
    BY <1>2, <1>10
  <2>2. Upto(m, d, k) <= r[0] + 1
    BY <1>4, <1>5, <1>10
  <2>3. Upto(m, d, k) <= r[1]
    BY <1>4, <2>1, <2>2
  <2> QED BY <1>8, <1>10, <2>3
<1> QED BY <1>9, <1>10 DEF c

\* The receiver goes from hi to hi2 and sends an acknowledgement.
LEMMA BehindSent ==
  ASSUME NEW a \in Seq(Msg \X Nat), NEW m \in Msg, NEW lo \in Nat, NEW hi \in Nat,
         Behind(a, m, lo, hi), NEW hi2 \in Nat, hi <= hi2, NEW e \in Msg \X Nat,
         e[1] = m => \A d \in Nat : Upto(m, d, e[2]) <= hi + 1 => Upto(m, d, e[2]) <= hi2
  PROVE  Behind(Append(a, e), m, lo, hi2)
<1> DEFINE c == Append(a, e)
           n == Len(a)
<1>1. PICK r : Stamps(r, a, m, lo, hi)
  BY DEF Behind
<1>2. /\ n \in Nat /\ Len(c) = n + 1 /\ c[n + 1] = e /\ \A i \in 1 .. n : c[i] = a[i]
  <2>1. ASSUME NEW S, NEW q \in Seq(S), NEW x \in S
        PROVE  /\ Len(q) \in Nat /\ Len(Append(q, x)) = Len(q) + 1 /\ Append(q, x)[Len(q) + 1] = x
               /\ \A i \in 1 .. Len(q) : Append(q, x)[i] = q[i]
    BY <2>1
  <2> QED BY <2>1
<1>3. /\ r \in [0 .. n -> Nat] /\ lo <= r[0] /\ r[n] <= hi
      /\ \A i, j \in 0 .. n : i <= j => r[i] <= r[j]
      /\ \A i \in 1 .. n : a[i][1] = m =>
           \A d \in Nat : Upto(m, d, a[i][2]) <= r[i - 1] + 1 => Upto(m, d, a[i][2]) <= r[i]
  BY <1>1 DEF Stamps
<1> DEFINE t == [i \in 0 .. n + 1 |-> IF i = n + 1 THEN hi2 ELSE r[i]]
<1> HIDE DEF c, n
<1>4. /\ \A i \in 0 .. n + 1 : i = n + 1 \/ (i \in 0 .. n /\ i # n + 1)
      /\ \A i \in 1 .. n + 1 : i = n + 1 \/ (i \in 1 .. n /\ i \in 0 .. n /\ i - 1 \in 0 .. n)
      /\ \A i \in 0 .. n : i \in 0 .. n + 1 /\ i # n + 1 /\ i <= n
      /\ n + 1 \in 0 .. n + 1 /\ 0 \in 0 .. n /\ n \in 0 .. n /\ (n + 1) - 1 = n
  BY <1>2
<1>5. /\ t \in [0 .. n + 1 -> Nat] /\ t[n + 1] = hi2 /\ \A i \in 0 .. n : t[i] = r[i]
  BY <1>3, <1>4
<1> HIDE DEF t
<1>6. \A i \in 0 .. n : r[i] \in Nat /\ r[i] <= hi2
  <2>1. \A i \in 0 .. n : r[i] <= r[n] /\ r[i] \in Nat
    BY <1>3, <1>4
  <2>2. r[n] \in Nat
    BY <1>4, <2>1
  <2> QED BY <1>3, <2>1, <2>2
<1>7. ASSUME NEW i \in 0 .. n + 1, NEW j \in 0 .. n + 1, i <= j
      PROVE  t[i] <= t[j]
  <2>1. CASE j = n + 1
    <3>1. t[i] <= hi2
      <4>1. hi2 <= hi2
        OBVIOUS
      <4>2. i \in 0 .. n => t[i] = r[i] /\ r[i] <= hi2
        BY <1>5, <1>6
      <4> QED BY <1>4, <1>5, <4>1, <4>2
    <3> QED BY <1>5, <2>1, <3>1
  <2>2. CASE j \in 0 .. n
    <3>1. i \in 0 .. n
      BY <1>2, <1>7, <2>2
    <3> QED BY <1>3, <1>5, <1>7, <2>2, <3>1
  <2> QED BY <1>4, <2>1, <2>2
<1>8. ASSUME NEW i \in 1 .. n + 1, c[i][1] = m, NEW d \in Nat,
             Upto(m, d, c[i][2]) <= t[i - 1] + 1
      PROVE  Upto(m, d, c[i][2]) <= t[i]
  <2>1. CASE i = n + 1
    <3>1. c[i] = e /\ t[i - 1] = r[n] /\ t[i] = hi2 /\ r[n] <= hi /\ r[n] \in Nat
      BY <1>2, <1>3, <1>4, <1>5, <1>6, <2>1
    <3>2. e[2] \in Nat
      OBVIOUS
    <3>3. Upto(m, d, e[2]) \in Nat
      BY <3>2, UptoFacts
    <3>4. Upto(m, d, e[2]) <= hi + 1
      BY <1>8, <3>1, <3>3
    <3> QED BY <1>8, <3>1, <3>4
  <2>2. CASE i \in 1 .. n
    <3>1. c[i] = a[i] /\ t[i - 1] = r[i - 1] /\ t[i] = r[i]
      BY <1>2, <1>4, <1>5, <2>2
    <3> QED BY <1>3, <1>8, <2>2, <3>1
  <2> QED BY <1>4, <2>1, <2>2
<1>9. lo <= t[0]
  BY <1>3, <1>4, <1>5
<1>10. Stamps(t, c, m, lo, hi2)
  BY <1>2, <1>5, <1>7, <1>8, <1>9 DEF Stamps
<1> QED BY <1>10 DEF Behind, c

-----------------------------------------------------------------------------
(* The steps keep it. *)

LEMMA Counted ==
  ASSUME NEW n \in Nat, NEW S, S \subseteq 1 .. n
  PROVE  /\ Cardinality(S) \in Nat
         /\ \A x : x \notin S => Cardinality(S \cup {x}) = Cardinality(S) + 1
<1>1. IsFiniteSet(1 .. n)
  BY FS_Interval
<1>2. IsFiniteSet(S)
  BY <1>1, FS_Subset
<1>3. Cardinality(S) \in Nat
  BY <1>2, FS_CardinalityType
<1>4. ASSUME NEW x, x \notin S PROVE Cardinality(S \cup {x}) = Cardinality(S) + 1
  BY <1>2, <1>4, FS_AddElement
<1> QED BY <1>3, <1>4

\* What is known of message m before a step.
LEMMA AckFacts ==
  ASSUME IInv, BInv, AInv, NEW m \in Msg
  PROVE  LET s == From[m] IN
         /\ s \in Sender /\ toSender[s] \in Seq(Msg \X Nat)
         /\ sent[s] \in Seq(Msg) /\ got[s] \in Seq(Nat) /\ Len(sent[s]) \in Nat /\ Len(got[s]) \in Nat
         /\ done[s] \subseteq 1 .. Len(sent[s])
         /\ \A i \in 1 .. Len(got[s]) : got[s][i] \in Nat /\ got[s][i] <= Len(sent[s])
         /\ Acked(m) \subseteq 1 .. Len(sent[s]) /\ Cardinality(Acked(m)) \in Nat
         /\ Arrived(m) \subseteq 1 .. Len(got[s]) /\ Cardinality(Arrived(m)) \in Nat
         /\ stored[m] \in Nat /\ stored[m] < Slices[m] /\ Slices[m] \in Nat
         /\ at[s] # "idle" /\ Current(s) = m => sid[s] \in 1 .. Slices[m] /\ sid[s] - 1 \in Nat
         /\ SenderAt(m) \in Nat /\ ReceiverAt(m) \in Nat
         /\ m \notin cut => Behind(toSender[s], m, SenderAt(m), ReceiverAt(m))
<1> DEFINE s == From[m]
<1>1. /\ s \in Sender /\ toSender[s] \in Seq(Msg \X Nat) /\ sent[s] \in Seq(Msg)
      /\ stored[m] \in Nat /\ stored[m] < Slices[m] /\ Slices[m] \in Nat
      /\ at[s] # "idle" => sid[s] \in 1 .. Slices[Current(s)]
  BY BufferFacts
<1>2. got[s] \in Seq(Nat)
  BY <1>1 DEF IInv, Types
<1>3. Len(sent[s]) \in Nat /\ Len(got[s]) \in Nat
  BY <1>1, <1>2
<1>4. \A i \in 1 .. Len(got[s]) : got[s][i] \in Nat
  BY <1>2
<1>5. /\ done[s] \subseteq 1 .. Len(sent[s])
      /\ \A i \in 1 .. Len(got[s]) : got[s][i] <= Len(sent[s])
  BY <1>1 DEF AInv, AckTypes
<1>6. Acked(m) \subseteq 1 .. Len(sent[s]) /\ Arrived(m) \subseteq 1 .. Len(got[s])
  BY <1>5 DEF Acked, Arrived
<1>7. Cardinality(Acked(m)) \in Nat /\ Cardinality(Arrived(m)) \in Nat
  BY <1>3, <1>6, Counted
<1>8. at[s] # "idle" /\ Current(s) = m => sid[s] \in 1 .. Slices[m] /\ sid[s] - 1 \in Nat
  BY <1>1
<1>9. SenderAt(m) \in Nat /\ ReceiverAt(m) \in Nat
  <2>1. (IF at[s] # "idle" /\ Current(s) = m THEN sid[s] - 1 ELSE 0) \in Nat
    BY <1>8
  <2> QED BY <1>1, <1>7, <2>1, UptoFacts DEF SenderAt, ReceiverAt
<1>10. m \notin cut => Behind(toSender[s], m, SenderAt(m), ReceiverAt(m))
  BY DEF AInv
<1> QED BY <1>1, <1>2, <1>3, <1>4, <1>5, <1>6, <1>7, <1>8, <1>9, <1>10

\* Nothing has changed for message m.
LEMMA SameSender ==
  ASSUME NEW m \in Msg, NEW s, s = From[m],
         (at'[s] # "idle") <=> (at[s] # "idle"), sent'[s] = sent[s], sid'[s] = sid[s],
         done'[s] = done[s]
  PROVE  Acked(m)' = Acked(m) /\ SenderAt(m)' = SenderAt(m)
<1>1. Acked(m)' = Acked(m)
  BY DEF Acked
<1> QED BY <1>1 DEF SenderAt, Current, Number

LEMMA SameReceiver ==
  ASSUME NEW m \in Msg, NEW s, s = From[m],
         sent'[s] = sent[s], got'[s] = got[s], stored'[m] = stored[m]
  PROVE  ReceiverAt(m)' = ReceiverAt(m)
<1>1. Arrived(m)' = Arrived(m)
  BY DEF Arrived
<1> QED BY <1>1 DEF ReceiverAt

LEMMA BeginAcks ==
  ASSUME IInv, BInv, AInv, NEW t \in Sender, NEW x \in Msg, Begin(t, x)
  PROVE  AInv'
<1>1. /\ stored' = stored /\ toSender' = toSender /\ cut' = cut /\ got' = got /\ done' = done
      /\ at[t] = "idle" /\ at' = [at EXCEPT ![t] = "send"] /\ sid' = [sid EXCEPT ![t] = 1]
      /\ sent' = [sent EXCEPT ![t] = Append(@, x)]
      /\ at \in [Sender -> {"idle", "send", "wait"}] /\ sid \in [Sender -> Nat]
      /\ sent \in [Sender -> Seq(Msg)]
  BY DEF Begin, netVars, reformerVars, IInv, Types
<1>2. /\ at'[t] = "send" /\ sid'[t] = 1 /\ Len(sent[t]) \in Nat /\ Len(sent'[t]) = Len(sent[t]) + 1
      /\ \A n \in 1 .. Len(sent[t]) : sent'[t][n] = sent[t][n]
  BY <1>1
<1>3. \A s \in Sender : s # t => at'[s] = at[s] /\ sid'[s] = sid[s] /\ sent'[s] = sent[s]
  BY <1>1
<1>4. AckTypes'
  <2>1. done' \in [Sender -> SUBSET Nat]
    BY <1>1 DEF AInv, AckTypes
  <2>2. ASSUME NEW s \in Sender
        PROVE  /\ done'[s] \subseteq 1 .. Len(sent'[s])
               /\ at'[s] # "idle" => Number(s)' \notin done'[s]
               /\ \A i \in 1 .. Len(got'[s]) : got'[s][i] <= Len(sent'[s])
    <3>1. /\ done[s] \subseteq 1 .. Len(sent[s])
          /\ at[s] # "idle" => Number(s) \notin done[s]
          /\ \A i \in 1 .. Len(got[s]) : got[s][i] <= Len(sent[s])
      BY DEF AInv, AckTypes
    <3>2. CASE s # t
      BY <1>1, <1>3, <3>1, <3>2 DEF Number
    <3>3. CASE s = t
      <4>1. \A i \in 1 .. Len(got[s]) : got[s][i] \in Nat
        BY DEF IInv, Types
      <4>2. Len(sent[s]) + 1 \notin 1 .. Len(sent[s])
            /\ 1 .. Len(sent[s]) \subseteq 1 .. Len(sent[s]) + 1
        BY <1>2, <3>3
      <4>3. Number(s)' = Len(sent[s]) + 1
        BY <1>2, <3>3 DEF Number
      <4> QED BY <1>1, <1>2, <3>1, <3>3, <4>1, <4>2, <4>3
    <3> QED BY <3>2, <3>3
  <2> QED BY <2>1, <2>2 DEF AckTypes
<1>5. ASSUME NEW m \in Msg \ cut'
      PROVE  Behind(toSender[From[m]], m, SenderAt(m), ReceiverAt(m))'
  <2> DEFINE s == From[m]
  <2>1. /\ s \in Sender /\ done[s] \subseteq 1 .. Len(sent[s])
        /\ \A i \in 1 .. Len(got[s]) : got[s][i] \in Nat /\ got[s][i] <= Len(sent[s])
        /\ Behind(toSender[s], m, SenderAt(m), ReceiverAt(m))
    BY <1>1, <1>5, AckFacts
  <2>2. SenderAt(m)' = SenderAt(m) /\ ReceiverAt(m)' = ReceiverAt(m)
    <3>1. CASE s # t
      BY <1>1, <1>3, <2>1, <3>1, SameSender, SameReceiver
    <3>2. CASE s = t
      <4>1. Acked(m)' = Acked(m)
        BY <1>1, <1>2, <2>1, <3>2 DEF Acked
      <4>2. Arrived(m)' = Arrived(m)
        <5>1. \A i \in 1 .. Len(got[s]) : got[s][i] > 0 => sent'[s][got[s][i]] = sent[s][got[s][i]]
          BY <1>2, <2>1, <3>2
        <5> QED BY <1>1, <5>1 DEF Arrived
      <4>3. sid'[s] - 1 = 0 /\ at[s] = "idle"
        BY <1>1, <1>2, <3>2
      <4> QED BY <1>1, <4>1, <4>2, <4>3 DEF SenderAt, ReceiverAt
    <3> QED BY <3>1, <3>2
  <2> QED BY <1>1, <2>1, <2>2
<1> QED BY <1>4, <1>5 DEF AInv

\* The sender sends, or gives up what it has not got acknowledged.
LEMMA SendAcks ==
  ASSUME IInv, BInv, AInv, NEW t \in Sender, SendSlice(t) \/ Timeout(t)
  PROVE  AInv'
<1>1. /\ stored' = stored /\ toSender' = toSender /\ cut' = cut /\ got' = got /\ done' = done
      /\ sent' = sent /\ sid' = sid
      /\ at[t] # "idle" /\ \E w \in {"idle", "send", "wait"} : at' = [at EXCEPT ![t] = w]
      /\ at \in [Sender -> {"idle", "send", "wait"}]
  BY DEF SendSlice, Timeout, netVars, reformerVars, IInv, Types
<1>2. \A s \in Sender : at'[s] = at[s] \/ (s = t /\ at[s] # "idle")
  BY <1>1
<1>3. AckTypes'
  <2>1. \A s \in Sender : at'[s] # "idle" => Number(s)' \notin done'[s]
    BY <1>1, <1>2 DEF AInv, AckTypes, Number
  <2> QED BY <1>1, <2>1 DEF AInv, AckTypes
<1>4. ASSUME NEW m \in Msg \ cut'
      PROVE  Behind(toSender[From[m]], m, SenderAt(m), ReceiverAt(m))'
  <2> DEFINE s == From[m]
  <2>1. /\ s \in Sender /\ toSender[s] \in Seq(Msg \X Nat)
        /\ Cardinality(Acked(m)) \in Nat
        /\ at[s] # "idle" /\ Current(s) = m => sid[s] - 1 \in Nat
        /\ SenderAt(m) \in Nat /\ ReceiverAt(m) \in Nat
        /\ Behind(toSender[s], m, SenderAt(m), ReceiverAt(m))
    BY <1>1, <1>4, AckFacts
  <2>2. ReceiverAt(m)' = ReceiverAt(m) /\ ReceiverAt(m) <= ReceiverAt(m)
    BY <1>1, <2>1, SameReceiver
  <2>3. SenderAt(m)' \in Nat /\ SenderAt(m)' <= SenderAt(m)
    <3>1. CASE (at'[s] # "idle") <=> (at[s] # "idle")
      BY <1>1, <2>1, <3>1, SameSender
    <3>2. CASE at[s] # "idle" /\ at'[s] = "idle"
      <4>1. Acked(m)' = Acked(m)
        BY <1>1 DEF Acked
      <4>2. SenderAt(m)' = Upto(m, Cardinality(Acked(m)), 0)
        BY <3>2, <4>1 DEF SenderAt
      <4>3. Current(s) = m => SenderAt(m) = Upto(m, Cardinality(Acked(m)), sid[s] - 1)
        BY <3>2 DEF SenderAt
      <4>4. Current(s) # m => SenderAt(m) = Upto(m, Cardinality(Acked(m)), 0)
        BY DEF SenderAt
      <4>5. \A k \in Nat : Upto(m, Cardinality(Acked(m)), 0) <= Upto(m, Cardinality(Acked(m)), k)
                           /\ Upto(m, Cardinality(Acked(m)), k) \in Nat
        BY <2>1, UptoFacts
      <4>6. Current(s) = m => SenderAt(m)' \in Nat /\ SenderAt(m)' <= SenderAt(m)
        BY <2>1, <3>2, <4>2, <4>3, <4>5
      <4>7. Current(s) # m => SenderAt(m)' = SenderAt(m)
        BY <4>2, <4>4
      <4> QED BY <2>1, <4>6, <4>7
    <3> QED BY <1>1, <1>2, <2>1, <3>1, <3>2
  <2>4. Behind(toSender[s], m, SenderAt(m)', ReceiverAt(m)')
    BY <2>1, <2>2, <2>3, BehindWeaker
  <2> QED BY <1>1, <2>4
<1> QED BY <1>3, <1>4 DEF AInv

\* An acknowledgement is taken: the sender goes at most one slice on, to where
\* the receiver has been.
LEMMA RecvAckAcks ==
  ASSUME IInv, BInv, AInv, NEW t \in Sender, RecvAck(t)
  PROVE  AInv'
<1> DEFINE e == Head(toSender[t])
<1>1. /\ stored' = stored /\ cut' = cut /\ got' = got /\ sent' = sent
      /\ at[t] = "wait" /\ toSender[t] # <<>> /\ toSender' = [toSender EXCEPT ![t] = Tail(@)]
      /\ \/ ~Matches(t, e) /\ at' = at /\ sid' = sid /\ done' = done
         \/ /\ Matches(t, e) /\ IsLast(t) /\ sid' = sid
            /\ at' = [at EXCEPT ![t] = "idle"]
            /\ done' = [done EXCEPT ![t] = @ \cup {Number(t)}]
         \/ /\ Matches(t, e) /\ ~IsLast(t) /\ done' = done
            /\ at' = [at EXCEPT ![t] = "send"] /\ sid' = [sid EXCEPT ![t] = @ + 1]
      /\ at \in [Sender -> {"idle", "send", "wait"}] /\ sid \in [Sender -> Nat]
      /\ toSender \in [Sender -> Seq(Msg \X Nat)] /\ sent \in [Sender -> Seq(Msg)]
      /\ done \in [Sender -> SUBSET Nat]
  BY DEF RecvAck, reformerVars, senderVars, IInv, Types, BInv, AInv, AckTypes
<1> HIDE DEF e
<1>2. \A s \in Sender : s # t =>
        at'[s] = at[s] /\ sid'[s] = sid[s] /\ done'[s] = done[s] /\ toSender'[s] = toSender[s]
  BY <1>1
<1>3. toSender'[t] = Tail(toSender[t])
  BY <1>1
<1>4. /\ Number(t) \in 1 .. Len(sent[t]) /\ Number(t) \notin done[t] /\ done[t] \subseteq Nat
      /\ Number(t)' = Number(t) /\ Current(t)' = Current(t)
  <2>1. SenderInv(t) /\ sent[t] \in Seq(Msg)
    BY DEF IInv, Types
  <2>2. Len(sent[t]) > 0 /\ Len(sent[t]) \in Nat
    BY <1>1, <2>1 DEF SenderInv, Consistent
  <2>3. Number(t) \notin done[t]
    BY <1>1 DEF AInv, AckTypes
  <2> QED BY <1>1, <2>2, <2>3 DEF Number, Current
<1>5. AckTypes'
  <2>1. done' \in [Sender -> SUBSET Nat]
    <3>1. done[t] \cup {Number(t)} \in SUBSET Nat
      BY <1>4
    <3> QED BY <1>1, <3>1
  <2>2. ASSUME NEW s \in Sender
        PROVE  /\ done'[s] \subseteq 1 .. Len(sent[s])
               /\ at'[s] # "idle" => Number(s)' \notin done'[s]
               /\ \A i \in 1 .. Len(got[s]) : got[s][i] <= Len(sent[s])
    <3>1. /\ done[s] \subseteq 1 .. Len(sent[s])
          /\ at[s] # "idle" => Number(s) \notin done[s]
          /\ \A i \in 1 .. Len(got[s]) : got[s][i] <= Len(sent[s])
      BY DEF AInv, AckTypes
    <3>2. CASE s # t
      BY <1>1, <1>2, <3>1, <3>2 DEF Number
    <3>3. CASE s = t
      <4>1. \/ done'[t] = done[t]
            \/ done'[t] = done[t] \cup {Number(t)} /\ at'[t] = "idle"
        BY <1>1
      <4> QED BY <1>1, <1>4, <3>1, <3>3, <4>1
    <3> QED BY <3>2, <3>3
  <2> QED BY <1>1, <2>1, <2>2 DEF AckTypes
<1>6. ASSUME NEW m \in Msg \ cut'
      PROVE  Behind(toSender[From[m]], m, SenderAt(m), ReceiverAt(m))'
  <2> DEFINE s == From[m]
             D == Cardinality(Acked(m))
  <2>1. /\ s \in Sender /\ toSender[s] \in Seq(Msg \X Nat)
        /\ Acked(m) \subseteq 1 .. Len(sent[s]) /\ D \in Nat /\ Len(sent[s]) \in Nat
        /\ at[s] # "idle" /\ Current(s) = m => sid[s] \in 1 .. Slices[m] /\ sid[s] - 1 \in Nat
        /\ SenderAt(m) \in Nat /\ ReceiverAt(m) \in Nat
        /\ Behind(toSender[s], m, SenderAt(m), ReceiverAt(m))
    BY <1>1, <1>6, AckFacts
  <2>2. ReceiverAt(m)' = ReceiverAt(m)
    BY <1>1, <2>1, SameReceiver
  <2>3. CASE s # t
    <3>1. SenderAt(m)' = SenderAt(m)
      <4>1. /\ at'[s] = at[s] /\ sid'[s] = sid[s] /\ done'[s] = done[s] /\ sent'[s] = sent[s]
            /\ m \in Msg
        BY <1>1, <1>2, <2>1, <2>3
      <4> QED BY <4>1, SameSender
    <3>2. toSender'[s] = toSender[s]
      BY <1>2, <2>1, <2>3
    <3> QED BY <1>1, <2>1, <2>2, <3>1, <3>2
  <2>4. ASSUME s = t, ~(Matches(t, e) /\ Current(t) = m)
        PROVE  SenderAt(m)' = SenderAt(m)
    <3>1. Acked(m)' = Acked(m)
      <4>1. \/ done'[s] = done[s]
            \/ done'[s] = done[s] \cup {Number(s)} /\ sent[s][Number(s)] # m
        BY <1>1, <2>4 DEF Current
      <4> QED BY <1>1, <2>1, <4>1 DEF Acked
    <3>2. CASE Current(t) = m
      BY <1>1, <1>4, <2>4, <3>1, <3>2 DEF SenderAt
    <3>3. CASE Current(t) # m
      BY <1>1, <1>4, <2>4, <3>1, <3>3 DEF SenderAt
    <3> QED BY <3>2, <3>3
  <2>5. ASSUME s = t, Matches(t, e), Current(t) = m
        PROVE  /\ SenderAt(m)' = SenderAt(m) + 1
               /\ \E d, k \in Nat : e = <<m, k>> /\ Upto(m, d, k) = SenderAt(m) + 1
    <3>1. /\ e = <<m, sid[s]>> /\ sid[s] - 1 \in Nat /\ sid[s] \in Nat /\ (sid[s] - 1) + 1 = sid[s]
          /\ SenderAt(m) = Upto(m, D, sid[s] - 1)
      BY <1>1, <2>1, <2>5 DEF Matches, SenderAt
    <3> HIDE DEF D
    <3>2. Upto(m, D, sid[s]) = SenderAt(m) + 1
      <4>1. \A k \in Nat : Upto(m, D, k + 1) = Upto(m, D, k) + 1
        BY <2>1, UptoFacts
      <4>2. Upto(m, D, (sid[s] - 1) + 1) = Upto(m, D, sid[s] - 1) + 1
        BY <3>1, <4>1
      <4> QED BY <3>1, <4>2
    <3>3. CASE IsLast(t)
      <4>1. done'[s] = done[s] \cup {Number(s)} /\ at'[s] = "idle" /\ sid[s] = Slices[m]
        BY <1>1, <2>5, <3>3 DEF IsLast
      <4>2. Acked(m)' = Acked(m) \cup {Number(s)} /\ Number(s) \notin Acked(m)
        BY <1>1, <1>4, <2>1, <2>5, <4>1 DEF Acked, Current
      <4>3. Cardinality(Acked(m)') = D + 1
        BY <2>1, <4>2, Counted DEF D
      <4>4. SenderAt(m)' = Upto(m, D + 1, 0)
        BY <4>1, <4>3 DEF SenderAt
      <4>5. Upto(m, D, Slices[m]) = Upto(m, D + 1, 0)
        BY <2>1, <3>1, UptoFacts
      <4> QED BY <3>1, <3>2, <4>1, <4>4, <4>5, <2>1
    <3>4. CASE ~IsLast(t)
      <4>1. done'[s] = done[s] /\ at'[s] = "send" /\ sid'[s] = sid[s] + 1
        BY <1>1, <2>5, <3>4
      <4>2. Acked(m)' = Acked(m)
        BY <1>1, <4>1 DEF Acked
      <4>3. SenderAt(m)' = Upto(m, D, (sid[s] + 1) - 1) /\ (sid[s] + 1) - 1 = sid[s]
        BY <1>4, <2>5, <3>1, <4>1, <4>2 DEF SenderAt, D
      <4> QED BY <2>1, <3>1, <3>2, <4>3
    <3> QED BY <3>3, <3>4
  <2>6. ASSUME s = t
        PROVE  Behind(Tail(toSender[s]), m, SenderAt(m)', ReceiverAt(m))
    <3>1. toSender[s] # <<>> /\ e = Head(toSender[s])
      BY <1>1, <2>6 DEF e
    <3>2. CASE Matches(t, e) /\ Current(t) = m
      <4>1. PICK d \in Nat, k \in Nat : e = <<m, k>> /\ Upto(m, d, k) = SenderAt(m) + 1
        BY <2>5, <2>6, <3>2
      <4>2. Behind(Tail(toSender[s]), m, SenderAt(m) + 1, ReceiverAt(m))
        BY <2>1, <3>1, <4>1, BehindTaken
      <4> QED BY <2>5, <2>6, <3>2, <4>2
    <3>3. CASE ~(Matches(t, e) /\ Current(t) = m)
      BY <2>1, <2>4, <2>6, <3>1, <3>3, BehindTaken
    <3> QED BY <3>2, <3>3
  <2>7. ASSUME s = t PROVE toSender'[s] = Tail(toSender[s])
    BY <1>3, <2>7
  <2> QED BY <1>1, <2>2, <2>3, <2>6, <2>7
<1> QED BY <1>5, <1>6 DEF AInv

\* The checker empties the buffer of a message it cuts off.
LEMMA CheckAcks ==
  ASSUME IInv, BInv, AInv, NEW x \in Msg, Check(x)
  PROVE  AInv'
<1>1. /\ UNCHANGED <<at, sid, sent, got, done, toSender>> /\ cut' = cut \cup {x}
      /\ \A m \in Msg : m # x => stored'[m] = stored[m]
  BY DEF Check, RemoveSlice, senderVars, netVars, IInv, Types
<1>2. AckTypes'
  BY <1>1 DEF AInv, AckTypes, Number
<1>3. ASSUME NEW m \in Msg \ cut'
      PROVE  Behind(toSender[From[m]], m, SenderAt(m), ReceiverAt(m))'
  <2>1. m \in Msg \ cut /\ m # x
    BY <1>1, <1>3
  <2>2. Behind(toSender[From[m]], m, SenderAt(m), ReceiverAt(m))
    BY <2>1 DEF AInv
  <2>3. SenderAt(m)' = SenderAt(m) /\ ReceiverAt(m)' = ReceiverAt(m)
    BY <1>1, <2>1, SameSender, SameReceiver
  <2> QED BY <1>1, <2>2, <2>3
<1> QED BY <1>2, <1>3 DEF AInv

\* Unless the message is cut off, a slice in order is taken, and one out of
\* order is not.
LEMMA TakenInOrder ==
  ASSUME IInv, NEW s \in Sender, Receive(s), NEW p, p = Head(toReceiver[s]), p.pid \notin cut'
  PROVE  \/ p.sid # stored[p.pid] + 1 /\ stored' = stored /\ got' = got
         \/ /\ p.sid = stored[p.pid] + 1 /\ p.sid # Slices[p.pid]
            /\ stored' = [stored EXCEPT ![p.pid] = p.sid] /\ got' = got
         \/ /\ p.sid = stored[p.pid] + 1 /\ p.sid = Slices[p.pid]
            /\ stored' = [stored EXCEPT ![p.pid] = 0]
            /\ got' = [got EXCEPT ![s] = Append(@, p.no)]
<1>1. From[p.pid] = s /\ PutSlice(p)
  BY ReceiveCases DEF Receive
<1>2. \/ p.sid # stored[p.pid] + 1 /\ stored' = stored /\ got' = got
      \/ p.sid = stored[p.pid] + 1 /\ Store(p)
  BY <1>1 DEF PutSlice, reformerVars
<1>3. ASSUME p.sid = stored[p.pid] + 1, Store(p), p.sid # Slices[p.pid]
      PROVE  stored' = [stored EXCEPT ![p.pid] = p.sid] /\ got' = got
  BY <1>3 DEF Store
<1>4. ASSUME p.sid = stored[p.pid] + 1, Store(p), p.sid = Slices[p.pid]
      PROVE  /\ stored' = [stored EXCEPT ![p.pid] = 0]
             /\ got' = [got EXCEPT ![s] = Append(@, p.no)]
  BY <1>1, <1>4 DEF Store, Reassemble, RemoveSlice
<1> QED BY <1>2, <1>3, <1>4

\* A slice of message m is taken: the receiver goes one slice on, or had a
\* later one before.
LEMMA ReceiverMoves ==
  ASSUME IInv, BInv, AInv, NEW s \in Sender, Receive(s), NEW m \in Msg \ cut',
         NEW p, p = Head(toReceiver[s]), p.pid = m
  PROVE  /\ ReceiverAt(m)' \in Nat /\ ReceiverAt(m) <= ReceiverAt(m)'
         /\ \A d \in Nat : Upto(m, d, p.sid) <= ReceiverAt(m) + 1
              => Upto(m, d, p.sid) <= ReceiverAt(m)'
<1> DEFINE G == Cardinality(Arrived(m))
           b == stored[m]
           g == got[s]
<1>1. /\ p \in Slice /\ From[m] = s /\ p.no \in 1 .. Len(sent[s]) /\ m = sent[s][p.no]
      /\ sent' = sent
  BY ReceiveCases
<1>2. p.sid \in 1 .. Slices[m] /\ p.sid \in Nat /\ p.no \in Nat
  <2>1. /\ Consistent(s, at[s], sent[s], sid[s], Channel!LastGot(s), toReceiver[s], stored)
        /\ sent[s] \in Seq(Msg) /\ toReceiver[s] # <<>>
    BY DEF IInv, Types, SenderInv, Receive
  <2>2. First(s, sent[s], sid[s], Channel!LastGot(s), toReceiver[s], stored)
    BY <2>1, FirstSlice
  <2> QED BY <1>1, <2>2 DEF First, Slice
<1>3. /\ g \in Seq(Nat) /\ Len(g) \in Nat /\ Arrived(m) \subseteq 1 .. Len(g)
      /\ G \in Nat /\ b \in Nat /\ b < Slices[m] /\ Slices[m] \in Nat
      /\ ReceiverAt(m) \in Nat /\ ReceiverAt(m) = Upto(m, G, b)
      /\ stored \in [Msg -> Nat] /\ got \in [Sender -> Seq(Nat)]
  BY <1>1, AckFacts DEF ReceiverAt, IInv, Types
<1>4. ASSUME p.sid # b + 1, stored' = stored, got' = got
      PROVE  /\ ReceiverAt(m)' = ReceiverAt(m)
             /\ \A d \in Nat : Upto(m, d, p.sid) # ReceiverAt(m) + 1
  <2>1. ReceiverAt(m)' = ReceiverAt(m)
    BY <1>1, <1>4, SameReceiver
  <2>2. \A d \in Nat : Upto(m, d, p.sid) # ReceiverAt(m) + 1
    BY <1>2, <1>3, <1>4, UptoOrder
  <2> QED BY <2>1, <2>2
<1>5. ASSUME p.sid = b + 1, p.sid # Slices[m], stored' = [stored EXCEPT ![m] = p.sid], got' = got
      PROVE  ReceiverAt(m)' = ReceiverAt(m) + 1
  <2>1. Arrived(m)' = Arrived(m) /\ stored'[m] = b + 1
    BY <1>1, <1>3, <1>5 DEF Arrived
  <2>2. ReceiverAt(m)' = Upto(m, G, b + 1)
    BY <2>1 DEF ReceiverAt
  <2> QED BY <1>3, <2>2, UptoFacts
<1>6. ASSUME p.sid = b + 1, p.sid = Slices[m], stored' = [stored EXCEPT ![m] = 0],
             got' = [got EXCEPT ![s] = Append(@, p.no)]
      PROVE  ReceiverAt(m)' = ReceiverAt(m) + 1
  <2>1. /\ got'[s] = Append(g, p.no) /\ stored'[m] = 0
        /\ Len(got'[s]) = Len(g) + 1 /\ got'[s][Len(g) + 1] = p.no
        /\ \A i \in 1 .. Len(g) : got'[s][i] = g[i]
    BY <1>2, <1>3, <1>6
  <2>2. 1 .. Len(g) + 1 = (1 .. Len(g)) \cup {Len(g) + 1} /\ Len(g) + 1 \notin 1 .. Len(g)
    BY <1>3
  <2>3. p.no > 0
    BY <1>1, <1>2
  <2>4. Arrived(m)' = Arrived(m) \cup {Len(g) + 1}
    BY <1>1, <2>1, <2>2, <2>3 DEF Arrived
  <2>5. Cardinality(Arrived(m)') = G + 1
    BY <1>3, <2>2, <2>4, Counted
  <2>6. ReceiverAt(m)' = Upto(m, G + 1, 0)
    BY <2>1, <2>5 DEF ReceiverAt
  <2>7. Upto(m, G + 1, 0) = Upto(m, G, Slices[m]) /\ Upto(m, G, b + 1) = Upto(m, G, b) + 1
    <3>1. G \in Nat /\ b \in Nat
      BY <1>3
    <3> HIDE DEF G, b
    <3> QED BY <3>1, UptoFacts
  <2> QED BY <1>3, <1>6, <2>6, <2>7
<1>7. \/ p.sid # b + 1 /\ stored' = stored /\ got' = got
      \/ p.sid = b + 1 /\ p.sid # Slices[m] /\ stored' = [stored EXCEPT ![m] = p.sid] /\ got' = got
      \/ /\ p.sid = b + 1 /\ p.sid = Slices[m] /\ stored' = [stored EXCEPT ![m] = 0]
         /\ got' = [got EXCEPT ![s] = Append(@, p.no)]
  BY TakenInOrder
<1>8. \A d \in Nat : Upto(m, d, p.sid) \in Nat
  BY <1>2, UptoFacts
<1>9. CASE ReceiverAt(m)' = ReceiverAt(m) + 1
  BY <1>3, <1>8, <1>9
<1>10. CASE /\ ReceiverAt(m)' = ReceiverAt(m)
            /\ \A d \in Nat : Upto(m, d, p.sid) # ReceiverAt(m) + 1
  <2>1. ReceiverAt(m)' \in Nat /\ ReceiverAt(m) <= ReceiverAt(m)'
    <3>1. ReceiverAt(m) <= ReceiverAt(m)
      BY <1>3
    <3> QED BY <1>3, <1>10, <3>1
  <2>2. ASSUME NEW d \in Nat, Upto(m, d, p.sid) <= ReceiverAt(m) + 1
        PROVE  Upto(m, d, p.sid) <= ReceiverAt(m)
    <3>1. ReceiverAt(m) \in Nat /\ Upto(m, d, p.sid) \in Nat /\ Upto(m, d, p.sid) # ReceiverAt(m) + 1
      BY <1>3, <1>8, <1>10
    <3> QED BY <2>2, <3>1
  <2> QED BY <1>10, <2>1, <2>2
<1>11. \/ ReceiverAt(m)' = ReceiverAt(m) + 1
       \/ /\ ReceiverAt(m)' = ReceiverAt(m)
          /\ \A d \in Nat : Upto(m, d, p.sid) # ReceiverAt(m) + 1
  BY <1>4, <1>5, <1>6, <1>7
<1> QED BY <1>9, <1>10, <1>11

\* A slice of another message leaves message m alone.
LEMMA ReceiverStays ==
  ASSUME IInv, BInv, AInv, NEW s \in Sender, Receive(s), NEW m \in Msg,
         Head(toReceiver[s]).pid # m
  PROVE  ReceiverAt(m)' = ReceiverAt(m)
<1> DEFINE p == Head(toReceiver[s])
           t == From[m]
           g == got[t]
<1>1. /\ p \in Slice /\ p.no \in 1 .. Len(sent[s]) /\ p.pid = sent[s][p.no] /\ From[p.pid] = s
      /\ sent' = sent /\ PutSlice(p)
      /\ got' = got \/ got' = [got EXCEPT ![s] = Append(@, p.no)]
  BY ReceiveCases DEF Receive
<1>2. stored'[m] = stored[m]
  BY <1>1, PutSliceBuffer
<1>3. p.pid # m
  OBVIOUS
<1> HIDE DEF p
<1>4. t \in Sender /\ g \in Seq(Nat) /\ Len(g) \in Nat /\ p.no \in Nat /\ got \in [Sender -> Seq(Nat)]
  BY <1>1, AckFacts DEF Slice, IInv, Types
<1>5. CASE got'[t] = got[t]
  BY <1>1, <1>2, <1>5, SameReceiver
<1>6. CASE got'[t] # got[t]
  <2>1. s = t /\ got'[t] = Append(g, p.no)
    BY <1>1, <1>4, <1>6
  <2>2. /\ Len(got'[t]) = Len(g) + 1 /\ got'[t][Len(g) + 1] = p.no
        /\ \A i \in 1 .. Len(g) : got'[t][i] = g[i]
    BY <1>4, <2>1
  <2>3. 1 .. Len(g) + 1 = (1 .. Len(g)) \cup {Len(g) + 1}
    BY <1>4
  <2>4. sent[t][p.no] # m
    BY <1>1, <1>3, <2>1
  <2>5. Arrived(m)' = Arrived(m)
    BY <1>1, <2>2, <2>3, <2>4 DEF Arrived
  <2> QED BY <1>2, <2>5 DEF ReceiverAt
<1> QED BY <1>5, <1>6

LEMMA ReceiveAcks ==
  ASSUME IInv, BInv, AInv, NEW t \in Sender, Receive(t)
  PROVE  AInv'
<1> DEFINE p == Head(toReceiver[t])
           e == <<p.pid, p.sid>>
<1>1. /\ UNCHANGED <<at, sid, sent, done>> /\ cut \subseteq cut'
      /\ p \in Slice /\ From[p.pid] = t /\ p.no \in 1 .. Len(sent[t])
      /\ got' = got \/ got' = [got EXCEPT ![t] = Append(@, p.no)]
      /\ \/ toSender' = toSender
         \/ toSender' = [toSender EXCEPT ![t] = Append(@, e)]
      /\ toSender \in [Sender -> Seq(Msg \X Nat)] /\ got \in [Sender -> Seq(Nat)]
      /\ sent \in [Sender -> Seq(Msg)]
  BY ReceiveCases DEF Receive, Acknowledge, PutSlice, Store, Reassemble, reformerVars, senderVars,
                      IInv, Types, BInv
<1>2. p.pid \in Msg /\ p.sid \in Nat /\ p.no \in Nat /\ e \in Msg \X Nat
  BY <1>1 DEF Slice
<1>3. AckTypes'
  <2>1. ASSUME NEW s \in Sender, NEW i \in 1 .. Len(got'[s])
        PROVE  got'[s][i] <= Len(sent[s])
    <3>1. /\ \A j \in 1 .. Len(got[s]) : got[s][j] <= Len(sent[s])
          /\ got[s] \in Seq(Nat) /\ Len(sent[s]) \in Nat
      <4>1. got[s] \in Seq(Nat) /\ sent[s] \in Seq(Msg)
        BY <1>1
      <4>2. \A j \in 1 .. Len(got[s]) : got[s][j] <= Len(sent[s])
        BY DEF AInv, AckTypes
      <4> QED BY <4>1, <4>2
    <3>2. got'[s] = got[s] \/ (s = t /\ got'[s] = Append(got[s], p.no))
      BY <1>1
    <3>3. p.no \in Nat
      BY <1>2
    <3> HIDE DEF p
    <3>4. (i \in 1 .. Len(got[s]) /\ got'[s][i] = got[s][i]) \/ (s = t /\ got'[s][i] = p.no)
      <4>1. CASE got'[s] = got[s]
        BY <2>1, <4>1
      <4>2. CASE s = t /\ got'[s] = Append(got[s], p.no)
        <5>1. \A n \in Nat : \A j \in 1 .. Len(Append(got[s], n)) :
                \/ j \in 1 .. Len(got[s]) /\ Append(got[s], n)[j] = got[s][j]
                \/ Append(got[s], n)[j] = n
          BY <3>1
        <5> QED BY <2>1, <3>3, <4>2, <5>1
      <4> QED BY <3>2, <4>1, <4>2
    <3>5. p.no <= Len(sent[t])
      BY <1>1, <3>3
    <3> QED BY <3>1, <3>4, <3>5
  <2> QED BY <1>1, <2>1 DEF AInv, AckTypes, Number
<1>4. ASSUME NEW m \in Msg \ cut'
      PROVE  Behind(toSender[From[m]], m, SenderAt(m), ReceiverAt(m))'
  <2> DEFINE s == From[m]
             a == toSender[s]
             lo == SenderAt(m)
             hi == ReceiverAt(m)
             hi2 == ReceiverAt(m)'
  <2>1. /\ s \in Sender /\ a \in Seq(Msg \X Nat) /\ lo \in Nat /\ hi \in Nat
        /\ Behind(a, m, lo, hi)
    BY <1>1, <1>4, AckFacts
  <2>2. SenderAt(m)' = lo
    BY <1>1, <2>1, SameSender
  <2>3. /\ hi2 \in Nat /\ hi <= hi2
        /\ e[1] = m => \A d \in Nat : Upto(m, d, e[2]) <= hi + 1 => Upto(m, d, e[2]) <= hi2
    <3>1. CASE p.pid = m
      BY <1>4, <3>1, ReceiverMoves
    <3>2. CASE p.pid # m
      <4>1. hi2 = hi
        BY <1>4, <3>2, ReceiverStays
      <4> QED BY <2>1, <3>2, <4>1
    <3> QED BY <3>1, <3>2
  <2>4. toSender'[s] = a \/ toSender'[s] = Append(a, e)
    BY <1>1, <2>1
  <2> HIDE DEF e, a, lo, hi, hi2
  <2>5. Behind(a, m, lo, hi2)
    <3>1. lo <= lo
      BY <2>1
    <3> QED BY <2>1, <2>3, <3>1, BehindWeaker
  <2>6. Behind(Append(a, e), m, lo, hi2)
    BY <1>2, <2>1, <2>3, BehindSent
  <2>7. Behind(toSender'[s], m, lo, hi2)
    BY <2>4, <2>5, <2>6
  <2> QED BY <1>1, <2>2, <2>7 DEF lo, hi2
<1> QED BY <1>3, <1>4 DEF AInv

LEMMA InitAcks == Init => AInv
<1> SUFFICES ASSUME Init PROVE AInv
  OBVIOUS
<1>1. AckTypes
  BY DEF Init, AckTypes
<1>2. ASSUME NEW m \in Msg PROVE Behind(toSender[From[m]], m, SenderAt(m), ReceiverAt(m))
  <2>1. /\ From[m] \in Sender /\ at[From[m]] = "idle" /\ stored[m] = 0 /\ done[From[m]] = {}
        /\ toSender[From[m]] = <<>> /\ got[From[m]] = <<>>
    BY SlicesAssumption DEF Init
  <2>2. Acked(m) = {} /\ Arrived(m) = {}
    BY <2>1 DEF Acked, Arrived
  <2>3. Cardinality({}) = 0
    BY FS_EmptySet
  <2>4. SenderAt(m) = Upto(m, 0, 0) /\ ReceiverAt(m) = Upto(m, 0, 0)
    BY <2>1, <2>2, <2>3 DEF SenderAt, ReceiverAt
  <2>5. Upto(m, 0, 0) \in Nat
    BY UptoFacts
  <2>6. Upto(m, 0, 0) <= Upto(m, 0, 0)
    BY <2>5
  <2> QED BY <2>1, <2>4, <2>5, <2>6, BehindNone
<1> QED BY <1>1, <1>2 DEF AInv

LEMMA StepAcks == IInv /\ BInv /\ AInv /\ [Next]_vars => AInv'
<1> SUFFICES ASSUME IInv, BInv, AInv, [Next]_vars PROVE AInv'
  OBVIOUS
<1>1. ASSUME NEW s \in Sender, SenderStep(s) PROVE AInv'
  BY <1>1, SendAcks, RecvAckAcks DEF SenderStep
<1>2. ASSUME NEW s \in Sender, Receive(s) PROVE AInv'
  BY <1>2, ReceiveAcks
<1>3. ASSUME NEW s \in Sender, NEW x \in Msg, Begin(s, x) PROVE AInv'
  BY <1>3, BeginAcks
<1>4. ASSUME NEW x \in Msg, Check(x) PROVE AInv'
  BY <1>4, CheckAcks
<1>5. ASSUME UNCHANGED vars PROVE AInv'
  <2>1. UNCHANGED <<at, sid, sent, got, done, cut, toSender, stored>>
    BY <1>5 DEF vars, senderVars, netVars, reformerVars
  <2>2. AckTypes'
    BY <2>1 DEF AInv, AckTypes, Number
  <2>3. ASSUME NEW m \in Msg \ cut'
        PROVE  Behind(toSender[From[m]], m, SenderAt(m), ReceiverAt(m))'
    <3>1. Behind(toSender[From[m]], m, SenderAt(m), ReceiverAt(m))
      BY <2>1, <2>3 DEF AInv
    <3>2. SenderAt(m)' = SenderAt(m) /\ ReceiverAt(m)' = ReceiverAt(m)
      BY <2>1, SameSender, SameReceiver
    <3> QED BY <2>1, <3>1, <3>2
  <2> QED BY <2>2, <2>3 DEF AInv
<1> QED BY <1>1, <1>2, <1>3, <1>4, <1>5 DEF Next

\* In every reachable state, what a sender knows of as arrived of a message
\* that was never refused or expired, and what the acknowledgements on their
\* way can still tell it, is no more than the receiver has.
THEOREM AcksInvariant == Spec => [](IInv /\ BInv /\ AInv)
<1> QED BY InitInv, StepInv, InitBuffers, StepBuffers, InitAcks, StepAcks, PTL DEF Spec

LEMMA InvDelivered == IInv /\ BInv /\ AInv => AckedIsDelivered
<1> SUFFICES ASSUME IInv, BInv, AInv, NEW m \in Msg \ cut
             PROVE  Cardinality(Acked(m)) <= Cardinality(Arrived(m))
  BY DEF AckedIsDelivered, Acked, Arrived
<1> DEFINE D == Cardinality(Acked(m))
           G == Cardinality(Arrived(m))
           k == IF at[From[m]] # "idle" /\ Current(From[m]) = m THEN sid[From[m]] - 1 ELSE 0
<1>1. /\ D \in Nat /\ G \in Nat /\ k \in Nat /\ stored[m] \in Nat /\ stored[m] < Slices[m]
      /\ SenderAt(m) \in Nat /\ ReceiverAt(m) \in Nat
      /\ toSender[From[m]] \in Seq(Msg \X Nat)
      /\ Behind(toSender[From[m]], m, SenderAt(m), ReceiverAt(m))
  BY AckFacts
<1>2. SenderAt(m) <= ReceiverAt(m)
  BY <1>1, BehindOrdered
<1>3. SenderAt(m) = Upto(m, D, k) /\ ReceiverAt(m) = Upto(m, G, stored[m])
  BY DEF SenderAt, ReceiverAt
<1> HIDE DEF D, G, k
<1>4. D <= G
  BY <1>1, <1>2, <1>3, UptoOrder
<1> QED BY <1>4 DEF D, G

\* What a sender thread (MsgSender.cpp) holds for sent has arrived: unless the
\* reformer (Reformer.cpp) had no room for it or let it expire, a message of
\* any number of slices has been put into the receive buffer at least as often
\* as it was acknowledged to the end, although the receiver acknowledges a
\* slice before it looks at it, and whatever the network loses or delays.
THEOREM AckedCorrect == Spec => []AckedIsDelivered
<1> QED BY AcksInvariant, InvDelivered, PTL
=============================================================================
