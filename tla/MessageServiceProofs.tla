------------------------ MODULE MessageServiceProofs ------------------------
(***************************************************************************)
(* Proofs about the message pipeline with processes that die and start      *)
(* again, for every number of senders, every size of the section, every set *)
(* of message sizes and any number of crashes.                              *)
(***************************************************************************)
EXTENDS MessageService, IPCMmfProofs, SequenceTheorems, WellFoundedInduction

(* Induction over the naturals, with a set in place of a predicate.          *)

\* A set of naturals that is not empty has a least member.
LEMMA LeastMember ==
  ASSUME NEW T, T \subseteq Nat, T # {}
  PROVE  \E x \in T : \A y \in T : x <= y
<1>1. IsWellFoundedOn(OpToRel(<, Nat), Nat)
  BY NatLessThanWellFounded
<1>2. PICK x \in T : \A y \in T : ~ (<<y, x>> \in OpToRel(<, Nat))
  BY <1>1, WFMin, Zenon
<1>3. \A y \in T : ~(y < x)
  BY <1>2 DEF OpToRel
<1> QED
  BY <1>3

\* A set with 0 and the successor of each of its members has every natural.
LEMMA InductiveSet ==
  ASSUME NEW S, 0 \in S, \A n \in Nat : n \in S => n + 1 \in S
  PROVE  \A n \in Nat : n \in S
<1> SUFFICES ASSUME Nat \ S # {}
             PROVE  FALSE
  OBVIOUS
<1>1. PICK x \in Nat \ S : \A y \in Nat \ S : x <= y
  BY LeastMember
<1>2. x # 0 /\ x - 1 \in Nat /\ x - 1 \in S
  BY <1>1
<1> QED
  BY <1>1, <1>2

-----------------------------------------------------------------------------
(* What Collect computes.                                                    *)

\* The equation that defines the recursion of Collect, up to n.
Collects(seq, f, n, h) ==
  /\ DOMAIN h = 0..n /\ h = [i \in 0..n |-> h[i]]
  /\ \A i \in 0..n : h[i] = IF i = 0 THEN <<>>
                            ELSE IF seq[i] \in DOMAIN f THEN Append(h[i - 1], f[seq[i]])
                            ELSE h[i - 1]

\* Such a function exists for every n ...
LEMMA CollectsExists ==
  ASSUME NEW seq, NEW f
  PROVE  \A n \in Nat : \E h : Collects(seq, f, n, h)
<1> DEFINE S == {n \in Nat : \E h : Collects(seq, f, n, h)}
<1>1. 0 \in S
  <2>1. Collects(seq, f, 0, [i \in 0..0 |-> <<>>])
    BY DEF Collects
  <2> QED
    BY <2>1
<1>2. ASSUME NEW n \in Nat, n \in S
      PROVE  n + 1 \in S
  <2>1. PICK h : Collects(seq, f, n, h)
    BY <1>2
  <2> DEFINE x == IF seq[n + 1] \in DOMAIN f THEN Append(h[n], f[seq[n + 1]]) ELSE h[n]
             g == [i \in 0..(n + 1) |-> IF i = n + 1 THEN x ELSE h[i]]
  <2>2. DOMAIN g = 0..(n + 1) /\ g = [i \in 0..(n + 1) |-> g[i]]
    OBVIOUS
  <2>3. g[0] = <<>>
    BY <2>1 DEF Collects
  <2>4. ASSUME NEW i \in 0..(n + 1), i # 0
        PROVE  g[i] = IF seq[i] \in DOMAIN f THEN Append(g[i - 1], f[seq[i]]) ELSE g[i - 1]
    <3>1. g[i - 1] = h[i - 1]
      BY <2>4
    <3>2. CASE i = n + 1
      BY <3>1, <3>2
    <3>3. CASE i # n + 1
      <4>1. i \in 0..n /\ g[i] = h[i]
        BY <3>3
      <4> HIDE DEF g
      <4> QED
        BY <2>1, <2>4, <3>1, <4>1 DEF Collects
    <3> QED
      BY <3>2, <3>3
  <2> HIDE DEF g
  <2>5. Collects(seq, f, n + 1, g)
    BY <2>2, <2>3, <2>4 DEF Collects
  <2> QED
    BY <2>5
<1> HIDE DEF S
<1>3. \A n \in Nat : n \in S
  BY <1>1, <1>2, InductiveSet
<1> QED
  BY <1>3 DEF S

\* ... and there is only one value it can have at each place.
LEMMA CollectsUnique ==
  ASSUME NEW seq, NEW f, NEW m \in Nat, NEW n \in Nat, NEW g, NEW h, NEW seq2,
         Collects(seq, f, m, g), Collects(seq2, f, n, h), m <= n,
         \A i \in 1..m : seq[i] = seq2[i]
  PROVE  \A i \in 0..m : g[i] = h[i]
<1> DEFINE S == {i \in Nat : i \in 0..m => g[i] = h[i]}
<1>1. 0 \in S
  <2>1. 0 \in 0..m /\ 0 \in 0..n
    OBVIOUS
  <2>2. g[0] = <<>> /\ h[0] = <<>>
    BY <2>1 DEF Collects
  <2> QED
    BY <2>2
<1>2. ASSUME NEW i \in Nat, i \in S
      PROVE  i + 1 \in S
  <2> SUFFICES ASSUME i + 1 \in 0..m
               PROVE  g[i + 1] = h[i + 1]
    OBVIOUS
  <2>1. g[i] = h[i] /\ i + 1 \in 0..n /\ i + 1 # 0 /\ (i + 1) - 1 = i /\ seq[i + 1] = seq2[i + 1]
    BY <1>2
  <2>2. g[i + 1] = IF seq[i + 1] \in DOMAIN f THEN Append(g[i], f[seq[i + 1]]) ELSE g[i]
    BY <2>1 DEF Collects
  <2>3. h[i + 1] = IF seq2[i + 1] \in DOMAIN f THEN Append(h[i], f[seq2[i + 1]]) ELSE h[i]
    BY <2>1 DEF Collects
  <2> QED
    BY <2>1, <2>2, <2>3
<1> HIDE DEF S
<1>3. \A i \in Nat : i \in S
  BY <1>1, <1>2, InductiveSet
<1> QED
  BY <1>3 DEF S

\* The value of Collect is that of any such function.
LEMMA CollectIs ==
  ASSUME NEW T, NEW seq \in Seq(T), NEW f
  PROVE  \E h : Collects(seq, f, Len(seq), h) /\ Collect(seq, f) = h[Len(seq)]
<1> DEFINE F(h) == [i \in 0..Len(seq) |->
                      IF i = 0 THEN <<>>
                      ELSE IF seq[i] \in DOMAIN f THEN Append(h[i - 1], f[seq[i]]) ELSE h[i - 1]]
           got == CHOOSE h : h = F(h)
<1>1. PICK h : Collects(seq, f, Len(seq), h)
  <2>1. Len(seq) \in Nat
    OBVIOUS
  <2> QED
    BY <2>1, CollectsExists
<1>2. h = F(h)
  BY <1>1 DEF Collects
<1>3. got = F(got)
  <2> HIDE DEF F
  <2> QED
    BY <1>2, Zenon
<1>4. Collects(seq, f, Len(seq), got)
  <2> HIDE DEF got
  <2> QED
    BY <1>3 DEF Collects
<1>5. Collect(seq, f) = got[Len(seq)]
  BY DEF Collect
<1> QED
  BY <1>4, <1>5

\* Nothing is collected from nothing.
LEMMA CollectEmpty ==
  ASSUME NEW f
  PROVE  Collect(<<>>, f) = <<>>
<1>1. <<>> \in Seq({}) /\ Len(<<>>) = 0
  OBVIOUS
<1>2. PICK h : Collects(<<>>, f, 0, h) /\ Collect(<<>>, f) = h[0]
  BY <1>1, CollectIs
<1> QED
  BY <1>2 DEF Collects

\* The last entry is collected if it is in the domain.
LEMMA CollectAppend ==
  ASSUME NEW T, NEW seq \in Seq(T), NEW f, NEW x \in T
  PROVE  Collect(Append(seq, x), f)
           = IF x \in DOMAIN f THEN Append(Collect(seq, f), f[x]) ELSE Collect(seq, f)
<1> DEFINE n == Len(seq)
           s == Append(seq, x)
<1>1. n \in Nat /\ s \in Seq(T) /\ Len(s) = n + 1 /\ s[n + 1] = x /\ \A i \in 1..n : seq[i] = s[i]
  OBVIOUS
<1>2. PICK g : Collects(seq, f, n, g) /\ Collect(seq, f) = g[n]
  BY CollectIs
<1>3. PICK h : Collects(s, f, n + 1, h) /\ Collect(s, f) = h[n + 1]
  BY <1>1, CollectIs
<1> HIDE DEF n, s
<1>4. g[n] = h[n]
  <2>1. \A i \in 0..n : g[i] = h[i]
    BY <1>1, <1>2, <1>3, CollectsUnique
  <2> QED
    BY <1>1, <2>1
<1>5. h[n + 1] = IF x \in DOMAIN f THEN Append(h[n], f[x]) ELSE h[n]
  <2>1. n + 1 \in 0..(n + 1) /\ n + 1 # 0 /\ (n + 1) - 1 = n
    BY <1>1
  <2> QED
    BY <1>1, <1>3, <2>1 DEF Collects
<1> QED
  BY <1>2, <1>3, <1>4, <1>5 DEF s

\* What is true of the empty sequence and kept by appending is true of every sequence.
LEMMA InductiveSeqs ==
  ASSUME NEW T, NEW S, <<>> \in S,
         \A seq \in Seq(T), x \in T : seq \in S => Append(seq, x) \in S
  PROVE  \A seq \in Seq(T) : seq \in S
<1> DEFINE N == {n \in Nat : \A seq \in Seq(T) : Len(seq) = n => seq \in S}
<1>1. 0 \in N
  <2>1. \A seq \in Seq(T) : Len(seq) = 0 => seq = <<>>
    OBVIOUS
  <2> QED
    BY <2>1
<1>2. ASSUME NEW n \in Nat, n \in N
      PROVE  n + 1 \in N
  <2> SUFFICES ASSUME NEW seq \in Seq(T), Len(seq) = n + 1
               PROVE  seq \in S
    OBVIOUS
  <2>1. PICK rest \in Seq(T), x \in T : seq = Append(rest, x)
    BY SequenceEmptyOrAppend
  <2>2. Len(rest) = n
    BY <2>1
  <2> QED
    BY <1>2, <2>1, <2>2
<1> HIDE DEF N
<1>3. \A n \in Nat : n \in N
  BY <1>1, <1>2, InductiveSet
<1> QED
  BY <1>3 DEF N

\* What is collected are values of f.
LEMMA CollectType ==
  ASSUME NEW T, NEW seq \in Seq(T), NEW V, NEW f, \A x \in DOMAIN f : f[x] \in V
  PROVE  Collect(seq, f) \in Seq(V)
<1> DEFINE S == {s \in Seq(T) : Collect(s, f) \in Seq(V)}
<1>1. <<>> \in S
  <2>1. <<>> \in Seq(T) /\ <<>> \in Seq(V)
    OBVIOUS
  <2> QED
    BY <2>1, CollectEmpty
<1>2. ASSUME NEW s \in Seq(T), NEW x \in T, s \in S
      PROVE  Append(s, x) \in S
  <2>1. Append(s, x) \in Seq(T) /\ Collect(s, f) \in Seq(V)
    BY <1>2
  <2>2. Collect(Append(s, x), f)
          = IF x \in DOMAIN f THEN Append(Collect(s, f), f[x]) ELSE Collect(s, f)
    BY CollectAppend
  <2>3. Collect(Append(s, x), f) \in Seq(V)
    BY <2>1, <2>2
  <2> QED
    BY <2>1, <2>3
<1> HIDE DEF S
<1>3. \A s \in Seq(T) : s \in S
  BY <1>1, <1>2, InductiveSeqs
<1> QED
  BY <1>3 DEF S

\* Collecting distributes over concatenation.
LEMMA CollectConcat ==
  ASSUME NEW T, NEW a \in Seq(T), NEW b \in Seq(T), NEW f
  PROVE  Collect(a \o b, f) = Collect(a, f) \o Collect(b, f)
<1> DEFINE S == {s \in Seq(T) : Collect(a \o s, f) = Collect(a, f) \o Collect(s, f)}
<1>1. PICK V : \A x \in DOMAIN f : f[x] \in V
  <2> WITNESS {f[x] : x \in DOMAIN f}
  <2> QED
    OBVIOUS
<1>2. \A s \in Seq(T) : Collect(s, f) \in Seq(V)
  BY <1>1, CollectType
<1>3. <<>> \in S
  <2>1. a \o <<>> = a /\ Collect(a, f) \o <<>> = Collect(a, f) /\ <<>> \in Seq(T)
    BY <1>2
  <2> QED
    BY <2>1, CollectEmpty
<1>4. ASSUME NEW s \in Seq(T), NEW x \in T, s \in S
      PROVE  Append(s, x) \in S
  <2>1. a \o Append(s, x) = Append(a \o s, x) /\ a \o s \in Seq(T) /\ Append(s, x) \in Seq(T)
    OBVIOUS
  <2>2. Collect(a \o s, f) = Collect(a, f) \o Collect(s, f)
    BY <1>4
  <2>3. Collect(Append(s, x), f)
          = IF x \in DOMAIN f THEN Append(Collect(s, f), f[x]) ELSE Collect(s, f)
    BY CollectAppend
  <2>4. Collect(Append(a \o s, x), f)
          = IF x \in DOMAIN f THEN Append(Collect(a \o s, f), f[x]) ELSE Collect(a \o s, f)
    <3>1. PICK w \in Seq(T) : w = a \o s
      BY <2>1
    <3>2. Collect(Append(w, x), f)
            = IF x \in DOMAIN f THEN Append(Collect(w, f), f[x]) ELSE Collect(w, f)
      BY CollectAppend
    <3> QED
      BY <3>1, <3>2
  <2>5. ASSUME NEW p \in Seq(V), NEW q \in Seq(V), NEW y \in V
        PROVE  Append(p \o q, y) = p \o Append(q, y)
    <3> DEFINE l == Append(p \o q, y)
               r == p \o Append(q, y)
    <3>1. l \in Seq(V) /\ r \in Seq(V) /\ Len(l) = Len(p) + Len(q) + 1 /\ Len(r) = Len(l)
      OBVIOUS
    <3>2. \A i \in 1..Len(l) : l[i] = r[i]
      BY <3>1
    <3> HIDE DEF l, r
    <3>3. l = r
      BY <3>1, <3>2
    <3> QED
      BY <3>3 DEF l, r
  <2>6. Collect(a, f) \in Seq(V) /\ Collect(s, f) \in Seq(V) /\ (x \in DOMAIN f => f[x] \in V)
    BY <1>1, <1>2
  <2>7. Collect(a \o Append(s, x), f) = Collect(a, f) \o Collect(Append(s, x), f)
    <3>1. CASE x \in DOMAIN f
      BY <2>1, <2>2, <2>3, <2>4, <2>5, <2>6, <3>1
    <3>2. CASE x \notin DOMAIN f
      BY <2>1, <2>2, <2>3, <2>4, <3>2
    <3> QED
      BY <3>1, <3>2
  <2> QED
    BY <2>1, <2>7
<1> HIDE DEF S
<1>5. \A s \in Seq(T) : s \in S
  BY <1>3, <1>4, InductiveSeqs
<1> QED
  BY <1>5 DEF S

\* Nothing is collected where nothing is in the domain.
LEMMA CollectNone ==
  ASSUME NEW T, NEW seq \in Seq(T), NEW f, \A i \in 1..Len(seq) : seq[i] \notin DOMAIN f
  PROVE  Collect(seq, f) = <<>>
<1> DEFINE R == {x \in T : x \notin DOMAIN f}
           S == {s \in Seq(R) : Collect(s, f) = <<>>}
<1>1. <<>> \in S
  BY CollectEmpty
<1>2. ASSUME NEW s \in Seq(R), NEW x \in R, s \in S
      PROVE  Append(s, x) \in S
  <2>1. Append(s, x) \in Seq(R) /\ Collect(s, f) = <<>> /\ x \notin DOMAIN f
    BY <1>2
  <2> HIDE DEF R
  <2> QED
    BY <2>1, CollectAppend, SMTT(30)
<1>3. seq \in Seq(R)
  OBVIOUS
<1> HIDE DEF S, R
<1>4. \A s \in Seq(R) : s \in S
  BY <1>1, <1>2, InductiveSeqs
<1> QED
  BY <1>3, <1>4 DEF S

\* Everything is kept where everything is in the domain of an identity.
LEMMA CollectAll ==
  ASSUME NEW T, NEW seq \in Seq(T), NEW f, \A i \in 1..Len(seq) : seq[i] \in DOMAIN f,
         \A x \in DOMAIN f : f[x] = x
  PROVE  Collect(seq, f) = seq
<1> DEFINE R == T \cap DOMAIN f
           S == {s \in Seq(R) : Collect(s, f) = s}
<1>1. <<>> \in S
  BY CollectEmpty
<1>2. ASSUME NEW s \in Seq(R), NEW x \in R, s \in S
      PROVE  Append(s, x) \in S
  <2>1. Append(s, x) \in Seq(R) /\ Collect(s, f) = s /\ x \in DOMAIN f /\ f[x] = x
    BY <1>2
  <2> HIDE DEF R
  <2> QED
    BY <2>1, CollectAppend, SMTT(30)
<1>3. seq \in Seq(R)
  OBVIOUS
<1> HIDE DEF S, R
<1>4. \A s \in Seq(R) : s \in S
  BY <1>1, <1>2, InductiveSeqs
<1> QED
  BY <1>3, <1>4 DEF S

-----------------------------------------------------------------------------
(* The messages in a sequence of bytes.                                      *)

\* What a batch is made of.
Octets == Bytes \cup {NoByte}

\* MessagesIn gives messages.
LEMMA MessagesInType ==
  ASSUME NEW s \in Seq(Octets)
  PROVE  MessagesIn(s) \in Seq(Messages)
<1> DEFINE f == [b \in FirstBytes |-> b.msg]
<1>1. \A x \in DOMAIN f : f[x] \in Messages
  BY DEF FirstBytes
<1> HIDE DEF f
<1> QED
  BY <1>1, CollectType DEF MessagesIn, f

\* No bytes, no messages.
LEMMA MessagesInEmpty == MessagesIn(<<>>) = <<>>
BY CollectEmpty DEF MessagesIn

\* MessagesIn distributes over concatenation.
LEMMA MessagesInConcat ==
  ASSUME NEW a \in Seq(Octets), NEW b \in Seq(Octets)
  PROVE  MessagesIn(a \o b) = MessagesIn(a) \o MessagesIn(b)
BY CollectConcat DEF MessagesIn

\* The bytes of a message contain that message.
LEMMA MessagesInBytesOf ==
  ASSUME NEW m \in Messages
  PROVE  MessagesIn(BytesOf(m)) = <<m>>
<1> DEFINE f == [b \in FirstBytes |-> b.msg]
           s == BytesOf(m)
           rest == [i \in 1..(m.len - 1) |-> s[i + 1]]
<1>1. m.len \in Nat /\ m.len > 0
  BY MessageLength
<1>2. s \in Seq(Octets) /\ Len(s) = m.len /\ \A i \in 1..m.len : s[i] = [msg |-> m, off |-> i - 1]
  BY <1>1, BytesType DEF Octets, BytesOf
<1> HIDE DEF s
<1>3. rest \in Seq(Octets) /\ Len(rest) = m.len - 1
  BY <1>1, <1>2
<1>4. s = <<s[1]>> \o rest
  BY <1>1, <1>2, <1>3
<1>5. \A i \in 1..Len(rest) : rest[i] \notin DOMAIN f
  <2> TAKE i \in 1..Len(rest)
  <2>1. i + 1 \in 1..m.len /\ (i + 1) - 1 = i /\ i # 0
    BY <1>1, <1>3
  <2>2. rest[i] = [msg |-> m, off |-> i]
    BY <1>2, <1>3, <2>1
  <2>3. rest[i].off # 0
    BY <2>1, <2>2
  <2> QED
    BY <2>3 DEF FirstBytes
<1>6. s[1] = [msg |-> m, off |-> 0] /\ s[1] \in DOMAIN f /\ f[s[1]] = m /\ s[1] \in Octets
  BY <1>1, <1>2 DEF FirstBytes
<1> DEFINE one == <<s[1]>>
<1>11. one \in Seq(Octets) /\ one = Append(<<>>, s[1]) /\ <<>> \in Seq(Octets)
  BY <1>6
<1>12. \A x \in DOMAIN f : f[x] \in Messages
  BY DEF FirstBytes
<1> HIDE DEF rest, f, one
<1>7. Collect(rest, f) = <<>>
  BY <1>3, <1>5, CollectNone
<1>8. Collect(one, f) = <<m>>
  <2>1. Collect(Append(<<>>, s[1]), f) = Append(Collect(<<>>, f), f[s[1]])
    BY <1>6, <1>11, CollectAppend
  <2>2. Append(<<>>, m) = <<m>>
    OBVIOUS
  <2> QED
    BY <1>6, <1>11, <2>1, <2>2, CollectEmpty
<1>9. Collect(one \o rest, f) = Collect(one, f) \o Collect(rest, f)
  <2>1. \A p, q \in Seq(Octets) : Collect(p \o q, f) = Collect(p, f) \o Collect(q, f)
    BY CollectConcat
  <2> QED
    BY <1>3, <1>11, <2>1, Zenon
<1>10. <<m>> \o <<>> = <<m>>
  OBVIOUS
<1> QED
  BY <1>4, <1>7, <1>8, <1>9, <1>10 DEF MessagesIn, f, s, one

-----------------------------------------------------------------------------
(* The inductive invariant, in parts.                                        *)

\* A process that is down has no thread in the section; a parse position, a message
\* in dispatch and a promised head belong to the place where they are used.
Processes ==
  /\ ~up => rpc = "wait"
  /\ \A s \in Senders : ~alive[s] => wpc[s] = "idle"
  /\ rpc # "got" => pos = 0
  /\ dpc # "dispatch" => doing = NoMsg
  /\ dpc = "dispatch" => doing \in Messages \cup {Garbage}
  /\ dpc = "head" => queue # <<>>

\* A sequence of bytes made of whole messages: the bytes around each byte are those of
\* its message.
Framed(seq) ==
  \A i \in 1..Len(seq) :
    /\ seq[i] \in Bytes /\ seq[i].off < seq[i].msg.len
    /\ \A j \in 0..(seq[i].msg.len - 1) :
         /\ i - seq[i].off + j \in 1..Len(seq)
         /\ seq[i - seq[i].off + j] = [msg |-> seq[i].msg, off |-> j]

\* Until two accesses overlap, the section and the batch are whole messages, and the
\* parser stands at the start of one or at the end.
Frames ==
  ~overlap =>
    /\ Framed(unread)
    /\ rpc \in {"release", "got"} => Framed(taken)
    /\ rpc = "got" => pos <= Len(taken)
    /\ rpc = "got" /\ pos < Len(taken) => taken[pos + 1].off = 0

\* Then no garbage gets into the queue.
Clean ==
  ~overlap => /\ queue \in Seq(Messages) /\ handled \in Seq(Messages)
              /\ dpc = "dispatch" => doing \in Messages

\* A sequence in which nothing occurs twice.
NoRepeats(seq) == \A i, j \in 1..Len(seq) : seq[i] = seq[j] => i = j

\* No message is stored twice, and the one a sender is about to store is not stored yet.
Fresh ==
  ~overlap =>
    /\ \A m \in Range(ledger) : m.num <= nsent
    /\ NoRepeats(ledger)
    /\ \A s \in Senders : wpc[s] # "idle" => wmsg[s].from = s /\ wmsg[s].num <= nsent
    /\ \A s \in Senders : wpc[s] \notin {"idle", "release"} => wmsg[s] \notin Range(ledger)

\* The parts of InService: the message in dispatch and the rest of the batch.
InDispatch == IF doing = NoMsg THEN <<>> ELSE <<doing>>
InBatch == IF rpc \in {"release", "got"}
           THEN MessagesIn(Rest) ELSE <<>>

ServiceInv == /\ IInv /\ ServiceTypeOK /\ Processes /\ Frames /\ Clean /\ Fresh
              /\ ExactlyOnceInOrder

-----------------------------------------------------------------------------
(* The channel with processes that die and start.                            *)

\* Service.exe dies: the reader is out of the section, and the section is as it was or new.
LEMMA ServiceDiesChannel ==
  ASSUME IInv, Processes, ServiceTypeOK, ServiceDies
  PROVE  IInv'
<1> USE DEF IInv
<1>1. TypeOK'
  <2>1. mem' \in [0..(MmfSize - 1) -> Bytes \cup {NoByte}]
    BY DEF ServiceDies, SectionSurvives, TypeOK
  <2>6. (cur' = cur \/ cur' = 0) /\ (unread' = unread \/ unread' = <<>>)
    BY DEF ServiceDies, SectionSurvives
  <2>2. cur' \in 0..(DwordMod - 1)
    BY <2>6, SizeAssumption DEF TypeOK
  <2>7. unread' \in Seq(Bytes)
    <3>1. unread \in Seq(Bytes) /\ <<>> \in Seq(Bytes)
      BY DEF TypeOK
    <3> QED
      BY <2>6, <3>1, Zenon
  <2>3. owner' \in Procs \cup {None} /\ leaked' \in BOOLEAN
    BY DEF ServiceDies, Abandon, TypeOK
  <2>4. rpc' = "wait" /\ ralloc' = 0 /\ rlen' = 0 /\ rbuf' = <<>> /\ dwSize' = 0
    BY DEF ServiceDies
  <2>5. UNCHANGED <<setup, writer, overlap, overrun, taken, reported, received>>
    BY DEF ServiceDies
  <2> QED
    BY <2>1, <2>2, <2>3, <2>4, <2>5, <2>7 DEF TypeOK, setup, writer
<1>2. Calls'
  BY ReaderAssumption, SizeAssumption, EnvironmentAssumption DEF ServiceDies, Abandon, SectionSurvives, setup, writer, Calls, Processes, TypeOK
<1>3. Owned'
  BY ReaderAssumption, SizeAssumption, EnvironmentAssumption DEF ServiceDies, Abandon, SectionSurvives, setup, writer, Owned, Holds, Procs, Processes, TypeOK, Calls
<1>4. MutualExclusion'
  BY ReaderAssumption, SizeAssumption, EnvironmentAssumption DEF ServiceDies, Abandon, SectionSurvives, setup, writer, MutualExclusion
<1>5. WritesStayInside'
  BY ReaderAssumption, SizeAssumption, EnvironmentAssumption DEF ServiceDies, Abandon, SectionSurvives, setup, writer, WritesStayInside, OneWriter, Processes, TypeOK, Calls
<1>6. Checked'
  BY ReaderAssumption, SizeAssumption, EnvironmentAssumption DEF ServiceDies, Abandon, SectionSurvives, setup, writer, Checked, OneWriter, Processes, TypeOK, Calls
<1>7. Alone'
  BY ReaderAssumption, SizeAssumption, EnvironmentAssumption DEF ServiceDies, Abandon, SectionSurvives, setup, writer, Alone, Inside, WriterInside, ReaderInside, Procs, Processes, TypeOK, Calls
<1>8. Area' /\ Written'
  <2>1. CASE \E s \in Senders : alive[s]
    <3>1. UNCHANGED <<cur, mem, unread, overlap>>
      BY <2>1 DEF ServiceDies, SectionSurvives
    <3>2. UNCHANGED <<wpc, wmsg, wreg, wcnt>>
      BY DEF ServiceDies, writer
    <3> QED
      BY <3>1, <3>2 DEF Area, Written, TypeOK
  <2>2. CASE ~(\E s \in Senders : alive[s])
    <3>1. cur' = 0 /\ unread' = <<>>
      BY <2>2 DEF ServiceDies, SectionSurvives
    <3>2. \A t \in Senders : wpc'[t] = "idle"
      BY <2>2 DEF ServiceDies, Processes, ServiceTypeOK, TypeOK, writer
    <3> QED
      BY <3>1, <3>2, SizeAssumption DEF Area, Written
  <2> QED
    BY <2>1, <2>2
<1>9. Copied'
  BY ReaderAssumption, SizeAssumption, EnvironmentAssumption DEF ServiceDies, Abandon, SectionSurvives, setup, writer, Copied, Processes, TypeOK, Calls
<1> QED
  BY <1>1, <1>2, <1>3, <1>4, <1>5, <1>6, <1>7, <1>8, <1>9

\* A sender dies, within WriteData perhaps: what it had copied is not counted.
LEMMA SenderCrashChannel ==
  ASSUME IInv, Processes, ServiceTypeOK, NEW s \in Senders, SenderCrash(s)
  PROVE  IInv'
<1> USE DEF IInv
<1>1. TypeOK'
  <2>1. mem' \in [0..(MmfSize - 1) -> Bytes \cup {NoByte}]
    BY DEF SenderCrash, SectionSurvives, TypeOK
  <2>2. (cur' = cur \/ cur' = 0) /\ (unread' = unread \/ unread' = <<>>)
    BY DEF SenderCrash, SectionSurvives
  <2>3. cur' \in 0..(DwordMod - 1)
    BY <2>2, SizeAssumption DEF TypeOK
  <2>4. unread' \in Seq(Bytes)
    <3>1. unread \in Seq(Bytes) /\ <<>> \in Seq(Bytes)
      BY DEF TypeOK
    <3> QED
      BY <2>2, <3>1, Zenon
  <2>5. owner' \in Procs \cup {None} /\ leaked' \in BOOLEAN
    BY DEF SenderCrash, Abandon, TypeOK
  <2>6. wpc' \in [Senders -> {"idle", "wait", "check", "addr", "copy", "store", "release"}]
    BY DEF SenderCrash, TypeOK
  <2>7. wmsg' \in [Senders -> Messages \cup {NoMsg}]
    BY DEF SenderCrash, TypeOK
  <2>8. wreg' \in [Senders -> Nat] /\ wcnt' \in [Senders -> Nat]
    BY DEF SenderCrash, TypeOK
  <2>9. UNCHANGED <<setup, nsent, reader, overlap, overrun, taken, reported, received>>
    BY DEF SenderCrash
  <2> QED
    BY <2>1, <2>3, <2>4, <2>5, <2>6, <2>7, <2>8, <2>9 DEF TypeOK, setup, reader
<1>2. Calls'
  BY ReaderAssumption, SizeAssumption, EnvironmentAssumption DEF SenderCrash, Abandon, SectionSurvives, setup, reader, service, Calls, Processes, TypeOK
<1>3. Owned'
  BY ReaderAssumption, SizeAssumption, EnvironmentAssumption DEF SenderCrash, Abandon, SectionSurvives, setup, reader, service, Owned, Holds, Procs, Processes, TypeOK, Calls
<1>4. MutualExclusion'
  BY ReaderAssumption, SizeAssumption, EnvironmentAssumption DEF SenderCrash, Abandon, SectionSurvives, setup, reader, service, MutualExclusion
<1>5. WritesStayInside'
  BY ReaderAssumption, SizeAssumption, EnvironmentAssumption DEF SenderCrash, Abandon, SectionSurvives, setup, reader, service, WritesStayInside, OneWriter, Processes, TypeOK, Calls
<1>6. Checked'
  BY ReaderAssumption, SizeAssumption, EnvironmentAssumption DEF SenderCrash, Abandon, SectionSurvives, setup, reader, service, Checked, OneWriter, Processes, TypeOK, Calls
<1>7. Alone'
  BY ReaderAssumption, SizeAssumption, EnvironmentAssumption DEF SenderCrash, Abandon, SectionSurvives, setup, reader, service, Alone, Inside, WriterInside, ReaderInside, Procs, Processes, TypeOK, Calls
<1>8. Area' /\ Written'
  <2>1. CASE up \/ \E t \in Senders \ {s} : alive[t]
    <3>1. UNCHANGED <<cur, mem, unread, overlap>>
      BY <2>1 DEF SenderCrash, SectionSurvives
    <3>2. /\ wpc'[s] = "idle"
          /\ \A t \in Senders : t # s => /\ wpc'[t] = wpc[t] /\ wmsg'[t] = wmsg[t]
                                        /\ wreg'[t] = wreg[t] /\ wcnt'[t] = wcnt[t]
      BY DEF SenderCrash, TypeOK
    <3>3. Area'
      BY <3>1, <3>2 DEF Area
    <3>4. Written'
      <4> SUFFICES ASSUME ~overlap, NEW t \in Senders
                   PROVE  (/\ wpc[t] = "copy" => \A j \in 1..wcnt[t] : mem[cur + j - 1] = BytesOf(wmsg[t])[j]
                           /\ wpc[t] = "store" => \A j \in 1..wmsg[t].len : mem[cur + j - 1] = BytesOf(wmsg[t])[j])'
        BY <3>1 DEF Written
      <4>1. CASE t = s
        BY <3>2, <4>1
      <4>2. CASE t # s
        BY <3>1, <3>2, <4>2 DEF Written
      <4> QED
        BY <4>1, <4>2
    <3> QED
      BY <3>3, <3>4
  <2>2. CASE ~(up \/ \E t \in Senders \ {s} : alive[t])
    <3>1. cur' = 0 /\ unread' = <<>>
      BY <2>2 DEF SenderCrash, SectionSurvives
    <3>2. \A t \in Senders : wpc'[t] = "idle"
      BY <2>2 DEF SenderCrash, Processes, ServiceTypeOK, TypeOK, writer
    <3> QED
      BY <3>1, <3>2, SizeAssumption DEF Area, Written
  <2> QED
    BY <2>1, <2>2
<1>9. Copied'
  BY ReaderAssumption, SizeAssumption, EnvironmentAssumption DEF SenderCrash, Abandon, SectionSurvives, setup, reader, service, Copied, Processes, TypeOK, Calls
<1> QED
  BY <1>1, <1>2, <1>3, <1>4, <1>5, <1>6, <1>7, <1>8, <1>9

\* Service.exe starts with a new view of the section.
LEMMA StartServiceChannel ==
  ASSUME IInv, Processes, ServiceTypeOK, StartService
  PROVE  IInv'
<1> USE DEF IInv
<1>1. TypeOK'
  BY ReaderAssumption, SizeAssumption, EnvironmentAssumption DEF StartService, shared, writer, reader, history, TypeOK, Procs, Processes, Calls
<1>2. Calls'
  BY ReaderAssumption, SizeAssumption, EnvironmentAssumption DEF StartService, shared, writer, reader, history, Calls, Processes, TypeOK
<1>3. Owned'
  BY ReaderAssumption, SizeAssumption, EnvironmentAssumption DEF StartService, shared, writer, reader, history, Owned, Holds, Procs, Processes, TypeOK, Calls
<1>4. MutualExclusion'
  BY ReaderAssumption, SizeAssumption, EnvironmentAssumption DEF StartService, shared, writer, reader, history, MutualExclusion
<1>5. WritesStayInside'
  BY ReaderAssumption, SizeAssumption, EnvironmentAssumption DEF StartService, shared, writer, reader, history, WritesStayInside, OneWriter, Processes, TypeOK, Calls
<1>6. Checked'
  BY ReaderAssumption, SizeAssumption, EnvironmentAssumption DEF StartService, shared, writer, reader, history, Checked, OneWriter, Processes, TypeOK, Calls
<1>7. Alone'
  BY ReaderAssumption, SizeAssumption, EnvironmentAssumption DEF StartService, shared, writer, reader, history, Alone, Inside, WriterInside, ReaderInside, Procs, Processes, TypeOK, Calls
<1>8. Area'
  BY ReaderAssumption, SizeAssumption, EnvironmentAssumption DEF StartService, shared, writer, reader, history, Area, Processes, TypeOK, Calls
<1>9. Copied'
  BY ReaderAssumption, SizeAssumption, EnvironmentAssumption DEF StartService, shared, writer, reader, history, Copied, Processes, TypeOK, Calls
<1>10. Written'
  BY ReaderAssumption, SizeAssumption, EnvironmentAssumption DEF StartService, shared, writer, reader, history, Written, Processes, TypeOK, Calls
<1> QED
  BY <1>1, <1>2, <1>3, <1>4, <1>5, <1>6, <1>7, <1>8, <1>9, <1>10

\* A sender starts with a new view of the section.
LEMMA StartSenderChannel ==
  ASSUME IInv, Processes, ServiceTypeOK, NEW s \in Senders, StartSender(s)
  PROVE  IInv'
<1> USE DEF IInv
<1>1. TypeOK'
  BY ReaderAssumption, SizeAssumption, EnvironmentAssumption DEF StartSender, shared, writer, reader, history, TypeOK, Procs, Processes, Calls
<1>2. Calls'
  BY ReaderAssumption, SizeAssumption, EnvironmentAssumption DEF StartSender, shared, writer, reader, history, Calls, Processes, TypeOK
<1>3. Owned'
  BY ReaderAssumption, SizeAssumption, EnvironmentAssumption DEF StartSender, shared, writer, reader, history, Owned, Holds, Procs, Processes, TypeOK, Calls
<1>4. MutualExclusion'
  BY ReaderAssumption, SizeAssumption, EnvironmentAssumption DEF StartSender, shared, writer, reader, history, MutualExclusion
<1>5. WritesStayInside'
  BY ReaderAssumption, SizeAssumption, EnvironmentAssumption DEF StartSender, shared, writer, reader, history, WritesStayInside, OneWriter, Processes, TypeOK, Calls
<1>6. Checked'
  BY ReaderAssumption, SizeAssumption, EnvironmentAssumption DEF StartSender, shared, writer, reader, history, Checked, OneWriter, Processes, TypeOK, Calls
<1>7. Alone'
  BY ReaderAssumption, SizeAssumption, EnvironmentAssumption DEF StartSender, shared, writer, reader, history, Alone, Inside, WriterInside, ReaderInside, Procs, Processes, TypeOK, Calls
<1>8. Area'
  BY ReaderAssumption, SizeAssumption, EnvironmentAssumption DEF StartSender, shared, writer, reader, history, Area, Processes, TypeOK, Calls
<1>9. Copied'
  BY ReaderAssumption, SizeAssumption, EnvironmentAssumption DEF StartSender, shared, writer, reader, history, Copied, Processes, TypeOK, Calls
<1>10. Written'
  BY ReaderAssumption, SizeAssumption, EnvironmentAssumption DEF StartSender, shared, writer, reader, history, Written, Processes, TypeOK, Calls
<1> QED
  BY <1>1, <1>2, <1>3, <1>4, <1>5, <1>6, <1>7, <1>8, <1>9, <1>10

-----------------------------------------------------------------------------
(* What the steps of the channel change that the pipeline sees.              *)

\* A step of SendMsgToMmf.
LEMMA SendEffect ==
  ASSUME IInv, NEW s \in Senders, SenderStep(s)
  PROVE  /\ UNCHANGED <<rpc, taken>> /\ (~overlap' => ~overlap) /\ nsent <= nsent'
         /\ \A t \in Senders : t # s => wpc'[t] = wpc[t] /\ wmsg'[t] = wmsg[t]
         /\ wpc[s] = "store" => /\ unread' = unread \o BytesOf(wmsg[s])
                                /\ wpc'[s] = "release" /\ wmsg'[s] = wmsg[s]
         /\ wpc[s] # "store" =>
              /\ unread' = unread
              /\ \/ wpc'[s] = "idle"
                 \/ /\ wpc[s] = "idle" /\ nsent' = nsent + 1
                    /\ wmsg'[s].from = s /\ wmsg'[s].num = nsent + 1
                 \/ wpc[s] \notin {"idle", "release"} /\ wmsg'[s] = wmsg[s]
<1>1. ASSUME NEW e \in EventTypes, NEW d \in DataLens, SendMsgToMmf(s, e, d)
      PROVE  /\ wmsg'[s].from = s /\ wmsg'[s].num = nsent + 1 /\ wpc[s] = "idle" /\ nsent' = nsent + 1
             /\ UNCHANGED <<rpc, taken, unread, overlap>> /\ nsent <= nsent'
             /\ \A t \in Senders : t # s => wpc'[t] = wpc[t] /\ wmsg'[t] = wmsg[t]
  BY <1>1 DEF SendMsgToMmf, IInv, TypeOK, reader, history
<1>2. CASE SendMsgRejected(s)
  BY <1>2 DEF SendMsgRejected, IInv, TypeOK, reader, history
<1>3. CASE WriteWait(s)
  BY <1>3 DEF WriteWait, Enter, IInv, TypeOK, reader
<1>4. CASE WriteFail(s)
  BY <1>4 DEF WriteFail, WriteReturn, IInv, TypeOK, reader
<1>5. CASE WriteCheck(s)
  BY <1>5 DEF WriteCheck, IInv, TypeOK, reader, history
<1>6. CASE WriteAddr(s)
  BY <1>6 DEF WriteAddr, IInv, TypeOK, reader, history
<1>7. CASE WriteCopy(s)
  BY <1>7 DEF WriteCopy, IInv, TypeOK, reader
<1>8. CASE WriteLoad(s)
  BY <1>8 DEF WriteLoad, IInv, TypeOK, reader, history
<1>9. CASE WriteStore(s)
  BY <1>9 DEF WriteStore, IInv, TypeOK, reader
<1>10. CASE WriteRelease(s)
  BY <1>10 DEF WriteRelease, WriteReturn, IInv, TypeOK, reader
<1> QED
  BY <1>1, <1>2, <1>3, <1>4, <1>5, <1>6, <1>7, <1>8, <1>9, <1>10 DEF SenderStep

\* A step of ReadData.
LEMMA ReadEffect ==
  ASSUME IInv, ReadDataStep
  PROVE  /\ UNCHANGED <<wpc, wmsg, nsent>> /\ (~overlap' => ~overlap) /\ rpc # "got"
         /\ ~overlap =>
              \/ rpc = "zero" /\ rpc' = "release" /\ taken' = unread /\ unread' = <<>>
              \/ rpc = "check" /\ rpc' = "got" /\ taken' = <<>> /\ unread' = unread
              \/ rpc = "release" /\ rpc' = "got" /\ UNCHANGED <<unread, taken>>
              \/ /\ rpc \notin {"release", "got"} /\ rpc' \notin {"release", "got"}
                 /\ UNCHANGED <<unread, taken>>
<1>1. CASE ReadWait
  BY <1>1 DEF ReadWait, Enter, IInv, TypeOK, writer
<1>2. CASE ReadFail
  BY <1>2 DEF ReadFail, writer, history
<1>3. CASE ReadNoView
  BY <1>3 DEF ReadNoView, writer
<1>4. CASE ReadCheck
  BY <1>4 DEF ReadCheck, writer, history
<1>5. CASE ReadAlloc
  BY <1>5 DEF ReadAlloc, writer, history
<1>6. CASE ReadLen
  BY <1>6 DEF ReadLen, writer, history
<1>7. CASE ReadCopy
  BY <1>7 DEF ReadCopy, writer, history
<1>8. CASE ReadSize
  BY <1>8 DEF ReadSize, writer, history
<1>9. CASE ReadZero
  BY <1>9, BatchIsUnread DEF ReadZero, writer
<1>10. CASE ReadRelease
  BY <1>10 DEF ReadRelease, writer, history
<1> QED
  BY <1>1, <1>2, <1>3, <1>4, <1>5, <1>6, <1>7, <1>8, <1>9, <1>10 DEF ReadDataStep

\* The channel's invariant survives every step of the pipeline.
LEMMA ChannelKept ==
  ASSUME IInv, Processes, ServiceTypeOK, [ServiceNext]_allVars
  PROVE  IInv'
<1>1. ASSUME NEW s \in Senders, Send(s)
      PROVE  IInv'
  BY <1>1, StepInvariant DEF Send, Next
<1>2. CASE GetMessage
  BY <1>2, StepInvariant DEF GetMessage, Next
<1>3. CASE ParseDone \/ ParseThrows
  BY <1>3, StepInvariant DEF ParseDone, ParseThrows, Next
<1>4. ASSUME UNCHANGED vars
      PROVE  IInv'
  BY <1>4, StepInvariant
<1>5. ASSUME \/ ParseMessage \/ DispatchPoll \/ GetHead \/ DispatchMessageFun \/ DispatchReturn
             \/ UNCHANGED allVars
      PROVE  IInv'
  BY <1>4, <1>5 DEF ParseMessage, DispatchPoll, GetHead, DispatchMessageFun, DispatchReturn, allVars
<1>6. CASE ServiceCrash \/ DispatchNull
  BY <1>6, ServiceDiesChannel DEF ServiceCrash, DispatchNull
<1>7. ASSUME NEW s \in Senders, SenderCrash(s)
      PROVE  IInv'
  BY <1>7, SenderCrashChannel
<1>8. CASE StartService
  BY <1>8, StartServiceChannel
<1>9. ASSUME NEW s \in Senders, StartSender(s)
      PROVE  IInv'
  BY <1>9, StartSenderChannel
<1> QED
  BY <1>1, <1>2, <1>3, <1>5, <1>6, <1>7, <1>8, <1>9 DEF ServiceNext

-----------------------------------------------------------------------------
(* Whole messages.                                                           *)

\* The end of a sequence from place q on.
LEMMA Suffix ==
  ASSUME NEW T, NEW s \in Seq(T), NEW q \in 0..Len(s)
  PROVE  /\ SubSeq(s, q + 1, Len(s)) \in Seq(T)
         /\ Len(SubSeq(s, q + 1, Len(s))) = Len(s) - q
         /\ \A k \in 1..(Len(s) - q) : SubSeq(s, q + 1, Len(s))[k] = s[q + k]
OBVIOUS

\* A sequence that continues with b at place p.
LEMMA SplitSuffix ==
  ASSUME NEW T, NEW s \in Seq(T), NEW b \in Seq(T), NEW p \in Nat, NEW q \in Nat, q = p + Len(b),
         q <= Len(s), \A k \in 1..Len(b) : s[p + k] = b[k]
  PROVE  SubSeq(s, p + 1, Len(s)) = b \o SubSeq(s, q + 1, Len(s))
<1> DEFINE r == SubSeq(s, q + 1, Len(s))
           w == SubSeq(s, p + 1, Len(s))
<1>0. Len(s) \in Nat /\ Len(b) \in Nat /\ q \in 0..Len(s) /\ p \in 0..Len(s)
  OBVIOUS
<1>1. r \in Seq(T) /\ Len(r) = Len(s) - q /\ \A k \in 1..(Len(s) - q) : r[k] = s[q + k]
  BY <1>0, Suffix
<1>2. w \in Seq(T) /\ Len(w) = Len(s) - p /\ \A k \in 1..(Len(s) - p) : w[k] = s[p + k]
  BY <1>0, Suffix
<1> HIDE DEF r, w
<1>3. b \o r \in Seq(T) /\ Len(b \o r) = Len(b) + Len(r)
      /\ \A k \in 1..(Len(b) + Len(r)) : (b \o r)[k] = IF k <= Len(b) THEN b[k] ELSE r[k - Len(b)]
  BY <1>1
<1> DEFINE c == b \o r
<1> HIDE DEF c
<1>4. ASSUME NEW k \in 1..Len(w)
      PROVE  w[k] = c[k]
  <2>1. CASE k <= Len(b)
    <3>1. k \in 1..Len(b) /\ k \in 1..(Len(s) - p) /\ k \in 1..(Len(b) + Len(r))
      BY <1>0, <1>1, <1>2, <2>1
    <3> QED
      BY <1>2, <1>3, <2>1, <3>1 DEF c
  <2>2. CASE k > Len(b)
    <3>2. \A x, y, n \in Nat : /\ q = p + y /\ q <= x /\ n \in 1..(x - p) /\ n > y
                              => /\ n - y \in 1..(x - q) /\ q + (n - y) = p + n
                                 /\ n \in 1..(y + (x - q)) /\ ~(n <= y)
      OBVIOUS
    <3>3. k \in Nat /\ k \in 1..(Len(s) - p) /\ Len(r) = Len(s) - q
      BY <1>0, <1>1, <1>2
    <3>1. k - Len(b) \in 1..(Len(s) - q) /\ q + (k - Len(b)) = p + k /\ k \in 1..(Len(b) + Len(r)) /\ ~(k <= Len(b))
      BY <1>0, <2>2, <3>2, <3>3
    <3>4. c[k] = r[k - Len(b)]
      BY <1>3, <3>1 DEF c
    <3>5. r[k - Len(b)] = s[q + (k - Len(b))]
      BY <1>1, <3>1
    <3>6. w[k] = s[p + k]
      BY <1>2, <3>3
    <3> QED
      BY <3>1, <3>4, <3>5, <3>6
  <2> QED
    BY <1>0, <2>1, <2>2
<1>5. w = c
  <2>1. w \in Seq(T) /\ c \in Seq(T) /\ Len(w) = Len(c)
    BY <1>0, <1>1, <1>2, <1>3 DEF c
  <2> QED
    BY <1>4, <2>1
<1> QED
  BY <1>5 DEF w, c, r

\* A message is at least its header.
LEMMA HeaderFits ==
  ASSUME NEW m \in Messages
  PROVE  m.len \in Nat /\ HeaderLen <= m.len /\ m.len > 0
<1>1. PICK d \in DataLens : m.len = Add32(HeaderLen, d)
  BY DEF Messages
<1>2. d \in Nat /\ HeaderLen \in Nat \ {0} /\ HeaderLen + d < DwordMod
  BY <1>1, SizeAssumption
<1>3. m.len = HeaderLen + d
  BY <1>1, <1>2, Add32Exact
<1> QED
  BY <1>2, <1>3

\* Storing a message behind whole messages leaves whole messages.
LEMMA FramedConcat ==
  ASSUME NEW a \in Seq(Bytes), Framed(a), NEW m \in Messages
  PROVE  Framed(a \o BytesOf(m))
<1> DEFINE b == BytesOf(m)
           s == a \o b
<1>1. m.len \in Nat /\ m.len > 0 /\ b \in Seq(Bytes) /\ Len(b) = m.len
      /\ \A k \in 1..m.len : b[k] = [msg |-> m, off |-> k - 1]
  BY HeaderFits, BytesType DEF BytesOf
<1> HIDE DEF b
<1>2. /\ Len(a) \in Nat /\ Len(s) = Len(a) + m.len /\ s \in Seq(Bytes)
      /\ \A k \in 1..Len(a) : s[k] = a[k]
      /\ \A k \in 1..m.len : s[Len(a) + k] = [msg |-> m, off |-> k - 1]
  BY <1>1
<1> HIDE DEF s
<1> SUFFICES ASSUME NEW i \in 1..Len(s)
             PROVE  /\ s[i] \in Bytes /\ s[i].off < s[i].msg.len
                    /\ \A j \in 0..(s[i].msg.len - 1) :
                         /\ i - s[i].off + j \in 1..Len(s)
                         /\ s[i - s[i].off + j] = [msg |-> s[i].msg, off |-> j]
  BY DEF Framed, s, b
<1>3. CASE i \in 1..Len(a)
  <2>1. s[i] = a[i] /\ a[i] \in Bytes /\ a[i].off < a[i].msg.len
    BY <1>2, <1>3 DEF Framed
  <2>2. ASSUME NEW j \in 0..(a[i].msg.len - 1)
        PROVE  i - a[i].off + j \in 1..Len(s) /\ s[i - a[i].off + j] = [msg |-> a[i].msg, off |-> j]
    <3>1. i - a[i].off + j \in 1..Len(a) /\ a[i - a[i].off + j] = [msg |-> a[i].msg, off |-> j]
      BY <1>3, <2>2 DEF Framed
    <3> QED
      BY <1>1, <1>2, <3>1
  <2> QED
    BY <2>1, <2>2
<1>4. CASE i \notin 1..Len(a)
  <2>1. i - Len(a) \in 1..m.len /\ Len(a) + (i - Len(a)) = i
    BY <1>1, <1>2, <1>4
  <2>2. s[i] = [msg |-> m, off |-> i - Len(a) - 1]
    BY <1>2, <2>1
  <2>3. s[i].msg = m /\ s[i].off = i - Len(a) - 1 /\ s[i].off < m.len
    BY <1>1, <1>2, <2>1, <2>2
  <2>4. ASSUME NEW j \in 0..(m.len - 1)
        PROVE  i - s[i].off + j \in 1..Len(s) /\ s[i - s[i].off + j] = [msg |-> m, off |-> j]
    <3>1. i - s[i].off + j = Len(a) + (j + 1) /\ j + 1 \in 1..m.len /\ (j + 1) - 1 = j
      BY <1>1, <1>2, <2>3
    <3>2. Len(a) + (j + 1) \in 1..Len(s)
      BY <1>1, <1>2, <3>1
    <3>3. s[Len(a) + (j + 1)] = [msg |-> m, off |-> j]
      BY <1>2, <3>1
    <3> QED
      BY <3>1, <3>2, <3>3
  <2>5. s[i] \in Bytes
    BY <1>2
  <2> QED
    BY <2>3, <2>4, <2>5
<1> QED
  BY <1>3, <1>4

\* Whole messages begin with the first byte of one.
LEMMA FramedFirst ==
  ASSUME NEW s \in Seq(Octets), Framed(s), Len(s) > 0
  PROVE  s[1].off = 0
<1>1. 1 \in 1..Len(s)
  OBVIOUS
<1>2. s[1] \in Bytes /\ s[1].off < s[1].msg.len
  BY <1>1 DEF Framed
<1>3. s[1].off \in Nat /\ s[1].msg.len \in Nat /\ s[1].msg.len > 0
  BY <1>2, HeaderFits DEF Bytes
<1>4. 0 \in 0..(s[1].msg.len - 1)
  BY <1>3
<1>5. 1 - s[1].off + 0 \in 1..Len(s)
  BY <1>1, <1>4 DEF Framed
<1> QED
  BY <1>3, <1>5

\* From the first byte of a message the bytes are that message, up to the first byte
\* of the next one or the end.
LEMMA FramedRun ==
  ASSUME NEW s \in Seq(Octets), Framed(s), NEW p \in Nat, p < Len(s), s[p + 1].off = 0,
         NEW m, m = s[p + 1].msg
  PROVE  /\ m \in Messages /\ s[p + 1] \in Bytes
         /\ p + m.len <= Len(s)
         /\ \A k \in 1..m.len : s[p + k] = BytesOf(m)[k]
         /\ p + m.len < Len(s) => s[p + m.len + 1].off = 0
<1>1. p + 1 \in 1..Len(s) /\ Len(s) \in Nat
  OBVIOUS
<1>2. s[p + 1] \in Bytes /\ m \in Messages
  BY <1>1 DEF Framed, Bytes
<1>3. m.len \in Nat /\ m.len > 0
  BY <1>2, HeaderFits
<1>4. \A j \in 0..(m.len - 1) : (p + 1) - 0 + j \in 1..Len(s)
                                /\ s[(p + 1) - 0 + j] = [msg |-> m, off |-> j]
  BY <1>1 DEF Framed
<1>5. ASSUME NEW k \in 1..m.len
      PROVE  p + k \in 1..Len(s) /\ s[p + k] = [msg |-> m, off |-> k - 1]
  <2>1. k - 1 \in 0..(m.len - 1) /\ (p + 1) - 0 + (k - 1) = p + k
    BY <1>3
  <2> QED
    BY <1>4, <2>1
<1>6. p + m.len <= Len(s) /\ s[p + m.len] = [msg |-> m, off |-> m.len - 1]
  BY <1>3, <1>5
<1>7. ASSUME p + m.len < Len(s)
      PROVE  s[p + m.len + 1].off = 0
  <2>0. PICK i : i = p + m.len + 1
    OBVIOUS
  <2> DEFINE b == s[i]
  <2>1. i \in 1..Len(s)
    BY <1>1, <1>3, <1>7, <2>0
  <2>2. /\ b \in Bytes /\ b.off < b.msg.len
        /\ \A j \in 0..(b.msg.len - 1) : s[i - b.off + j] = [msg |-> b.msg, off |-> j]
    BY <2>1 DEF Framed
  <2>3. b.off \in Nat /\ b.msg.len \in Nat
    BY <2>2, HeaderFits DEF Bytes
  <2> SUFFICES ASSUME b.off # 0
               PROVE  FALSE
    BY <2>0, <2>3
  <2> HIDE DEF b
  <2>7. \A o, l, n \in Nat : o # 0 /\ o < l /\ i = p + n + 1 =>
                             o - 1 \in 0..(l - 1) /\ i - o + (o - 1) = p + n
    OBVIOUS
  <2>4. b.off - 1 \in 0..(b.msg.len - 1) /\ i - b.off + (b.off - 1) = p + m.len
    BY <1>3, <2>0, <2>2, <2>3, <2>7
  <2>5. s[p + m.len] = [msg |-> b.msg, off |-> b.off - 1]
    BY <2>2, <2>4
  <2>6. b.msg = m /\ b.off - 1 = m.len - 1
    BY <1>6, <2>5
  <2> QED
    BY <1>3, <2>2, <2>3, <2>6
<1> QED
  BY <1>2, <1>5, <1>6, <1>7 DEF BytesOf

\* What the parser has not reached yet: the message at the position, then the rest.
LEMMA RestOfBatch ==
  ASSUME NEW s \in Seq(Octets), Framed(s), NEW p \in Nat, p < Len(s), s[p + 1].off = 0,
         NEW m, m = s[p + 1].msg
  PROVE  MessagesIn(SubSeq(s, p + 1, Len(s))) = <<m>> \o MessagesIn(SubSeq(s, p + m.len + 1, Len(s)))
<1> DEFINE b == BytesOf(m)
<1>0. PICK q : q = p + m.len
  OBVIOUS
<1> DEFINE r == SubSeq(s, q + 1, Len(s))
<1>1. m \in Messages /\ p + m.len <= Len(s) /\ \A k \in 1..m.len : s[p + k] = b[k]
  BY FramedRun
<1>2. m.len \in Nat /\ b \in Seq(Octets) /\ Len(b) = m.len
  BY <1>1, HeaderFits, BytesType DEF Octets
<1> HIDE DEF b
<1>3. q \in Nat /\ q = p + Len(b) /\ q <= Len(s) /\ q \in 0..Len(s)
  BY <1>0, <1>1, <1>2
<1>8. \A k \in 1..Len(b) : s[p + k] = b[k]
  BY <1>1, <1>2
<1>4. SubSeq(s, p + 1, Len(s)) = b \o r
  BY <1>2, <1>3, <1>8, SplitSuffix
<1>5. r \in Seq(Octets)
  BY <1>3, Suffix
<1> HIDE DEF r
<1>6. MessagesIn(b \o r) = MessagesIn(b) \o MessagesIn(r)
  BY <1>2, <1>5, MessagesInConcat
<1>7. MessagesIn(b) = <<m>>
  BY <1>1, MessagesInBytesOf DEF b
<1> QED
  BY <1>0, <1>4, <1>6, <1>7 DEF r

\* A whole batch, and a batch that is done.
LEMMA RestEnds ==
  ASSUME NEW s \in Seq(Octets)
  PROVE  /\ SubSeq(s, 0 + 1, Len(s)) = s
         /\ MessagesIn(SubSeq(s, Len(s) + 1, Len(s))) = <<>>
<1>1. SubSeq(s, 0 + 1, Len(s)) = s
  OBVIOUS
<1>2. SubSeq(s, Len(s) + 1, Len(s)) = <<>>
  OBVIOUS
<1> QED
  BY <1>1, <1>2, MessagesInEmpty

-----------------------------------------------------------------------------
(* What a death takes out of the ledger.                                     *)

\* Keep keeps messages.
LEMMA KeepType ==
  ASSUME NEW seq \in Seq(Messages), NEW gone
  PROVE  Keep(seq, gone) \in Seq(Messages)
<1> DEFINE f == [m \in {n \in Messages : \A i \in 1..Len(gone) : gone[i] # n} |-> m]
<1>1. \A x \in DOMAIN f : f[x] \in Messages
  OBVIOUS
<1> HIDE DEF f
<1>2. Collect(seq, f) \in Seq(Messages)
  BY <1>1, CollectType
<1> QED
  BY <1>2 DEF Keep, f

\* Keep distributes over concatenation ...
LEMMA KeepConcat ==
  ASSUME NEW gone \in Seq(Messages), NEW a \in Seq(Messages), NEW b \in Seq(Messages)
  PROVE  Keep(a \o b, gone) = Keep(a, gone) \o Keep(b, gone)
<1> DEFINE f == [m \in {n \in Messages : \A i \in 1..Len(gone) : gone[i] # n} |-> m]
<1> HIDE DEF f
<1>1. Collect(a \o b, f) = Collect(a, f) \o Collect(b, f)
  BY CollectConcat
<1> QED
  BY <1>1 DEF Keep, f

\* ... keeps what has nothing to do with the gone ...
LEMMA KeepAll ==
  ASSUME NEW a \in Seq(Messages), NEW gone,
         \A i \in 1..Len(a), j \in 1..Len(gone) : a[i] # gone[j]
  PROVE  Keep(a, gone) = a
<1> DEFINE f == [m \in {n \in Messages : \A i \in 1..Len(gone) : gone[i] # n} |-> m]
<1>1. \A x \in DOMAIN f : f[x] = x
  OBVIOUS
<1>2. \A i \in 1..Len(a) : a[i] \in DOMAIN f
  OBVIOUS
<1> HIDE DEF f
<1>3. Collect(a, f) = a
  BY <1>1, <1>2, CollectAll
<1> QED
  BY <1>3 DEF Keep, f

\* ... and nothing of the gone.
LEMMA KeepNone ==
  ASSUME NEW a \in Seq(Messages), NEW gone,
         \A i \in 1..Len(a) : \E j \in 1..Len(gone) : a[i] = gone[j]
  PROVE  Keep(a, gone) = <<>>
<1> DEFINE f == [m \in {n \in Messages : \A i \in 1..Len(gone) : gone[i] # n} |-> m]
<1>1. \A i \in 1..Len(a) : a[i] \notin DOMAIN f
  OBVIOUS
<1> HIDE DEF f
<1>2. Collect(a, f) = <<>>
  BY <1>1, CollectNone
<1> QED
  BY <1>2 DEF Keep, f

\* The two parts of a sequence without repetitions have none, and nothing in common.
LEMMA NoRepeatsConcat ==
  ASSUME NEW T, NEW a \in Seq(T), NEW b \in Seq(T), NoRepeats(a \o b)
  PROVE  /\ NoRepeats(a) /\ NoRepeats(b)
         /\ \A i \in 1..Len(a), j \in 1..Len(b) : a[i] # b[j]
<1> DEFINE c == a \o b
<1>1. /\ Len(a) \in Nat /\ Len(b) \in Nat /\ Len(c) = Len(a) + Len(b)
      /\ \A i \in 1..Len(a) : c[i] = a[i]
      /\ \A j \in 1..Len(b) : c[Len(a) + j] = b[j]
  OBVIOUS
<1> HIDE DEF c
<1>2. \A i, j \in 1..Len(c) : c[i] = c[j] => i = j
  BY DEF NoRepeats, c
<1>3. NoRepeats(a)
  BY <1>1, <1>2 DEF NoRepeats
<1>4. ASSUME NEW i \in 1..Len(b), NEW j \in 1..Len(b), b[i] = b[j]
      PROVE  i = j
  <2>1. Len(a) + i \in 1..Len(c) /\ Len(a) + j \in 1..Len(c)
    BY <1>1
  <2>2. Len(a) + i = Len(a) + j
    BY <1>1, <1>2, <1>4, <2>1
  <2> QED
    BY <1>1, <2>2
<1>5. ASSUME NEW i \in 1..Len(a), NEW j \in 1..Len(b), a[i] = b[j]
      PROVE  FALSE
  <2>1. i \in 1..Len(c) /\ Len(a) + j \in 1..Len(c) /\ i # Len(a) + j
    BY <1>1
  <2> QED
    BY <1>1, <1>2, <1>5, <2>1
<1> QED
  BY <1>3, <1>4, <1>5 DEF NoRepeats

\* Parts without repetitions and with nothing in common make a whole without them.
LEMMA ConcatNoRepeats ==
  ASSUME NEW T, NEW a \in Seq(T), NEW b \in Seq(T), NoRepeats(a), NoRepeats(b),
         \A i \in 1..Len(a), j \in 1..Len(b) : a[i] # b[j]
  PROVE  NoRepeats(a \o b)
<1> DEFINE c == a \o b
<1>1. /\ Len(a) \in Nat /\ Len(b) \in Nat /\ Len(c) = Len(a) + Len(b)
      /\ \A i \in 1..Len(a) : c[i] = a[i]
      /\ \A i \in 1..Len(c) : i \notin 1..Len(a) => i - Len(a) \in 1..Len(b) /\ c[i] = b[i - Len(a)]
  OBVIOUS
<1> HIDE DEF c
<1>2. ASSUME NEW i \in 1..Len(c), NEW j \in 1..Len(c), c[i] = c[j]
      PROVE  i = j
  <2>1. CASE i \in 1..Len(a) /\ j \in 1..Len(a)
    BY <1>1, <1>2, <2>1 DEF NoRepeats
  <2>2. CASE i \in 1..Len(a) /\ j \notin 1..Len(a)
    BY <1>1, <1>2, <2>2
  <2>3. CASE i \notin 1..Len(a) /\ j \in 1..Len(a)
    <3>1. i - Len(a) \in 1..Len(b) /\ c[i] = b[i - Len(a)] /\ c[j] = a[j]
      BY <1>1, <2>3
    <3> QED
      BY <1>2, <2>3, <3>1
  <2>4. CASE i \notin 1..Len(a) /\ j \notin 1..Len(a)
    <3>1. i - Len(a) \in 1..Len(b) /\ j - Len(a) \in 1..Len(b) /\ b[i - Len(a)] = b[j - Len(a)]
      BY <1>1, <1>2, <2>4
    <3>2. i - Len(a) = j - Len(a)
      BY <3>1 DEF NoRepeats
    <3> QED
      BY <1>1, <3>2
  <2> QED
    BY <2>1, <2>2, <2>3, <2>4
<1> QED
  BY <1>2 DEF NoRepeats, c

\* Of three parts without repetitions Keep takes out exactly the gone.
LEMMA KeepParts ==
  ASSUME NEW h \in Seq(Messages), NEW g \in Seq(Messages), NEW u \in Seq(Messages)
  PROVE  NoRepeats((h \o g) \o u) =>
           /\ Keep((h \o g) \o u, g \o <<>>) = h \o u /\ NoRepeats(h \o u)
           /\ Keep((h \o g) \o u, g \o u) = h /\ NoRepeats(h)
           /\ Keep((h \o g) \o u, u) = h \o g /\ NoRepeats(h \o g)
<1>1. PICK x \in Seq(Messages) : x = h \o g
  <2>1. h \o g \in Seq(Messages)
    OBVIOUS
  <2> QED
    BY <2>1
<1>0. ASSUME NEW gone \in Seq(Messages)
      PROVE  Keep(x \o u, gone) = (Keep(h, gone) \o Keep(g, gone)) \o Keep(u, gone)
  <2>1. Keep(x \o u, gone) = Keep(x, gone) \o Keep(u, gone)
    BY KeepConcat, Zenon
  <2>2. Keep(h \o g, gone) = Keep(h, gone) \o Keep(g, gone)
    BY KeepConcat, Zenon
  <2> QED
    BY <1>1, <2>1, <2>2
<1> HAVE NoRepeats((h \o g) \o u)
<1>2. /\ NoRepeats(x) /\ NoRepeats(u)
      /\ \A i \in 1..Len(x), j \in 1..Len(u) : x[i] # u[j]
  <2>1. NoRepeats(x \o u)
    BY <1>1
  <2> QED
    BY <2>1, NoRepeatsConcat
<1>3. /\ NoRepeats(h) /\ NoRepeats(g)
      /\ \A i \in 1..Len(h), j \in 1..Len(g) : h[i] # g[j]
  BY <1>1, <1>2, NoRepeatsConcat
<1>4. /\ \A i \in 1..Len(h) : i \in 1..Len(x) /\ x[i] = h[i]
      /\ \A i \in 1..Len(g) : Len(h) + i \in 1..Len(x) /\ x[Len(h) + i] = g[i]
  BY <1>1
<1>5. \A i \in 1..Len(h), j \in 1..Len(u) : h[i] # u[j]
  BY <1>2, <1>4
<1>6. \A i \in 1..Len(g), j \in 1..Len(u) : g[i] # u[j]
  BY <1>2, <1>4
<1>7. \A y \in Seq(Messages) : <<>> \o y = y /\ y \o <<>> = y
  OBVIOUS
<1>8. NoRepeats(h \o u)
  BY <1>2, <1>3, <1>5, ConcatNoRepeats
<1>10. Keep(x \o u, g) = h \o u
  <2>1. Keep(h, g) = h
    BY <1>3, KeepAll
  <2>2. Keep(g, g) = <<>>
    BY KeepNone
  <2>3. Keep(u, g) = u
    <3>1. \A i \in 1..Len(u), j \in 1..Len(g) : u[i] # g[j]
      BY <1>6
    <3> QED
      BY <3>1, KeepAll
  <2> QED
    BY <1>7, <1>0, <2>1, <2>2, <2>3
<1>11. Keep(x \o u, u) = x
  <2>1. Keep(h, u) = h
    BY <1>5, KeepAll
  <2>2. Keep(u, u) = <<>>
    BY KeepNone
  <2>3. Keep(g, u) = g
    BY <1>6, KeepAll
  <2> QED
    BY <1>1, <1>7, <1>0, <2>1, <2>2, <2>3
<1>12. Keep(x \o u, g \o u) = h
  <2>1. PICK z \in Seq(Messages) : z = g \o u
    <3>1. g \o u \in Seq(Messages)
      OBVIOUS
    <3> QED
      BY <3>1
  <2>2. /\ \A i \in 1..Len(g) : i \in 1..Len(z) /\ z[i] = g[i]
        /\ \A i \in 1..Len(u) : Len(g) + i \in 1..Len(z) /\ z[Len(g) + i] = u[i]
        /\ \A j \in 1..Len(z) : (\E i \in 1..Len(g) : z[j] = g[i]) \/ (\E i \in 1..Len(u) : z[j] = u[i])
    <3>1. Len(g) \in Nat /\ Len(u) \in Nat /\ Len(z) = Len(g) + Len(u)
      BY <2>1
    <3>2. /\ \A i \in 1..Len(g) : i \in 1..Len(z) /\ z[i] = g[i]
          /\ \A i \in 1..Len(u) : Len(g) + i \in 1..Len(z) /\ z[Len(g) + i] = u[i]
      BY <2>1, <3>1
    <3>3. ASSUME NEW j \in 1..Len(z), j \notin 1..Len(g)
          PROVE  \E i \in 1..Len(u) : z[j] = u[i]
      <4>1. j - Len(g) \in 1..Len(u) /\ Len(g) + (j - Len(g)) = j
        BY <3>1, <3>3
      <4> QED
        BY <3>2, <4>1
    <3> QED
      BY <3>2, <3>3
  <2>3. Keep(h, z) = h
    <3>1. \A i \in 1..Len(h), j \in 1..Len(z) : h[i] # z[j]
      <4> SUFFICES ASSUME NEW i \in 1..Len(h), NEW j \in 1..Len(z)
                   PROVE  h[i] # z[j]
        OBVIOUS
      <4>1. CASE \E k \in 1..Len(g) : z[j] = g[k]
        BY <1>3, <4>1
      <4>2. CASE \E k \in 1..Len(u) : z[j] = u[k]
        BY <1>5, <4>2
      <4> QED
        BY <2>2, <4>1, <4>2
    <3> QED
      BY <3>1, KeepAll
  <2>4. Keep(g, z) = <<>>
    <3>1. \A i \in 1..Len(g) : \E j \in 1..Len(z) : g[i] = z[j]
      BY <2>2
    <3> QED
      BY <3>1, KeepNone
  <2>5. Keep(u, z) = <<>>
    <3>1. \A i \in 1..Len(u) : \E j \in 1..Len(z) : u[i] = z[j]
      BY <2>2
    <3> QED
      BY <3>1, KeepNone
  <2>6. Keep(x \o u, z) = (h \o <<>>) \o <<>>
    BY <1>0, <2>3, <2>4, <2>5
  <2>7. (h \o <<>>) \o <<>> = h
    BY <1>7
  <2> QED
    BY <2>1, <2>6, <2>7
<1> QED
  BY <1>1, <1>2, <1>3, <1>7, <1>8, <1>10, <1>11, <1>12

-----------------------------------------------------------------------------
(* The parts are preserved by every step of the pipeline.                    *)

\* Once two accesses have overlapped, they have.
LEMMA OverlapStays ==
  ASSUME IInv, [ServiceNext]_allVars, ~overlap'
  PROVE  ~overlap
<1>1. ASSUME NEW s \in Senders, Send(s)
      PROVE  ~overlap
  BY <1>1, SendEffect DEF Send
<1>2. CASE GetMessage
  BY <1>2, ReadEffect DEF GetMessage
<1>3. CASE ParseDone \/ ParseThrows
  BY <1>3 DEF ParseDone, ParseThrows, ReadAgain, history
<1>4. CASE \/ ParseMessage \/ DispatchPoll \/ GetHead \/ DispatchMessageFun \/ DispatchReturn
           \/ UNCHANGED allVars
  BY <1>4 DEF ParseMessage, DispatchPoll, GetHead, DispatchMessageFun, DispatchReturn, allVars,
     vars, history
<1>5. CASE ServiceCrash \/ DispatchNull
  BY <1>5 DEF ServiceCrash, DispatchNull, ServiceDies
<1>6. ASSUME NEW s \in Senders, SenderCrash(s) \/ StartSender(s)
      PROVE  ~overlap
  BY <1>6 DEF SenderCrash, StartSender, history
<1>7. CASE StartService
  BY <1>7 DEF StartService, history
<1> QED
  BY <1>1, <1>2, <1>3, <1>4, <1>5, <1>6, <1>7 DEF ServiceNext

\* Where the threads are when their processes are down.
LEMMA ProcessesKept ==
  ASSUME IInv, Processes, ServiceTypeOK, [ServiceNext]_allVars
  PROVE  Processes'
<1>1. ASSUME NEW s \in Senders, Send(s)
      PROVE  Processes'
  <2>1. UNCHANGED <<rpc, alive, up, pos, dpc, doing, queue>>
    BY <1>1, SendEffect DEF Send, service
  <2>2. alive[s] /\ \A t \in Senders : t # s => wpc'[t] = wpc[t]
    BY <1>1, SendEffect DEF Send
  <2> QED
    BY <2>1, <2>2 DEF Processes
<1>2. CASE GetMessage
  <2>1. UNCHANGED <<wpc, alive, up, pos, dpc, doing, queue>> /\ up /\ rpc # "got"
    BY <1>2, ReadEffect DEF GetMessage, Runs, service
  <2> QED
    BY <2>1 DEF Processes
<1>3. CASE ParseDone \/ ParseThrows
  BY <1>3 DEF ParseDone, ParseThrows, ReadAgain, Processes, writer
<1>4. CASE ParseMessage
  <2>1. queue' # <<>>
    BY <1>4 DEF ParseMessage, ServiceTypeOK
  <2> QED
    BY <1>4, <2>1 DEF ParseMessage, Processes, vars, writer, reader
<1>5. CASE DispatchPoll
  BY <1>5 DEF DispatchPoll, Processes, vars, writer, reader, ServiceTypeOK
<1>6. CASE GetHead
  <2>1. Head(queue) \in Messages \cup {Garbage}
    BY <1>6 DEF GetHead, Processes, ServiceTypeOK
  <2> QED
    BY <1>6, <2>1 DEF GetHead, Processes, vars, writer, reader
<1>7. CASE DispatchMessageFun
  BY <1>7 DEF DispatchMessageFun, Processes, vars, writer, reader
<1>8. CASE DispatchReturn
  BY <1>8 DEF DispatchReturn, Processes, vars, writer, reader
<1>9. CASE ServiceCrash \/ DispatchNull
  BY <1>9 DEF ServiceCrash, DispatchNull, ServiceDies, Processes, writer
<1>10. ASSUME NEW s \in Senders, SenderCrash(s)
       PROVE  Processes'
  BY <1>10 DEF SenderCrash, Processes, ServiceTypeOK, TypeOK, reader, service
<1>11. ASSUME NEW s \in Senders, StartSender(s)
       PROVE  Processes'
  BY <1>11 DEF StartSender, Processes, ServiceTypeOK, TypeOK, writer, reader, service
<1>12. CASE StartService
  BY <1>12 DEF StartService, Processes, writer, reader
<1>13. CASE UNCHANGED allVars
  BY <1>13 DEF allVars, vars, writer, reader, service, Processes
<1> QED
  BY <1>1, <1>2, <1>3, <1>4, <1>5, <1>6, <1>7, <1>8, <1>9, <1>10, <1>11, <1>12, <1>13 DEF ServiceNext

\* The byte at the parser's position.
LEMMA ByteAtPosition ==
  ASSUME ServiceTypeOK, pos + HeaderLen <= Len(taken)
  PROVE  /\ pos + 1 \in 1..Len(taken) /\ pos < Len(taken)
         /\ taken[pos + 1] # NoByte => taken[pos + 1] \in Bytes /\ taken[pos + 1].msg \in Messages
<1>1. pos \in Nat /\ HeaderLen \in Nat \ {0} /\ taken \in Seq(Bytes \cup {NoByte})
  BY SizeAssumption DEF ServiceTypeOK, TypeOK
<1>2. pos + 1 \in 1..Len(taken) /\ pos < Len(taken)
  BY <1>1
<1>3. taken[pos + 1] \in Bytes \cup {NoByte}
  BY <1>1, <1>2
<1> QED
  BY <1>2, <1>3 DEF Bytes

\* Types.
LEMMA TypesKept ==
  ASSUME IInv, Processes, ServiceTypeOK, [ServiceNext]_allVars
  PROVE  ServiceTypeOK'
<1>0. TypeOK'
  BY ChannelKept DEF IInv
<1>1. ASSUME NEW s \in Senders, Send(s)
      PROVE  ServiceTypeOK'
  <2>1. ledger' \in Seq(Messages)
    <3>1. wpc[s] = "store" => wmsg[s] \in Messages
      BY DEF IInv, Calls
    <3> QED
      BY <1>1, <3>1 DEF Send, ServiceTypeOK
  <2> QED
    BY <1>0, <1>1, <2>1 DEF Send, ServiceTypeOK, service
<1>2. CASE GetMessage
  BY <1>0, <1>2 DEF GetMessage, ServiceTypeOK, service
<1>3. CASE ParseDone
  BY <1>0, <1>3 DEF ParseDone, ServiceTypeOK
<1>14. CASE ParseThrows
  <2>1. ledger' \in Seq(Messages)
    BY <1>14, KeepType DEF ParseThrows, ServiceTypeOK
  <2> QED
    BY <1>0, <1>14, <2>1 DEF ParseThrows, ServiceTypeOK
<1>4. CASE ParseMessage
  <2> DEFINE b == taken[pos + 1]
  <2>1. b # NoByte => b.msg \in Messages /\ b.msg.len \in Nat
    BY <1>4, ByteAtPosition, HeaderFits DEF ParseMessage
  <2>2. pos \in Nat /\ HeaderLen \in Nat /\ \A d \in DataLens : d \in Nat
    BY SizeAssumption DEF ServiceTypeOK
  <2>3. pos' \in Nat
    <3>1. CASE b # NoByte /\ b.off = 0
      <4>1. pos' = pos + b.msg.len
        BY <1>4, <3>1 DEF ParseMessage
      <4> QED
        BY <2>1, <2>2, <3>1, <4>1
    <3>2. CASE ~(b # NoByte /\ b.off = 0)
      BY <1>4, <2>2, <3>2 DEF ParseMessage
    <3> QED
      BY <3>1, <3>2
  <2>4. queue' \in Seq(Messages \cup {Garbage})
    <3>1. PICK m \in Messages \cup {Garbage} : queue' = Append(queue, m)
      BY <1>4, <2>1 DEF ParseMessage
    <3>2. queue \in Seq(Messages \cup {Garbage})
      BY DEF ServiceTypeOK
    <3> QED
      BY <3>1, <3>2
  <2> QED
    BY <1>0, <1>4, <2>3, <2>4 DEF ParseMessage, ServiceTypeOK
<1>5. CASE DispatchPoll
  BY <1>0, <1>5 DEF DispatchPoll, ServiceTypeOK
<1>6. CASE GetHead
  <2>1. queue # <<>> /\ queue \in Seq(Messages \cup {Garbage})
    BY <1>6 DEF GetHead, Processes, ServiceTypeOK
  <2>2. doing' \in Messages \cup {Garbage} /\ queue' \in Seq(Messages \cup {Garbage})
    BY <1>6, <2>1 DEF GetHead
  <2> QED
    BY <1>0, <1>6, <2>2 DEF GetHead, ServiceTypeOK
<1>7. CASE DispatchMessageFun
  <2>1. handled' \in Seq(Messages \cup {Garbage})
    <3>1. doing \in Messages \cup {Garbage} /\ handled \in Seq(Messages \cup {Garbage})
      BY <1>7 DEF DispatchMessageFun, ServiceTypeOK, Processes
    <3> QED
      BY <1>7, <3>1 DEF DispatchMessageFun
  <2> QED
    BY <1>0, <1>7, <2>1 DEF DispatchMessageFun, ServiceTypeOK
<1>8. CASE DispatchReturn
  BY <1>0, <1>8 DEF DispatchReturn, ServiceTypeOK
<1>9. CASE ServiceCrash \/ DispatchNull
  <2>1. ledger' \in Seq(Messages)
    BY <1>9, KeepType DEF ServiceCrash, DispatchNull, ServiceDies, ServiceTypeOK
  <2>2. crashes' \in 0..MaxCrash
    BY <1>9, PipelineAssumption DEF ServiceCrash, DispatchNull, ServiceTypeOK
  <2>3. ServiceDies
    BY <1>9 DEF ServiceCrash, DispatchNull
  <2>4. queue' = <<>> /\ queue' \in Seq(Messages \cup {Garbage})
    BY <2>3 DEF ServiceDies
  <2> QED
    BY <1>0, <2>1, <2>2, <2>3, <2>4 DEF ServiceDies, ServiceTypeOK
<1>10. ASSUME NEW s \in Senders, SenderCrash(s)
       PROVE  ServiceTypeOK'
  <2>1. ledger' \in Seq(Messages)
    BY <1>10, KeepType DEF SenderCrash, ServiceTypeOK
  <2>2. crashes' \in 0..MaxCrash
    BY <1>10, PipelineAssumption DEF SenderCrash, ServiceTypeOK
  <2> QED
    BY <1>0, <1>10, <2>1, <2>2 DEF SenderCrash, ServiceTypeOK, service
<1>11. ASSUME NEW s \in Senders, StartSender(s)
       PROVE  ServiceTypeOK'
  BY <1>0, <1>11 DEF StartSender, ServiceTypeOK, service
<1>12. CASE StartService
  BY <1>0, <1>12, PipelineAssumption DEF StartService, ServiceTypeOK
<1>13. CASE UNCHANGED allVars
  BY <1>0, <1>13 DEF allVars, service, ServiceTypeOK
<1> QED
  BY <1>1, <1>2, <1>3, <1>4, <1>5, <1>6, <1>7, <1>8, <1>9, <1>10, <1>11, <1>12, <1>13, <1>14 DEF ServiceNext

\* Until two accesses overlap, GetMessageThread finds a whole message at its position
\* and moves behind it.
LEMMA ParsedMessage ==
  ASSUME ServiceTypeOK, Frames, ~overlap, ParseMessage
  PROVE  \E m \in Messages :
           /\ queue' = Append(queue, m) /\ pos' = pos + m.len /\ pos + m.len <= Len(taken)
           /\ pos + m.len < Len(taken) => taken[pos + m.len + 1].off = 0
           /\ MessagesIn(SubSeq(taken, pos + 1, Len(taken)))
                = <<m>> \o MessagesIn(SubSeq(taken, pos + m.len + 1, Len(taken)))
<1>1. rpc = "got" /\ pos + HeaderLen <= Len(taken)
  BY DEF ParseMessage
<1>2. pos < Len(taken) /\ pos \in Nat /\ taken \in Seq(Octets)
  BY <1>1, ByteAtPosition DEF ServiceTypeOK, TypeOK, Octets
<1>3. PICK m : m = taken[pos + 1].msg
  OBVIOUS
<1>4. taken[pos + 1].off = 0 /\ Framed(taken)
  BY <1>1, <1>2 DEF Frames
<1>5. /\ taken[pos + 1] \in Bytes /\ m \in Messages /\ pos + m.len <= Len(taken)
      /\ pos + m.len < Len(taken) => taken[pos + m.len + 1].off = 0
  BY <1>2, <1>3, <1>4, FramedRun
<1>6. taken[pos + 1] # NoByte
  BY <1>5, PipelineAssumption DEF NoByte
<1>7. queue' = Append(queue, m) /\ pos' = pos + m.len
  BY <1>3, <1>4, <1>6 DEF ParseMessage
<1>8. MessagesIn(SubSeq(taken, pos + 1, Len(taken)))
        = <<m>> \o MessagesIn(SubSeq(taken, pos + m.len + 1, Len(taken)))
  BY <1>2, <1>3, <1>4, RestOfBatch
<1> QED
  BY <1>5, <1>7, <1>8

\* Whole messages in the section and in the batch.
LEMMA FramesKept ==
  ASSUME IInv, Processes, ServiceTypeOK, Frames, [ServiceNext]_allVars
  PROVE  Frames'
<1> SUFFICES ASSUME ~overlap'
             PROVE  /\ Framed(unread')
                    /\ rpc' \in {"release", "got"} => Framed(taken')
                    /\ rpc' = "got" => pos' <= Len(taken')
                    /\ rpc' = "got" /\ pos' < Len(taken') => taken'[pos' + 1].off = 0
  BY DEF Frames
<1>0. ~overlap /\ Framed(unread) /\ (rpc \in {"release", "got"} => Framed(taken))
      /\ (rpc = "got" => pos <= Len(taken))
      /\ (rpc = "got" /\ pos < Len(taken) => taken[pos + 1].off = 0)
  BY OverlapStays DEF Frames
<1>a. taken \in Seq(Octets) /\ unread \in Seq(Bytes) /\ unread \in Seq(Octets) /\ pos \in Nat
  BY DEF ServiceTypeOK, TypeOK, Octets
<1>b. Framed(<<>>)
  BY DEF Framed
<1>c. ASSUME NEW s \in Seq(Octets), Framed(s)
      PROVE  0 <= Len(s) /\ (0 < Len(s) => s[0 + 1].off = 0)
  BY <1>c, FramedFirst
<1>d. ASSUME Framed(unread'), UNCHANGED <<rpc, taken, pos>>
      PROVE  /\ rpc' \in {"release", "got"} => Framed(taken')
             /\ rpc' = "got" => pos' <= Len(taken')
             /\ rpc' = "got" /\ pos' < Len(taken') => taken'[pos' + 1].off = 0
  BY <1>0, <1>d
<1>1. ASSUME NEW s \in Senders, Send(s)
      PROVE  Framed(unread') /\ UNCHANGED <<rpc, taken, pos>>
  <2>1. CASE wpc[s] = "store"
    <3>1. wmsg[s] \in Messages /\ unread' = unread \o BytesOf(wmsg[s])
      BY <1>1, <2>1, SendEffect DEF Send, IInv, Calls
    <3> QED
      BY <1>0, <1>1, <1>a, <3>1, SendEffect, FramedConcat DEF Send, service
  <2>2. CASE wpc[s] # "store"
    BY <1>0, <1>1, <2>2, SendEffect DEF Send, service
  <2> QED
    BY <2>1, <2>2
<1>2. CASE GetMessage
  <2>1. rpc # "got" /\ pos = 0 /\ pos' = 0 /\ ReadDataStep
    BY <1>2, ReadEffect DEF GetMessage, service, Processes
  <2>2. CASE rpc = "zero" /\ rpc' = "release" /\ taken' = unread /\ unread' = <<>>
    BY <1>0, <1>b, <2>2
  <2>3. CASE rpc = "check" /\ rpc' = "got" /\ taken' = <<>> /\ unread' = unread
    BY <1>0, <1>b, <2>1, <2>3
  <2>4. CASE rpc = "release" /\ rpc' = "got" /\ UNCHANGED <<unread, taken>>
    BY <1>0, <1>a, <1>c, <2>1, <2>4
  <2>5. CASE rpc' \notin {"release", "got"} /\ UNCHANGED <<unread, taken>>
    BY <1>0, <2>5
  <2> QED
    BY <1>0, <2>1, <2>2, <2>3, <2>4, <2>5, ReadEffect
<1>3. CASE ParseDone \/ ParseThrows
  BY <1>0, <1>3 DEF ParseDone, ParseThrows, ReadAgain, history
<1>4. CASE ParseMessage
  <2>1. UNCHANGED <<unread, taken, rpc>> /\ rpc = "got" /\ pos + HeaderLen <= Len(taken)
    BY <1>4 DEF ParseMessage, vars, reader, history
  <2>2. PICK m \in Messages :
               /\ pos' = pos + m.len /\ pos + m.len <= Len(taken)
               /\ pos + m.len < Len(taken) => taken[pos + m.len + 1].off = 0
    BY <1>0, <1>4, ParsedMessage
  <2> QED
    BY <1>0, <2>1, <2>2
<1>5. ASSUME UNCHANGED <<unread, taken, rpc, pos>>
      PROVE  Framed(unread') /\ UNCHANGED <<rpc, taken, pos>>
  BY <1>0, <1>5
<1>6. CASE \/ DispatchPoll \/ GetHead \/ DispatchMessageFun \/ DispatchReturn \/ StartService
           \/ UNCHANGED allVars
  <2>1. UNCHANGED <<unread, taken, rpc, pos>>
    BY <1>6 DEF DispatchPoll, GetHead, DispatchMessageFun, DispatchReturn, StartService, allVars,
       vars, reader, history, service
  <2> QED
    BY <1>5, <1>d, <2>1
<1>7. CASE ServiceCrash \/ DispatchNull
  <2>1. rpc' = "wait" /\ (unread' = unread \/ unread' = <<>>)
    BY <1>7 DEF ServiceCrash, DispatchNull, ServiceDies, SectionSurvives
  <2> QED
    BY <1>0, <1>b, <2>1
<1>8. ASSUME NEW s \in Senders, SenderCrash(s)
      PROVE  Framed(unread') /\ UNCHANGED <<rpc, taken, pos>>
  <2>1. (unread' = unread \/ unread' = <<>>) /\ UNCHANGED <<rpc, taken, pos>>
    BY <1>8 DEF SenderCrash, SectionSurvives, reader, service
  <2> QED
    BY <1>0, <1>b, <2>1
<1>9. ASSUME NEW s \in Senders, StartSender(s)
      PROVE  UNCHANGED <<unread, taken, rpc, pos>>
  BY <1>9 DEF StartSender, reader, history, service
<1> QED
  BY <1>1, <1>2, <1>3, <1>4, <1>5, <1>6, <1>7, <1>8, <1>9, <1>d DEF ServiceNext

\* No garbage.
LEMMA CleanKept ==
  ASSUME IInv, Processes, ServiceTypeOK, Frames, Clean, [ServiceNext]_allVars
  PROVE  Clean'
<1> SUFFICES ASSUME ~overlap'
             PROVE  /\ queue' \in Seq(Messages) /\ handled' \in Seq(Messages)
                    /\ dpc' = "dispatch" => doing' \in Messages
  BY DEF Clean
<1>0. ~overlap /\ queue \in Seq(Messages) /\ handled \in Seq(Messages)
      /\ (dpc = "dispatch" => doing \in Messages)
  BY OverlapStays DEF Clean
<1>1. CASE ParseMessage
  <2>1. PICK m \in Messages : queue' = Append(queue, m)
    BY <1>0, <1>1, ParsedMessage
  <2>2. UNCHANGED <<handled, dpc, doing>>
    BY <1>1 DEF ParseMessage
  <2> QED
    BY <1>0, <2>1, <2>2
<1>2. CASE GetHead
  <2>1. queue # <<>>
    BY <1>2 DEF GetHead, Processes
  <2>2. doing' \in Messages /\ queue' \in Seq(Messages)
    BY <1>0, <1>2, <2>1 DEF GetHead
  <2> QED
    BY <1>0, <1>2, <2>2 DEF GetHead
<1>3. CASE DispatchMessageFun
  <2>1. doing \in Messages
    BY <1>0, <1>3 DEF DispatchMessageFun
  <2>2. handled' \in Seq(Messages)
    BY <1>0, <1>3, <2>1 DEF DispatchMessageFun
  <2> QED
    BY <1>0, <1>3, <2>2 DEF DispatchMessageFun
<1>4. CASE ServiceCrash \/ DispatchNull
  <2>1. queue' = <<>> /\ dpc' = "poll" /\ handled' = handled
    BY <1>4 DEF ServiceCrash, DispatchNull, ServiceDies
  <2>2. queue' \in Seq(Messages)
    BY <2>1
  <2> QED
    BY <1>0, <2>1, <2>2
<1>5. CASE DispatchPoll \/ DispatchReturn
  BY <1>0, <1>5 DEF DispatchPoll, DispatchReturn
<1>6. CASE GetMessage \/ ParseDone \/ ParseThrows \/ StartService \/ UNCHANGED allVars
  BY <1>0, <1>6 DEF GetMessage, ParseDone, ParseThrows, StartService, allVars, service
<1>7. ASSUME NEW s \in Senders, Send(s) \/ SenderCrash(s) \/ StartSender(s)
      PROVE  UNCHANGED <<queue, handled, dpc, doing>>
  BY <1>7 DEF Send, SenderCrash, StartSender, service
<1> QED
  BY <1>0, <1>1, <1>2, <1>3, <1>4, <1>5, <1>6, <1>7 DEF ServiceNext

-----------------------------------------------------------------------------
(* Nothing is lost, repeated or reordered.                                   *)

\* Every part of the pipeline holds messages.
LEMMA PartsAreMessages ==
  ASSUME ServiceTypeOK, Processes, Clean, ~overlap
  PROVE  /\ InDispatch \in Seq(Messages) /\ queue \in Seq(Messages) /\ InBatch \in Seq(Messages)
         /\ handled \in Seq(Messages) /\ MessagesIn(unread) \in Seq(Messages)
         /\ InService = (InDispatch \o queue) \o InBatch /\ InService \in Seq(Messages)
<1>1. queue \in Seq(Messages) /\ handled \in Seq(Messages)
  BY DEF Clean
<1>2. InDispatch \in Seq(Messages)
  <2>1. doing = NoMsg \/ doing \in Messages
    BY DEF Clean, Processes
  <2> QED
    BY <2>1 DEF InDispatch
<1>3. MessagesIn(unread) \in Seq(Messages)
  <2>1. unread \in Seq(Octets)
    BY DEF ServiceTypeOK, TypeOK, Octets
  <2> QED
    BY <2>1, MessagesInType
<1>4. InBatch \in Seq(Messages)
  <2>1. PICK r : r = SubSeq(taken, pos + 1, Len(taken))
    OBVIOUS
  <2>2. r \in Seq(Octets)
    <3>1. taken \in Seq(Octets) /\ pos \in Nat
      BY DEF ServiceTypeOK, TypeOK, Octets
    <3> QED
      BY <2>1, <3>1
  <2>3. MessagesIn(r) \in Seq(Messages)
    BY <2>2, MessagesInType
  <2>4. <<>> \in Seq(Messages)
    OBVIOUS
  <2> QED
    BY <2>1, <2>3, <2>4 DEF InBatch, Rest
<1>5. InService = (InDispatch \o queue) \o InBatch
  BY DEF InService, InDispatch, InBatch, Rest
<1>6. (InDispatch \o queue) \o InBatch \in Seq(Messages)
  BY <1>1, <1>2, <1>4
<1> QED
  BY <1>1, <1>2, <1>3, <1>4, <1>5, <1>6

\* The ledger after a death: what the dead process had taken is out, the rest is there,
\* and nothing occurs twice.
LEMMA LedgerAfterDeath ==
  ASSUME ServiceTypeOK, Processes, Clean, Fresh, ExactlyOnceInOrder, ~overlap
  PROVE  /\ Keep(ledger, InService \o <<>>) = handled \o MessagesIn(unread)
         /\ NoRepeats(handled \o MessagesIn(unread))
         /\ Keep(ledger, InService \o MessagesIn(unread)) = handled /\ NoRepeats(handled)
         /\ Keep(ledger, MessagesIn(unread)) = handled \o InService
         /\ NoRepeats(handled \o InService)
         /\ Range(handled \o MessagesIn(unread)) \subseteq Range(ledger)
         /\ Range(handled) \subseteq Range(ledger)
         /\ Range(handled \o InService) \subseteq Range(ledger)
<1>1. handled \in Seq(Messages) /\ InService \in Seq(Messages) /\ MessagesIn(unread) \in Seq(Messages)
  BY PartsAreMessages
<1>2. ledger = (handled \o InService) \o MessagesIn(unread) /\ NoRepeats(ledger)
  BY DEF ExactlyOnceInOrder, Fresh
<1>3. PICK h, g, u : h = handled /\ g = InService /\ u = MessagesIn(unread)
  OBVIOUS
<1>4. /\ h \in Seq(Messages) /\ g \in Seq(Messages) /\ u \in Seq(Messages)
      /\ NoRepeats((h \o g) \o u) /\ ledger = (h \o g) \o u
  BY <1>1, <1>2, <1>3
<1>5. /\ Keep((h \o g) \o u, g \o <<>>) = h \o u /\ NoRepeats(h \o u)
      /\ Keep((h \o g) \o u, g \o u) = h /\ NoRepeats(h)
      /\ Keep((h \o g) \o u, u) = h \o g /\ NoRepeats(h \o g)
  BY <1>4, KeepParts
<1>6. /\ Range(h \o u) = Range(h) \cup Range(u) /\ Range(h \o g) = Range(h) \cup Range(g)
      /\ Range((h \o g) \o u) = (Range(h) \cup Range(g)) \cup Range(u)
  <2>1. PICK x \in Seq(Messages) : x = h \o g
    <3>1. h \o g \in Seq(Messages)
      BY <1>4
    <3> QED
      BY <3>1
  <2>2. Range(x \o u) = Range(x) \cup Range(u)
    BY <1>4, RangeConcatenation
  <2>3. Range(h \o g) = Range(h) \cup Range(g) /\ Range(h \o u) = Range(h) \cup Range(u)
    BY <1>4, RangeConcatenation
  <2> QED
    BY <2>1, <2>2, <2>3
<1> QED
  BY <1>3, <1>4, <1>5, <1>6

\* The ledger after an Insert that throws: the rest of the batch is out, what is before it
\* in the pipeline and behind it in the section is there, and nothing occurs twice.
LEMMA LedgerAfterThrow ==
  ASSUME ServiceTypeOK, Processes, Clean, Fresh, ExactlyOnceInOrder, ~overlap, rpc = "got",
         NEW r, r = (handled \o (InDispatch \o queue)) \o MessagesIn(unread)
  PROVE  Keep(ledger, MessagesIn(Rest)) = r /\ NoRepeats(r) /\ Range(r) \subseteq Range(ledger)
<1>1. /\ InDispatch \in Seq(Messages) /\ queue \in Seq(Messages) /\ InBatch \in Seq(Messages)
      /\ handled \in Seq(Messages) /\ MessagesIn(unread) \in Seq(Messages)
      /\ InService = (InDispatch \o queue) \o InBatch
  BY PartsAreMessages
<1>2. ledger = (handled \o InService) \o MessagesIn(unread) /\ NoRepeats(ledger)
  BY DEF ExactlyOnceInOrder, Fresh
<1>3. InBatch = MessagesIn(Rest)
  BY DEF InBatch
<1>4. PICK e \in Seq(Messages), d \in Seq(Messages), g \in Seq(Messages), u \in Seq(Messages) :
         e = handled /\ d = InDispatch \o queue /\ g = InBatch /\ u = MessagesIn(unread)
  <2>1. InDispatch \o queue \in Seq(Messages)
    BY <1>1
  <2> QED
    BY <1>1, <2>1
<1>5. PICK h \in Seq(Messages) : h = e \o d
  <2>1. e \o d \in Seq(Messages)
    OBVIOUS
  <2> QED
    BY <2>1
<1>6. e \o (d \o g) = (e \o d) \o g
  BY SMTT(30)
<1>7. ledger = (h \o g) \o u /\ r = h \o u
  BY <1>1, <1>2, <1>4, <1>5, <1>6
<1>8. Keep((h \o g) \o u, g \o <<>>) = h \o u /\ NoRepeats(h \o u)
  <2>1. NoRepeats((h \o g) \o u)
    BY <1>2, <1>7
  <2> QED
    BY <2>1, KeepParts
<1>9. g \o <<>> = g
  OBVIOUS
<1>10. Range(h \o u) \subseteq Range((h \o g) \o u)
  <2>1. PICK x \in Seq(Messages) : x = h \o g
    <3>1. h \o g \in Seq(Messages)
      OBVIOUS
    <3> QED
      BY <3>1
  <2>2. Range(x \o u) = Range(x) \cup Range(u)
    BY RangeConcatenation
  <2>3. Range(h \o g) = Range(h) \cup Range(g) /\ Range(h \o u) = Range(h) \cup Range(u)
    BY RangeConcatenation
  <2> QED
    BY <2>1, <2>2, <2>3
<1> QED
  BY <1>3, <1>4, <1>7, <1>8, <1>9, <1>10

\* What a step of the senders, a death or a throw does to the ledger leaves it without
\* repetitions.
LEMMA FreshKept ==
  ASSUME IInv, Processes, ServiceTypeOK, Clean, Fresh, ExactlyOnceInOrder, [ServiceNext]_allVars
  PROVE  Fresh'
<1> SUFFICES ASSUME ~overlap'
             PROVE  /\ \A m \in Range(ledger') : m.num <= nsent'
                    /\ NoRepeats(ledger')
                    /\ \A s \in Senders : wpc'[s] # "idle" => wmsg'[s].from = s /\ wmsg'[s].num <= nsent'
                    /\ \A s \in Senders : wpc'[s] \notin {"idle", "release"} =>
                         wmsg'[s] \notin Range(ledger')
  BY DEF Fresh
<1>0. /\ ~overlap /\ NoRepeats(ledger) /\ \A m \in Range(ledger) : m.num <= nsent
      /\ \A s \in Senders : wpc[s] # "idle" => wmsg[s].from = s /\ wmsg[s].num <= nsent
      /\ \A s \in Senders : wpc[s] \notin {"idle", "release"} => wmsg[s] \notin Range(ledger)
  BY OverlapStays DEF Fresh
<1>a. nsent \in Nat /\ nsent' \in Nat /\ ledger \in Seq(Messages)
  <2>1. ServiceTypeOK'
    BY TypesKept
  <2> QED
    BY <2>1, SizeAssumption DEF ServiceTypeOK, TypeOK
<1>b. \A m \in Range(ledger) : m.num \in Nat
  <2>1. \A m \in Messages : m.num \in Nat
    BY SizeAssumption DEF Messages
  <2>2. Range(ledger) \subseteq Messages
    BY <1>a DEF Range
  <2> QED
    BY <2>1, <2>2
<1>c. \A s \in Senders : wpc[s] # "idle" => wmsg[s].num \in Nat /\ wmsg[s] \in Messages
  BY SizeAssumption DEF IInv, Calls, Messages
<1>1. ASSUME NEW s \in Senders, Send(s)
      PROVE  Fresh'
  <2>1. CASE wpc[s] = "store"
    <3>1. /\ ledger' = Append(ledger, wmsg[s]) /\ nsent <= nsent' /\ wpc'[s] = "release"
          /\ wmsg'[s] = wmsg[s] /\ \A t \in Senders : t # s => wpc'[t] = wpc[t] /\ wmsg'[t] = wmsg[t]
      BY <1>1, <2>1, SendEffect DEF Send
    <3>2. PICK m \in Messages : m = wmsg[s] /\ m \notin Range(ledger) /\ m.num <= nsent /\ m.num \in Nat
      BY <1>0, <1>c, <2>1
    <3>3. Range(ledger') = Range(ledger) \cup {m} /\ NoRepeats(ledger')
      <4>1. ledger' \in Seq(Messages) /\ Len(ledger') = Len(ledger) + 1 /\ Len(ledger) \in Nat
            /\ ledger'[Len(ledger) + 1] = m /\ \A i \in 1..Len(ledger) : ledger'[i] = ledger[i]
        BY <1>a, <3>1, <3>2
      <4>2. \A q \in Seq(Messages) : Range(q) = {q[i] : i \in 1..Len(q)}
        BY DEF Range
      <4>3. Range(ledger') = Range(ledger) \cup {m}
        BY <1>a, <4>1, <4>2
      <4>4. NoRepeats(ledger')
        BY <1>0, <1>a, <3>2, <4>1, <4>2 DEF NoRepeats
      <4> QED
        BY <4>3, <4>4
    <3>4. \A x \in Range(ledger') : x.num <= nsent'
      BY <1>0, <1>a, <1>b, <3>1, <3>2, <3>3
    <3>5. \A t \in Senders : wpc'[t] # "idle" => wmsg'[t].from = t /\ wmsg'[t].num <= nsent'
      BY <1>0, <1>a, <1>c, <2>1, <3>1
    <3>6. \A t \in Senders : wpc'[t] \notin {"idle", "release"} => wmsg'[t] \notin Range(ledger')
      BY <1>0, <2>1, <3>1, <3>2, <3>3
    <3> QED
      BY <3>3, <3>4, <3>5, <3>6 DEF Fresh
  <2>2. CASE wpc[s] # "store"
    <3>1. /\ ledger' = ledger /\ nsent <= nsent'
          /\ \A t \in Senders : t # s => wpc'[t] = wpc[t] /\ wmsg'[t] = wmsg[t]
          /\ \/ wpc'[s] = "idle"
             \/ /\ wpc[s] = "idle" /\ nsent' = nsent + 1
                /\ wmsg'[s].from = s /\ wmsg'[s].num = nsent + 1
             \/ wpc[s] \notin {"idle", "release"} /\ wmsg'[s] = wmsg[s]
      BY <1>1, <2>2, SendEffect DEF Send
    <3>2. \A x \in Range(ledger') : x.num <= nsent'
      BY <1>0, <1>a, <1>b, <3>1
    <3>3. ASSUME NEW t \in Senders, wpc'[t] # "idle"
          PROVE  wmsg'[t].from = t /\ wmsg'[t].num <= nsent'
      <4>1. CASE t # s
        BY <1>0, <1>a, <1>c, <3>1, <3>3, <4>1
      <4>2. CASE t = s
        BY <1>0, <1>a, <1>c, <3>1, <3>3, <4>2
      <4> QED
        BY <4>1, <4>2
    <3>4. ASSUME NEW t \in Senders, wpc'[t] \notin {"idle", "release"}
          PROVE  wmsg'[t] \notin Range(ledger')
      <4>1. CASE t # s
        BY <1>0, <3>1, <3>4, <4>1
      <4>2. CASE t = s
        <5>1. wmsg'[s].num = nsent + 1 => wmsg'[s] \notin Range(ledger)
          BY <1>0, <1>a, <1>b
        <5> QED
          BY <1>0, <3>1, <3>4, <4>2, <5>1
      <4> QED
        BY <4>1, <4>2
    <3> QED
      BY <1>0, <3>1, <3>2, <3>3, <3>4 DEF Fresh
  <2> QED
    BY <2>1, <2>2
<1>2. ASSUME NoRepeats(ledger'), Range(ledger') \subseteq Range(ledger), nsent' = nsent,
             \A t \in Senders : wpc'[t] = "idle" \/ (wpc'[t] = wpc[t] /\ wmsg'[t] = wmsg[t])
      PROVE  Fresh'
  BY <1>0, <1>2 DEF Fresh
<1>3. ASSUME ServiceCrash \/ DispatchNull
      PROVE  Fresh'
  <2>1. ServiceDies
    BY <1>3 DEF ServiceCrash, DispatchNull
  <2>2. \/ ledger' = Keep(ledger, InService \o <<>>)
        \/ ledger' = Keep(ledger, InService \o MessagesIn(unread))
    BY <2>1 DEF ServiceDies
  <2>3. NoRepeats(ledger') /\ Range(ledger') \subseteq Range(ledger)
    BY <1>0, <2>2, LedgerAfterDeath
  <2> QED
    BY <1>2, <2>1, <2>3 DEF ServiceDies, writer
<1>4. ASSUME NEW s \in Senders, SenderCrash(s)
      PROVE  Fresh'
  <2>1. ledger' = ledger \/ ledger' = Keep(ledger, MessagesIn(unread))
    BY <1>4 DEF SenderCrash
  <2>2. NoRepeats(ledger') /\ Range(ledger') \subseteq Range(ledger)
    BY <1>0, <2>1, LedgerAfterDeath
  <2>3. nsent' = nsent /\ \A t \in Senders : wpc'[t] = "idle" \/ (wpc'[t] = wpc[t] /\ wmsg'[t] = wmsg[t])
    BY <1>4 DEF SenderCrash, ServiceTypeOK, TypeOK
  <2> QED
    BY <1>2, <2>2, <2>3
<1>5. ASSUME UNCHANGED <<ledger, nsent, wpc, wmsg>>
      PROVE  Fresh'
  BY <1>0, <1>2, <1>5
<1>6. ASSUME GetMessage
      PROVE  Fresh'
  BY <1>5, <1>6, ReadEffect DEF GetMessage
<1>7. ASSUME \/ ParseMessage \/ ParseDone \/ DispatchPoll \/ GetHead \/ DispatchMessageFun
             \/ DispatchReturn \/ StartService \/ UNCHANGED allVars
      PROVE  Fresh'
  BY <1>5, <1>7 DEF ParseMessage, ParseDone, ReadAgain, DispatchPoll, GetHead, DispatchMessageFun,
     DispatchReturn, StartService, allVars, vars, writer
<1>8. ASSUME NEW s \in Senders, StartSender(s)
      PROVE  Fresh'
  BY <1>5, <1>8 DEF StartSender, writer
<1>10. ASSUME ParseThrows
       PROVE  Fresh'
  <2>1. rpc = "got" /\ ledger' = Keep(ledger, MessagesIn(Rest)) /\ UNCHANGED <<nsent, wpc, wmsg>>
    BY <1>10 DEF ParseThrows, ReadAgain, writer
  <2>2. NoRepeats(ledger') /\ Range(ledger') \subseteq Range(ledger)
    BY <1>0, <2>1, LedgerAfterThrow
  <2> QED
    BY <1>2, <2>1, <2>2
<1>9. Fresh'
  BY <1>1, <1>3, <1>4, <1>6, <1>7, <1>8, <1>10 DEF ServiceNext
<1> QED
  BY <1>9 DEF Fresh

(* A message moves from one part of the pipeline to the next and keeps its    *)
(* place.                                                                    *)

\* A message stored in the section is behind all others.
LEMMA AppendMoves ==
  ASSUME NEW T, NEW h \in Seq(T), NEW u \in Seq(T), NEW m \in T
  PROVE  Append(h \o u, m) = h \o (u \o <<m>>)
<1> DEFINE l == Append(h \o u, m)
           r == h \o (u \o <<m>>)
<1>1. l \in Seq(T) /\ r \in Seq(T) /\ Len(l) = Len(h) + Len(u) + 1 /\ Len(r) = Len(l)
  OBVIOUS
<1>2. \A i \in 1..Len(l) : l[i] = r[i]
  BY <1>1
<1> HIDE DEF l, r
<1>3. l = r
  BY <1>1, <1>2
<1> QED
  BY <1>3 DEF l, r

\* The section becomes the batch.
LEMMA BatchMoves ==
  ASSUME NEW T, NEW h \in Seq(T), NEW i \in Seq(T), NEW u \in Seq(T)
  PROVE  (h \o (i \o <<>>)) \o u = (h \o (i \o u)) \o <<>>
OBVIOUS

\* A message of the batch goes to the end of the queue.
LEMMA ParseMoves ==
  ASSUME NEW T, NEW d \in Seq(T), NEW q \in Seq(T), NEW r \in Seq(T), NEW m \in T
  PROVE  (d \o q) \o (<<m>> \o r) = (d \o (q \o <<m>>)) \o r
OBVIOUS

\* The head of the queue goes into dispatch.
LEMMA HeadMoves ==
  ASSUME NEW T, NEW q \in Seq(T), q # <<>>
  PROVE  <<>> \o q = <<Head(q)>> \o Tail(q)
OBVIOUS

\* The message in dispatch goes to the end of what was dispatched.
LEMMA DispatchMoves ==
  ASSUME NEW T, NEW h \in Seq(T), NEW q \in Seq(T), NEW r \in Seq(T), NEW d \in T
  PROVE  h \o ((<<d>> \o q) \o r) = Append(h, d) \o ((<<>> \o q) \o r)
BY SMTT(30)

\* The ledger is what was dispatched, what Service.exe has and what the section holds.
LEMMA ExactlyKept ==
  ASSUME ServiceInv, [ServiceNext]_allVars, ~overlap'
  PROVE  ledger' = (handled' \o InService') \o MessagesIn(unread')
<1> USE DEF ServiceInv
<1>0. ~overlap /\ ledger = (handled \o InService) \o MessagesIn(unread)
  BY OverlapStays DEF ExactlyOnceInOrder
<1>a. /\ InDispatch \in Seq(Messages) /\ queue \in Seq(Messages) /\ InBatch \in Seq(Messages)
      /\ handled \in Seq(Messages) /\ MessagesIn(unread) \in Seq(Messages)
      /\ InService = (InDispatch \o queue) \o InBatch /\ InService \in Seq(Messages)
  BY <1>0, PartsAreMessages
<1>b. InService' = (InDispatch' \o queue') \o InBatch'
  BY DEF InService, InDispatch, InBatch, Rest
<1>c. MessagesIn(<<>>) = <<>> /\ \A q \in Seq(Messages) : <<>> \o q = q /\ q \o <<>> = q
  BY MessagesInEmpty
<1>d. taken \in Seq(Octets) /\ unread \in Seq(Octets) /\ pos \in Nat
  BY DEF ServiceTypeOK, TypeOK, Octets
<1>1. ASSUME NEW s \in Senders, Send(s)
      PROVE  ledger' = (handled' \o InService') \o MessagesIn(unread')
  <2>1. UNCHANGED <<doing, queue, rpc, taken, pos, handled>>
    BY <1>1, SendEffect DEF Send, service
  <2>2. InService' = InService
    BY <2>1 DEF InService, Rest
  <2>3. CASE wpc[s] = "store"
    <3>1. PICK m \in Messages : m = wmsg[s]
      BY <2>3 DEF IInv, Calls
    <3>2. ledger' = Append(ledger, m) /\ unread' = unread \o BytesOf(m)
      BY <1>1, <2>3, <3>1, SendEffect DEF Send
    <3>3. MessagesIn(unread') = MessagesIn(unread) \o <<m>>
      <4>1. BytesOf(m) \in Seq(Octets)
        BY BytesType DEF Octets
      <4>2. MessagesIn(unread \o BytesOf(m)) = MessagesIn(unread) \o MessagesIn(BytesOf(m))
        BY <1>d, <4>1, MessagesInConcat
      <4> QED
        BY <3>2, <4>2, MessagesInBytesOf
    <3>4. PICK h \in Seq(Messages) : h = handled \o InService
      <4>1. handled \o InService \in Seq(Messages)
        BY <1>a
      <4> QED
        BY <4>1
    <3>5. PICK u \in Seq(Messages) : u = MessagesIn(unread)
      BY <1>a
    <3>6. Append(h \o u, m) = h \o (u \o <<m>>)
      BY AppendMoves
    <3> QED
      BY <1>0, <2>1, <2>2, <3>2, <3>3, <3>4, <3>5, <3>6
  <2>4. CASE wpc[s] # "store"
    BY <1>0, <1>1, <2>1, <2>2, <2>4, SendEffect DEF Send
  <2> QED
    BY <2>3, <2>4
<1>2. CASE GetMessage
  <2>1. /\ UNCHANGED <<doing, queue, handled, ledger>> /\ rpc # "got" /\ pos = 0 /\ pos' = 0
        /\ InDispatch' = InDispatch
    BY <1>2, ReadEffect DEF GetMessage, service, Processes, InDispatch
  <2>2. CASE rpc = "zero" /\ rpc' = "release" /\ taken' = unread /\ unread' = <<>>
    <3>1. SubSeq(unread, 0 + 1, Len(unread)) = unread
      BY <1>d, RestEnds
    <3>2. InBatch = <<>> /\ InBatch' = MessagesIn(unread)
      BY <2>1, <2>2, <3>1 DEF InBatch, Rest
    <3>3. PICK i \in Seq(Messages) : i = InDispatch \o queue
      <4>1. InDispatch \o queue \in Seq(Messages)
        BY <1>a
      <4> QED
        BY <4>1
    <3>4. PICK u \in Seq(Messages) : u = MessagesIn(unread)
      BY <1>a
    <3>5. PICK h \in Seq(Messages) : h = handled
      BY <1>a
    <3>6. (h \o (i \o <<>>)) \o u = (h \o (i \o u)) \o <<>>
      BY BatchMoves
    <3> QED
      BY <1>0, <1>a, <1>b, <1>c, <2>1, <2>2, <3>2, <3>3, <3>4, <3>5, <3>6
  <2>3. CASE rpc = "check" /\ rpc' = "got" /\ taken' = <<>> /\ unread' = unread
    <3>1. PICK e : e = <<>>
      OBVIOUS
    <3>2. e \in Seq(Octets) /\ Len(e) = 0 /\ SubSeq(e, 0 + 1, Len(e)) = e
      BY <3>1, RestEnds
    <3>3. InBatch = <<>> /\ InBatch' = <<>>
      BY <1>c, <2>1, <2>3, <3>1, <3>2 DEF InBatch, Rest
    <3> QED
      BY <1>0, <1>a, <1>b, <2>1, <2>3, <3>3
  <2>4. CASE rpc = "release" /\ rpc' = "got" /\ UNCHANGED <<unread, taken>>
    <3>1. InBatch' = InBatch
      BY <2>1, <2>4 DEF InBatch, Rest
    <3> QED
      BY <1>0, <1>a, <1>b, <2>1, <2>4, <3>1
  <2>5. CASE /\ rpc \notin {"release", "got"} /\ rpc' \notin {"release", "got"}
             /\ UNCHANGED <<unread, taken>>
    <3>1. InBatch' = InBatch
      BY <2>5 DEF InBatch, Rest
    <3> QED
      BY <1>0, <1>a, <1>b, <2>1, <2>5, <3>1
  <2> QED
    BY <1>0, <1>2, <2>2, <2>3, <2>4, <2>5, ReadEffect DEF GetMessage
<1>3. CASE ParseMessage
  <2>1. UNCHANGED <<unread, taken, rpc, handled, doing, ledger>> /\ rpc = "got" /\ InDispatch' = InDispatch
    BY <1>3 DEF ParseMessage, vars, reader, history, InDispatch
  <2>2. PICK m \in Messages :
           /\ queue' = Append(queue, m) /\ pos' = pos + m.len /\ pos + m.len <= Len(taken)
           /\ MessagesIn(SubSeq(taken, pos + 1, Len(taken)))
                = <<m>> \o MessagesIn(SubSeq(taken, pos + m.len + 1, Len(taken)))
    BY <1>0, <1>3, ParsedMessage
  <2>3. InBatch = <<m>> \o InBatch'
    BY <2>1, <2>2 DEF InBatch, Rest
  <2>4. PICK r \in Seq(Messages) : r = InBatch'
    <3>1. SubSeq(taken, pos + m.len + 1, Len(taken)) \in Seq(Octets)
      <4>1. m.len \in Nat
        BY HeaderFits
      <4> QED
        BY <1>d, <4>1
    <3>2. InBatch' \in Seq(Messages)
      BY <2>1, <2>2, <3>1, MessagesInType DEF InBatch, Rest
    <3> QED
      BY <3>2
  <2>5. PICK d \in Seq(Messages), q \in Seq(Messages) : d = InDispatch /\ q = queue
    BY <1>a
  <2>6. (d \o q) \o (<<m>> \o r) = (d \o (q \o <<m>>)) \o r
    BY ParseMoves, SMTT(30)
  <2>7. Append(q, m) = q \o <<m>>
    OBVIOUS
  <2> QED
    BY <1>0, <1>a, <1>b, <2>1, <2>2, <2>3, <2>4, <2>5, <2>6, <2>7
<1>4. CASE ParseDone
  <2>1. /\ UNCHANGED <<unread, taken, handled, doing, queue, ledger>> /\ rpc = "got" /\ rpc' = "wait"
        /\ pos + HeaderLen > Len(taken) /\ InDispatch' = InDispatch
    BY <1>4 DEF ParseDone, ReadAgain, history, InDispatch
  <2>2. pos = Len(taken)
    <3>1. pos <= Len(taken) /\ Framed(taken) /\ (pos < Len(taken) => taken[pos + 1].off = 0)
      BY <1>0, <2>1 DEF Frames
    <3>2. ASSUME pos < Len(taken)
          PROVE  FALSE
      <4>1. PICK m : m = taken[pos + 1].msg
        OBVIOUS
      <4>2. m \in Messages /\ pos + m.len <= Len(taken)
        BY <1>d, <3>1, <3>2, <4>1, FramedRun
      <4>3. m.len \in Nat /\ HeaderLen <= m.len /\ HeaderLen \in Nat
        BY <4>2, HeaderFits, SizeAssumption
      <4> QED
        BY <1>d, <2>1, <4>2, <4>3
    <3> QED
      BY <1>d, <3>1, <3>2
  <2>3. InBatch = <<>> /\ InBatch' = <<>>
    BY <1>d, <2>1, <2>2, RestEnds DEF InBatch, Rest
  <2> QED
    BY <1>0, <1>a, <1>b, <2>1, <2>3
<1>5. CASE GetHead
  <2>1. /\ UNCHANGED <<unread, taken, rpc, pos, handled, ledger>> /\ InBatch' = InBatch
        /\ doing' = Head(queue) /\ queue' = Tail(queue) /\ queue # <<>> /\ doing = NoMsg
    BY <1>5 DEF GetHead, vars, reader, history, InBatch, Rest, Processes
  <2>2. Head(queue) \in Messages
    BY <1>a, <2>1
  <2>3. InDispatch = <<>> /\ InDispatch' = <<Head(queue)>>
    BY <2>1, <2>2, PipelineAssumption DEF InDispatch, NoMsg
  <2>4. <<>> \o queue = <<Head(queue)>> \o Tail(queue)
    BY <1>a, <2>1, HeadMoves
  <2> QED
    BY <1>0, <1>a, <1>b, <2>1, <2>3, <2>4
<1>6. CASE DispatchMessageFun
  <2>1. /\ UNCHANGED <<unread, taken, rpc, pos, queue, ledger>> /\ InBatch' = InBatch
        /\ handled' = Append(handled, doing) /\ doing' = NoMsg /\ doing \in Messages
    BY <1>0, <1>6 DEF DispatchMessageFun, vars, reader, history, InBatch, Rest, Clean
  <2>2. InDispatch = <<doing>> /\ InDispatch' = <<>>
    BY <2>1, PipelineAssumption DEF InDispatch, NoMsg
  <2>3. PICK d \in Messages, h \in Seq(Messages), q \in Seq(Messages), r \in Seq(Messages) :
           d = doing /\ h = handled /\ q = queue /\ r = InBatch
    BY <1>a, <2>1
  <2>4. h \o ((<<d>> \o q) \o r) = Append(h, d) \o ((<<>> \o q) \o r)
    BY DispatchMoves, SMTT(30)
  <2> QED
    BY <1>0, <1>a, <1>b, <2>1, <2>2, <2>3, <2>4
<1>7. CASE ServiceCrash \/ DispatchNull
  <2>1. ServiceDies
    BY <1>7 DEF ServiceCrash, DispatchNull
  <2>2. /\ InDispatch' = <<>> /\ queue' = <<>> /\ InBatch' = <<>> /\ handled' = handled
    BY <2>1 DEF ServiceDies, InDispatch, InBatch
  <2>3. InService' = <<>> /\ handled' \o InService' = handled
    BY <1>a, <1>b, <1>c, <2>2
  <2>4. CASE \E s \in Senders : alive[s]
    <3>1. unread' = unread /\ ledger' = Keep(ledger, InService \o <<>>)
      BY <2>1, <2>4 DEF ServiceDies, SectionSurvives
    <3> QED
      BY <1>0, <2>3, <3>1, LedgerAfterDeath
  <2>5. CASE ~(\E s \in Senders : alive[s])
    <3>1. unread' = <<>> /\ ledger' = Keep(ledger, InService \o MessagesIn(unread))
      BY <2>1, <2>5 DEF ServiceDies, SectionSurvives
    <3> QED
      BY <1>0, <1>a, <1>c, <2>3, <3>1, LedgerAfterDeath
  <2> QED
    BY <2>4, <2>5
<1>8. ASSUME NEW s \in Senders, SenderCrash(s)
      PROVE  ledger' = (handled' \o InService') \o MessagesIn(unread')
  <2>1. UNCHANGED <<doing, queue, rpc, taken, pos, handled>>
    BY <1>8 DEF SenderCrash, service, reader
  <2>2. InService' = InService
    BY <2>1 DEF InService, Rest
  <2>3. \/ unread' = unread /\ ledger' = ledger
        \/ unread' = <<>> /\ ledger' = Keep(ledger, MessagesIn(unread))
    BY <1>8 DEF SenderCrash, SectionSurvives
  <2>4. CASE unread' = unread /\ ledger' = ledger
    BY <1>0, <2>1, <2>2, <2>4
  <2>5. CASE unread' = <<>> /\ ledger' = Keep(ledger, MessagesIn(unread))
    <3>1. handled \o InService \in Seq(Messages)
      BY <1>a
    <3> QED
      BY <1>0, <1>c, <2>1, <2>2, <2>5, <3>1, LedgerAfterDeath
  <2> QED
    BY <2>3, <2>4, <2>5
<1>9. ASSUME UNCHANGED <<doing, queue, rpc, taken, pos, handled, ledger, unread>>
      PROVE  ledger' = (handled' \o InService') \o MessagesIn(unread')
  <2>1. InService' = InService
    BY <1>9 DEF InService, Rest
  <2> QED
    BY <1>0, <1>9, <2>1
<1>10. CASE DispatchPoll \/ DispatchReturn \/ StartService \/ UNCHANGED allVars
  BY <1>9, <1>10 DEF DispatchPoll, DispatchReturn, StartService, allVars, vars, reader, history, service
<1>12. CASE ParseThrows
  <2>1. /\ UNCHANGED <<unread, handled, doing, queue>> /\ rpc = "got" /\ rpc' = "wait"
        /\ ledger' = Keep(ledger, MessagesIn(Rest))
    BY <1>12 DEF ParseThrows, ReadAgain, history
  <2>2. InDispatch' = InDispatch /\ InBatch' = <<>>
    BY <2>1 DEF InDispatch, InBatch
  <2>3. InDispatch \o queue \in Seq(Messages)
    BY <1>a
  <2>4. InService' = InDispatch \o queue
    BY <1>b, <1>c, <2>1, <2>2, <2>3
  <2>5. Keep(ledger, MessagesIn(Rest)) = (handled \o (InDispatch \o queue)) \o MessagesIn(unread)
    BY <1>0, <2>1, LedgerAfterThrow
  <2> QED
    BY <2>1, <2>4, <2>5
<1>11. ASSUME NEW s \in Senders, StartSender(s)
       PROVE  ledger' = (handled' \o InService') \o MessagesIn(unread')
  BY <1>9, <1>11 DEF StartSender, reader, history, service
<1> QED
  BY <1>1, <1>2, <1>3, <1>4, <1>5, <1>6, <1>7, <1>8, <1>10, <1>11, <1>12 DEF ServiceNext

-----------------------------------------------------------------------------
(* The theorems.                                                             *)

\* The invariant holds at the start.
LEMMA ServiceInitInvariant ==
  ASSUME ServiceInit PROVE ServiceInv
<1> USE DEF ServiceInit
<1>1. IInv
  BY InitInvariant
<1>2. ServiceTypeOK
  <2>1. TypeOK
    BY <1>1 DEF IInv
  <2>2. queue \in Seq(Messages \cup {Garbage}) /\ handled \in Seq(Messages \cup {Garbage}) /\ ledger \in Seq(Messages)
    OBVIOUS
  <2>3. up \in BOOLEAN /\ threads \subseteq {"get", "dispatch"} /\ loaded \subseteq Components /\ crashes \in 0..MaxCrash /\ pos \in Nat
    BY PipelineAssumption
  <2>4. alive \in [Senders -> BOOLEAN]
    OBVIOUS
  <2> QED
    BY <2>1, <2>2, <2>3, <2>4 DEF ServiceTypeOK
<1>3. Processes
  BY DEF Init, Processes
<1>4. unread = <<>> /\ rpc = "wait" /\ ledger = <<>> /\ handled = <<>> /\ queue = <<>> /\ doing = NoMsg
      /\ dpc = "poll" /\ \A s \in Senders : wpc[s] = "idle"
  BY DEF Init
<1>5. Frames
  BY <1>4 DEF Frames, Framed
<1>6. Clean
  BY <1>4 DEF Clean
<1>7. Fresh
  BY <1>4 DEF Fresh, NoRepeats, Range
<1>8. ExactlyOnceInOrder
  <2>1. InService = <<>>
    BY <1>4 DEF InService
  <2> QED
    BY <1>4, <2>1, MessagesInEmpty DEF ExactlyOnceInOrder
<1> QED
  BY <1>1, <1>2, <1>3, <1>5, <1>6, <1>7, <1>8 DEF ServiceInv

\* Every step of the pipeline preserves it.
LEMMA ServiceStepInvariant ==
  ASSUME ServiceInv, [ServiceNext]_allVars PROVE ServiceInv'
<1>1. IInv' /\ ServiceTypeOK' /\ Processes' /\ Frames' /\ Clean' /\ Fresh'
  BY ChannelKept, TypesKept, ProcessesKept, FramesKept, CleanKept, FreshKept DEF ServiceInv
<1>2. ExactlyOnceInOrder'
  BY ExactlyKept DEF ExactlyOnceInOrder
<1> QED
  BY <1>1, <1>2 DEF ServiceInv

\* The inductive invariant of the pipeline holds in every reachable state, whatever
\* processes die and start, whichever threads Service.exe got and whatever Insert throws.
THEOREM ServiceInvariance == ServiceSpec => []ServiceInv
<1>1. ServiceInit => ServiceInv
  BY ServiceInitInvariant
<1>2. ServiceInv /\ [ServiceNext]_allVars => ServiceInv'
  BY ServiceStepInvariant
<1> QED
  BY <1>1, <1>2, PTL DEF ServiceSpec

\* Every variable of the pipeline keeps its type.
THEOREM ServiceTypeCorrect == ServiceSpec => []ServiceTypeOK
BY ServiceInvariance, PTL DEF ServiceInv

\* Until two accesses overlap, the messages stored in the section are, in order, the ones
\* dispatched, the one in dispatch, the queue, the rest of the batch and the section, with
\* those out that died with a process or were dropped by a catch handler of
\* GetMessageThread, which takes the rest of one batch and nothing else: nothing else is
\* lost, repeated or reordered by GetMessageThread, CWLMetaDataQueue or
\* DispatchMessageThread, whatever dies or throws where.
THEOREM DeliveryExact == ServiceSpec => []ExactlyOnceInOrder
BY ServiceInvariance, PTL DEF ServiceInv

\* Until two accesses overlap, the parser of GetMessageThread, which never checks that the
\* data of a message is in the batch, does not leave the batch.
THEOREM ParserInside == ServiceSpec => []ParserStaysInBatch
<1>1. ServiceInv => ParserStaysInBatch
  BY DEF ServiceInv, Frames, ParserStaysInBatch
<1> QED
  BY <1>1, ServiceInvariance, PTL

\* DispatchMessageThread never takes the front of an empty queue, although GetCount and
\* GetHead lock separately.
THEOREM HeadExists == ServiceSpec => []NeverPopsEmpty
<1>1. ServiceInv => NeverPopsEmpty
  BY DEF ServiceInv, Processes, NeverPopsEmpty
<1> QED
  BY <1>1, ServiceInvariance, PTL

\* What is proved of the channel holds with processes that die within WriteData or ReadData
\* and start again.
THEOREM ChannelSurvives == ServiceSpec => []ChannelSound
<1>1. ServiceInv => ChannelSound
  BY DEF ServiceInv, IInv, Area, ChannelSound, CounterIsUnreadBytes
<1> QED
  BY <1>1, ServiceInvariance, PTL
=============================================================================
