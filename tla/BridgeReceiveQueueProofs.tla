---------------------- MODULE BridgeReceiveQueueProofs ----------------------
(***************************************************************************)
(* The launcher-to-consumer half of the relay bridge, proved for every     *)
(* number of attachments, frame, credit window and budget.  The invariant  *)
(* is a statement about each attachment's data (its queue; its ledger; and *)
(* the flow: that the ledger is, in this order, the credits on their way   *)
(* back, what the consumer owes and what is on the wire) and one about the *)
(* totals of the endpoints and of the tab.  The statements take the data   *)
(* as parameters, so that what a call does to them is a lemma about        *)
(* sequences, and sums come from DataLemmas.                               *)
(***************************************************************************)
EXTENDS BridgeReceiveQueue, DataLemmas

GoodFrames == {f \in FrameType : f.out <= f.size}
ItemType == [frame : GoodFrames, n : Nat]
Entry == [size : Nat, through : Nat]
Credit == [frames : Nat, bytes : Nat, through : Nat]
Close == [close : {TRUE}]
FrameMessage == [kind : {"frame"}, size : Nat, through : Nat]
Message == FrameMessage \cup [kind : {"closed"}]

-----------------------------------------------------------------------------
\* Ledgers: bytes of a prefix.

\* What a ledger holds.
LEMMA Entries ==
  ASSUME NEW s \in Seq(Entry)
  PROVE  /\ Len(s) \in Nat /\ DOMAIN s = 1..Len(s)
         /\ \A i \in 1..Len(s) : s[i] \in Entry /\ s[i].size \in Nat
<1>1. Len(s) \in Nat /\ DOMAIN s = 1..Len(s)
  BY LenProperties
<1>2. \A i \in 1..Len(s) : s[i] \in Entry
  BY ElementOfSeq
<1>3. \A e \in Entry : e.size \in Nat
  BY DEF Entry
<1> QED BY <1>1, <1>2, <1>3

\* The bytes of the first entries of a ledger are a number, and entry by entry
\* they grow by its size.
LEMMA PrefixType ==
  ASSUME NEW s \in Seq(Entry), NEW k \in 0..Len(s)
  PROVE  /\ PrefixBytes(s, k) \in Nat
         /\ PrefixBytes(s, 0) = 0
         /\ k > 0 => PrefixBytes(s, k) = PrefixBytes(s, k - 1) + s[k].size
         /\ PrefixBytes(s, k) <= PrefixBytes(s, Len(s))
<1>0. /\ Len(s) \in Nat /\ DOMAIN s = 1..Len(s)
      /\ \A i \in 1..Len(s) : s[i] \in Entry /\ s[i].size \in Nat
  BY Entries
<1> DEFINE f == Sizes(s)
<1>1. \A i \in 1..Len(s) : f[i] = s[i].size /\ f[i] \in Nat
  BY <1>0 DEF Sizes
<1>2. \A m : PrefixBytes(s, m) = SumTo(f, m)
  BY DEF PrefixBytes, SumTo, Sum
<1> HIDE DEF f
<1>3. SumTo(f, k) \in Nat /\ SumTo(f, 0) = 0
  BY <1>0, <1>1, SumToType
<1>4. SumTo(f, k) <= SumTo(f, Len(s))
  BY <1>0, <1>1, SumToLeq
<1>5. ASSUME k > 0  PROVE SumTo(f, k) = SumTo(f, k - 1) + s[k].size
  <2> DEFINE m == k - 1
  <2>1. m \in Nat /\ m + 1 = k
    BY <1>5, <1>0
  <2>2. \A i \in 1..(m + 1) : f[i] \in Nat
    BY <2>1, <1>0, <1>1
  <2> HIDE DEF m
  <2>3. SumTo(f, m + 1) = SumTo(f, m) + f[m + 1]
    BY <2>1, <2>2, SumToStep
  <2>4. SumTo(f, k) = SumTo(f, m) + f[k]
    BY <2>1, <2>3
  <2> QED BY <2>4, <1>0, <1>1, <1>5 DEF m
<1> QED BY <1>2, <1>3, <1>4, <1>5

\* A new entry leaves the prefixes alone.
LEMMA PrefixAppend ==
  ASSUME NEW s \in Seq(Entry), NEW e \in Entry
  PROVE  /\ \A k \in 0..Len(s) : PrefixBytes(Append(s, e), k) = PrefixBytes(s, k)
         /\ PrefixBytes(Append(s, e), Len(s) + 1) = PrefixBytes(s, Len(s)) + e.size
<1>0. /\ Len(s) \in Nat /\ DOMAIN s = 1..Len(s)
      /\ \A i \in 1..Len(s) : s[i] \in Entry /\ s[i].size \in Nat
  BY Entries
<1> DEFINE t == Append(s, e)
<1>1. /\ t \in Seq(Entry) /\ Len(t) = Len(s) + 1 /\ t[Len(s) + 1] = e
      /\ \A i \in 1..Len(s) : t[i] = s[i]
  BY AppendProperties
<1>2. DOMAIN t = 1..(Len(s) + 1)
  BY <1>1, LenProperties
<1> HIDE DEF t
<1>3. ASSUME NEW k \in 0..Len(s)  PROVE PrefixBytes(t, k) = PrefixBytes(s, k)
  <2> DEFINE f == Sizes(s)
             g == Sizes(t)
  <2>1. \A i \in 1..k : f[i] \in Nat /\ g[i] = f[i]
    BY <1>0, <1>1, <1>2 DEF Sizes
  <2> HIDE DEF f, g
  <2>2. k \in Nat
    BY <1>0
  <2>3. SumTo(g, k) = SumTo(f, k)
    BY <2>1, <2>2, SumToSame
  <2> QED BY <2>3 DEF f, g, PrefixBytes, SumTo, Sum
<1>4. PrefixBytes(t, Len(s) + 1) = PrefixBytes(t, Len(s)) + e.size
  <2> DEFINE n == Len(s) + 1
  <2>1. n \in 0..Len(t) /\ n > 0 /\ n - 1 = Len(s)
    BY <1>0, <1>1
  <2>2. t[n] = e
    BY <1>1
  <2> HIDE DEF n
  <2>3. PrefixBytes(t, n) = PrefixBytes(t, n - 1) + t[n].size
    BY <1>1, <2>1, PrefixType
  <2> QED BY <2>1, <2>2, <2>3 DEF n
<1> QED BY <1>0, <1>3, <1>4 DEF t

\* Behind the first a entries.
LEMMA PrefixBehind ==
  ASSUME NEW s \in Seq(Entry), NEW a \in 0..Len(s)
  PROVE  /\ SubSeq(s, a + 1, Len(s)) \in Seq(Entry)
         /\ Len(SubSeq(s, a + 1, Len(s))) = Len(s) - a
         /\ \A k \in 1..(Len(s) - a) : SubSeq(s, a + 1, Len(s))[k] = s[a + k]
         /\ \A k \in 0..(Len(s) - a) :
              PrefixBytes(s, a + k) = PrefixBytes(s, a) + PrefixBytes(SubSeq(s, a + 1, Len(s)), k)
<1>0. /\ Len(s) \in Nat /\ DOMAIN s = 1..Len(s)
      /\ \A i \in 1..Len(s) : s[i] \in Entry /\ s[i].size \in Nat
  BY Entries
<1> DEFINE t == SubSeq(s, a + 1, Len(s))
<1>1. \A i \in (a + 1)..Len(s) : s[i] \in Entry
  BY <1>0
<1>2. /\ t \in Seq(Entry)
      /\ Len(t) = IF a + 1 <= Len(s) THEN Len(s) - (a + 1) + 1 ELSE 0
      /\ \A i \in 1..(Len(s) - (a + 1) + 1) : t[i] = s[(a + 1) + i - 1]
  <2>1. a + 1 \in Int /\ Len(s) \in Int
    BY <1>0
  <2> QED BY <1>0, <1>1, <2>1, SubSeqProperties
<1>3. Len(t) = Len(s) - a /\ \A i \in 1..(Len(s) - a) : t[i] = s[a + i]
  <2>1. Len(s) - (a + 1) + 1 = Len(s) - a /\ (~(a + 1 <= Len(s)) => Len(s) - a = 0)
    <3>1. \A n \in Nat : \A m \in 0..n : n - (m + 1) + 1 = n - m /\ (~(m + 1 <= n) => n - m = 0)
      OBVIOUS
    <3> QED BY <3>1, <1>0
  <2>2. \A i \in 1..(Len(s) - a) : (a + 1) + i - 1 = a + i
    BY <1>0
  <2> HIDE DEF t
  <2>3. Len(t) = Len(s) - a
    BY <1>2, <2>1
  <2> QED BY <1>2, <2>1, <2>2, <2>3
<1>4. DOMAIN t = 1..(Len(s) - a)
  BY <1>2, <1>3, LenProperties
<1> HIDE DEF t
<1>5. ASSUME NEW k \in 0..(Len(s) - a)
      PROVE PrefixBytes(s, a + k) = PrefixBytes(s, a) + PrefixBytes(t, k)
  <2> DEFINE f == Sizes(s)
             g == Sizes(t)
  <2>1. /\ \A i \in 1..(a + k) : f[i] \in Nat
        /\ \A i \in 1..k : g[i] = f[a + i]
    BY <1>0, <1>3, <1>4 DEF Sizes
  <2> HIDE DEF f, g
  <2>2. a \in Nat /\ k \in Nat
    BY <1>0
  <2>3. SumTo(f, a + k) = SumTo(f, a) + SumTo(g, k)
    BY <2>1, <2>2, SumToShift
  <2> QED BY <2>3 DEF f, g, PrefixBytes, SumTo, Sum
<1> QED BY <1>2, <1>3, <1>5 DEF t

-----------------------------------------------------------------------------
\* Credits on their way back.
FramesOf(b) == [i \in DOMAIN b |-> b[i].frames]
BytesOf(b) == [i \in DOMAIN b |-> b[i].bytes]
Posted(b, k) == SumTo(FramesOf(b), k)
PostedBytes(b, k) == SumTo(BytesOf(b), k)
Closes(b, j) == "close" \in DOMAIN b[j]
AllCredits(b, k) == k \in 0..Len(b) /\ \A i \in 1..k : b[i] \in Credit

\* A message is a credit, of three numbers, or says that the consumer closed.
LEMMA CreditOrClose ==
  /\ \A x \in Credit : /\ x.frames \in Nat /\ x.bytes \in Nat /\ x.through \in Nat
                       /\ "close" \notin DOMAIN x
  /\ \A x \in Close : "close" \in DOMAIN x
<1>1. \A x \in Credit : x.frames \in Nat /\ x.bytes \in Nat /\ x.through \in Nat
  BY DEF Credit
<1>2. \A x \in Credit : DOMAIN x = {"frames", "bytes", "through"}
  BY DEF Credit
<1>3. \A x \in Close : DOMAIN x = {"close"}
  BY DEF Close
<1> QED BY <1>1, <1>2, <1>3

\* The sums of credits as sums of numbers.
LEMMA CreditNumbers ==
  ASSUME NEW b \in Seq(Credit \cup Close), NEW k, AllCredits(b, k)
  PROVE  /\ k \in Nat /\ k <= Len(b)
         /\ \A i \in 1..k : /\ FramesOf(b)[i] = b[i].frames /\ FramesOf(b)[i] \in Nat
                            /\ BytesOf(b)[i] = b[i].bytes /\ BytesOf(b)[i] \in Nat
<1>1. Len(b) \in Nat /\ DOMAIN b = 1..Len(b)
  BY LenProperties
<1>2. k \in Nat /\ k <= Len(b) /\ \A i \in 1..k : i \in DOMAIN b /\ b[i] \in Credit
  BY <1>1 DEF AllCredits
<1>3. \A i \in 1..k : FramesOf(b)[i] = b[i].frames /\ BytesOf(b)[i] = b[i].bytes
  BY <1>2 DEF FramesOf, BytesOf
<1> QED BY <1>2, <1>3, CreditOrClose

\* What credits post are numbers, of none zero, and each adds its own.
LEMMA PostedType ==
  ASSUME NEW b \in Seq(Credit \cup Close), NEW k, AllCredits(b, k)
  PROVE  /\ Posted(b, k) \in Nat /\ PostedBytes(b, k) \in Nat
         /\ Posted(b, 0) = 0 /\ PostedBytes(b, 0) = 0
         /\ k > 0 => /\ AllCredits(b, k - 1)
                     /\ Posted(b, k) = Posted(b, k - 1) + b[k].frames
                     /\ PostedBytes(b, k) = PostedBytes(b, k - 1) + b[k].bytes
<1>0. Len(b) \in Nat
  BY LenProperties
<1> DEFINE f == FramesOf(b)
           g == BytesOf(b)
<1>1. /\ k \in Nat /\ k <= Len(b)
      /\ \A i \in 1..k : f[i] = b[i].frames /\ f[i] \in Nat /\ g[i] = b[i].bytes /\ g[i] \in Nat
  BY CreditNumbers
<1> HIDE DEF f, g
<1>2. SumTo(f, k) \in Nat /\ SumTo(f, 0) = 0 /\ SumTo(g, k) \in Nat /\ SumTo(g, 0) = 0
  BY <1>1, SumToType
<1>3. ASSUME k > 0
      PROVE  SumTo(f, k) = SumTo(f, k - 1) + b[k].frames /\ SumTo(g, k) = SumTo(g, k - 1) + b[k].bytes
  <2> DEFINE m == k - 1
  <2>1. m \in Nat /\ m + 1 = k
    BY <1>3, <1>1
  <2>2. (\A i \in 1..(m + 1) : f[i] \in Nat) /\ (\A i \in 1..(m + 1) : g[i] \in Nat)
    BY <2>1, <1>1
  <2> HIDE DEF m
  <2>3. SumTo(f, m + 1) = SumTo(f, m) + f[m + 1] /\ SumTo(g, m + 1) = SumTo(g, m) + g[m + 1]
    BY <2>1, <2>2, SumToStep
  <2>4. f[k] = b[k].frames /\ g[k] = b[k].bytes
    BY <1>1, <1>3
  <2> QED BY <2>1, <2>3, <2>4 DEF m
<1>4. k > 0 => AllCredits(b, k - 1)
  BY <1>0 DEF AllCredits
<1> QED BY <1>2, <1>3, <1>4 DEF Posted, PostedBytes, f, g

\* A new message leaves what the earlier ones post alone.
LEMMA PostedAppend ==
  ASSUME NEW b \in Seq(Credit \cup Close), NEW x \in Credit \cup Close
  PROVE  /\ \A k : AllCredits(b, k) => /\ AllCredits(Append(b, x), k)
                                       /\ Posted(Append(b, x), k) = Posted(b, k)
                                       /\ PostedBytes(Append(b, x), k) = PostedBytes(b, k)
         /\ AllCredits(b, Len(b)) /\ x \in Credit =>
              /\ AllCredits(Append(b, x), Len(b) + 1)
              /\ Posted(Append(b, x), Len(b) + 1) = Posted(b, Len(b)) + x.frames
              /\ PostedBytes(Append(b, x), Len(b) + 1) = PostedBytes(b, Len(b)) + x.bytes
<1> DEFINE c == Append(b, x)
<1>0. Len(b) \in Nat
  BY LenProperties
<1>1. /\ c \in Seq(Credit \cup Close) /\ Len(c) = Len(b) + 1 /\ c[Len(b) + 1] = x
      /\ \A i \in 1..Len(b) : c[i] = b[i]
  BY AppendProperties
<1> HIDE DEF c
<1>2. ASSUME NEW k, AllCredits(b, k)
      PROVE  AllCredits(c, k) /\ Posted(c, k) = Posted(b, k) /\ PostedBytes(c, k) = PostedBytes(b, k)
  <2>1. AllCredits(c, k)
    BY <1>0, <1>1, <1>2 DEF AllCredits
  <2> DEFINE f == FramesOf(b)
             g == BytesOf(b)
             f1 == FramesOf(c)
             g1 == BytesOf(c)
  <2>2. /\ k \in Nat /\ k <= Len(b)
        /\ \A i \in 1..k : f[i] = b[i].frames /\ f[i] \in Nat /\ g[i] = b[i].bytes /\ g[i] \in Nat
    BY <1>2, CreditNumbers
  <2>3. \A i \in 1..k : f1[i] = c[i].frames /\ g1[i] = c[i].bytes
    BY <1>1, <2>1, CreditNumbers
  <2>4. \A i \in 1..k : c[i] = b[i]
    BY <1>0, <1>1, <2>2
  <2> HIDE DEF f, g, f1, g1
  <2>5. (\A i \in 1..k : f[i] \in Nat /\ f1[i] = f[i]) /\ (\A i \in 1..k : g[i] \in Nat /\ g1[i] = g[i])
    BY <2>2, <2>3, <2>4
  <2>6. SumTo(f1, k) = SumTo(f, k) /\ SumTo(g1, k) = SumTo(g, k)
    BY <2>2, <2>5, SumToSame
  <2> QED BY <2>1, <2>6 DEF f, g, f1, g1, Posted, PostedBytes
<1>3. ASSUME AllCredits(b, Len(b)), x \in Credit
      PROVE  /\ AllCredits(c, Len(b) + 1)
             /\ Posted(c, Len(b) + 1) = Posted(b, Len(b)) + x.frames
             /\ PostedBytes(c, Len(b) + 1) = PostedBytes(b, Len(b)) + x.bytes
  <2> DEFINE n == Len(b) + 1
  <2>1. n \in Nat /\ n > 0 /\ n - 1 = Len(b) /\ n = Len(c)
    BY <1>0, <1>1
  <2>2. AllCredits(c, n)
    BY <1>0, <1>1, <1>3, <2>1 DEF AllCredits
  <2>3. c[n] = x
    BY <1>1
  <2> HIDE DEF n
  <2>4. Posted(c, n) = Posted(c, n - 1) + c[n].frames /\ PostedBytes(c, n) = PostedBytes(c, n - 1) + c[n].bytes
    BY <1>1, <2>1, <2>2, PostedType
  <2>5. Posted(c, n - 1) = Posted(b, Len(b)) /\ PostedBytes(c, n - 1) = PostedBytes(b, Len(b))
    BY <1>2, <1>3, <2>1
  <2> QED BY <2>2, <2>3, <2>4, <2>5 DEF n
<1> QED BY <1>2, <1>3 DEF c

\* Once the first message is taken the others post that much less.
LEMMA PostedTail ==
  ASSUME NEW b \in Seq(Credit \cup Close), b # << >>, NEW k \in Nat, AllCredits(b, k + 1)
  PROVE  /\ AllCredits(Tail(b), k)
         /\ Posted(b, k + 1) = b[1].frames + Posted(Tail(b), k)
         /\ PostedBytes(b, k + 1) = b[1].bytes + PostedBytes(Tail(b), k)
<1> DEFINE c == Tail(b)
<1>0. Len(b) \in Nat /\ Len(b) > 0
  BY LenProperties, EmptySeq
<1>1. c \in Seq(Credit \cup Close) /\ Len(c) = Len(b) - 1 /\ \A i \in 1..Len(c) : c[i] = b[i + 1]
  BY HeadTailProperties
<1> HIDE DEF c
<1>2. AllCredits(c, k)
  BY <1>0, <1>1 DEF AllCredits
<1> DEFINE f == FramesOf(b)
           g == BytesOf(b)
           f1 == FramesOf(c)
           g1 == BytesOf(c)
<1>3. \A i \in 1..(k + 1) : f[i] = b[i].frames /\ f[i] \in Nat /\ g[i] = b[i].bytes /\ g[i] \in Nat
  BY CreditNumbers
<1>4. \A i \in 1..k : f1[i] = c[i].frames /\ g1[i] = c[i].bytes
  BY <1>1, <1>2, CreditNumbers
<1>5. \A i \in 1..k : c[i] = b[1 + i]
  BY <1>0, <1>1, <1>2 DEF AllCredits
<1> HIDE DEF f, g, f1, g1
<1>6. (\A i \in 1..k : f1[i] = f[i + 1]) /\ (\A i \in 1..k : g1[i] = g[i + 1])
  <2>1. SUFFICES ASSUME NEW i \in 1..k  PROVE f1[i] = f[i + 1] /\ g1[i] = g[i + 1]
    OBVIOUS
  <2>2. PICK j : j = i + 1
    OBVIOUS
  <2>3. j \in 1..(k + 1) /\ 1 + i = j
    BY <2>2
  <2>4. c[i] = b[j]
    BY <1>5, <2>3
  <2>5. f[j] = b[j].frames /\ g[j] = b[j].bytes
    BY <1>3, <2>3
  <2> QED BY <1>4, <2>2, <2>4, <2>5
<1>7. (\A i \in 1..(k + 1) : f[i] \in Nat) /\ (\A i \in 1..(k + 1) : g[i] \in Nat)
  BY <1>3
<1>8. SumTo(f, k + 1) = f[1] + SumTo(f1, k)
  BY <1>6, <1>7, SumToTail
<1>9. SumTo(g, k + 1) = g[1] + SumTo(g1, k)
  BY <1>6, <1>7, SumToTail
<1>10. f[1] = b[1].frames /\ g[1] = b[1].bytes
  BY <1>3
<1> QED BY <1>2, <1>8, <1>9, <1>10 DEF f, g, f1, g1, c, Posted, PostedBytes

-----------------------------------------------------------------------------
(***************************************************************************)
(* The flow of credit while an attachment is open: its ledger s is what    *)
(* the messages b on their way back repay, then what the consumer owes     *)
(* (o), then what is on the wire w; c says whether the consumer listens.   *)
(* A close is the last message back, and nobody owes anything behind it.   *)
(***************************************************************************)
CloseIsLast(b, c) == \A j \in 1..Len(b) : b[j] \in Close => j = Len(b) /\ c = "closed"

CreditsOK(s, b) ==
  \A j \in 1..Len(b) : b[j] \in Credit =>
    /\ b[j].frames > 0
    /\ Posted(b, j) <= Len(s)
    /\ PostedBytes(b, j) = PrefixBytes(s, Posted(b, j))
    /\ b[j].through = s[Posted(b, j)].through

OwedOK(s, p, o) ==
  /\ p + o.frames <= Len(s)
  /\ PrefixBytes(s, p) + o.bytes = PrefixBytes(s, p + o.frames)
  /\ o.frames > 0 => o.through = s[p + o.frames].through

WireOK(s, p, w) ==
  /\ Len(s) = p + Len(w)
  /\ \A i \in 1..Len(w) : w[i] \in FrameMessage /\ w[i].size = s[p + i].size /\ w[i].through = s[p + i].through

FlowTypes(s, b, o, w) ==
  s \in Seq(Entry) /\ b \in Seq(Credit \cup Close) /\ o \in Credit /\ w \in Seq(Message)

FlowOK(s, b, o, w, c) ==
  /\ CloseIsLast(b, c)
  /\ CreditsOK(s, b)
  /\ c = "open" => /\ OwedOK(s, Posted(b, Len(b)), o)
                   /\ WireOK(s, Posted(b, Len(b)) + o.frames, w)

\* All messages are credits before the last one, and all of them while the consumer
\* listens.
LEMMA CreditsBefore ==
  ASSUME NEW b \in Seq(Credit \cup Close), NEW c, CloseIsLast(b, c)
  PROVE  /\ \A j \in 1..Len(b) : b[j] \in Credit => AllCredits(b, j)
         /\ c = "open" => AllCredits(b, Len(b))
<1>1. Len(b) \in Nat /\ \A i \in 1..Len(b) : b[i] \in Credit \cup Close
  BY LenProperties, ElementOfSeq
<1>2. ASSUME NEW j \in 1..Len(b), b[j] \in Credit, NEW i \in 1..j  PROVE b[i] \in Credit
  <2>1. CASE i = j
    BY <1>2, <2>1
  <2>2. CASE i # j
    <3>1. i \in 1..Len(b) /\ i # Len(b)
      BY <1>1, <2>2
    <3> QED BY <3>1, <1>1 DEF CloseIsLast
  <2> QED BY <2>1, <2>2
<1>3. ASSUME c = "open", NEW i \in 1..Len(b)  PROVE b[i] \in Credit
  BY <1>1, <1>3 DEF CloseIsLast
<1> QED BY <1>1, <1>2, <1>3 DEF AllCredits

\* An entry that joins the ledger leaves what is on its way back in order.
LEMMA CreditsAppend ==
  ASSUME NEW s \in Seq(Entry), NEW e \in Entry, NEW b \in Seq(Credit \cup Close), NEW c, CloseIsLast(b, c),
         CreditsOK(s, b)
  PROVE  CreditsOK(Append(s, e), b)
<1> DEFINE t == Append(s, e)
<1>1. Len(s) \in Nat /\ Len(t) = Len(s) + 1 /\ \A i \in 1..Len(s) : t[i] = s[i]
  BY LenProperties, AppendProperties
<1>2. \A k \in 0..Len(s) : PrefixBytes(t, k) = PrefixBytes(s, k)
  BY PrefixAppend
<1> HIDE DEF t
<1>3. SUFFICES ASSUME NEW j \in 1..Len(b), b[j] \in Credit
               PROVE  /\ b[j].frames > 0
                      /\ Posted(b, j) <= Len(t)
                      /\ PostedBytes(b, j) = PrefixBytes(t, Posted(b, j))
                      /\ b[j].through = t[Posted(b, j)].through
  BY DEF CreditsOK, t
<1>4. /\ b[j].frames > 0
      /\ Posted(b, j) <= Len(s)
      /\ PostedBytes(b, j) = PrefixBytes(s, Posted(b, j))
      /\ b[j].through = s[Posted(b, j)].through
  BY <1>3 DEF CreditsOK
<1>5. AllCredits(b, j) /\ j > 0
  BY <1>3, CreditsBefore
<1>6. /\ Posted(b, j) \in Nat /\ AllCredits(b, j - 1)
      /\ Posted(b, j) = Posted(b, j - 1) + b[j].frames
  BY <1>5, PostedType
<1>7. Posted(b, j - 1) \in Nat /\ b[j].frames \in Nat
  BY <1>3, <1>6, PostedType, CreditOrClose
<1>8. Posted(b, j) \in 1..Len(s)
  BY <1>1, <1>4, <1>6, <1>7
<1> QED BY <1>1, <1>2, <1>4, <1>8

\* The launcher sends: the entry joins the ledger and the wire.
LEMMA FlowSend ==
  ASSUME NEW s, NEW b, NEW o, NEW w, NEW c, FlowTypes(s, b, o, w), FlowOK(s, b, o, w, c),
         NEW e \in Entry, NEW x \in FrameMessage, x.size = e.size, x.through = e.through
  PROVE  FlowOK(Append(s, e), b, o, Append(w, x), c)
<1> DEFINE t == Append(s, e)
           v == Append(w, x)
           p == Posted(b, Len(b))
<1>0. s \in Seq(Entry) /\ b \in Seq(Credit \cup Close) /\ o \in Credit /\ w \in Seq(Message)
  BY DEF FlowTypes
<1>1. CloseIsLast(b, c) /\ CreditsOK(t, b)
  BY <1>0, CreditsAppend DEF FlowOK
<1>2. /\ Len(s) \in Nat /\ Len(t) = Len(s) + 1 /\ t[Len(s) + 1] = e /\ \A i \in 1..Len(s) : t[i] = s[i]
      /\ Len(w) \in Nat /\ Len(v) = Len(w) + 1 /\ v[Len(w) + 1] = x /\ \A i \in 1..Len(w) : v[i] = w[i]
  <2>1. x \in Message
    BY DEF Message
  <2> QED BY <1>0, <2>1, LenProperties, AppendProperties
<1>3. \A k \in 0..Len(s) : PrefixBytes(t, k) = PrefixBytes(s, k)
  BY <1>0, PrefixAppend
<1> HIDE DEF t, v
<1>4. ASSUME c = "open"  PROVE OwedOK(t, p, o) /\ WireOK(t, p + o.frames, v)
  <2>1. OwedOK(s, p, o) /\ WireOK(s, p + o.frames, w)
    BY <1>4 DEF FlowOK
  <2>2. p \in Nat /\ o.frames \in Nat
    BY <1>0, <1>1, <1>4, CreditsBefore, PostedType, CreditOrClose
  <2> HIDE DEF p
  <2>3. OwedOK(t, p, o)
    <3>1. p \in 0..Len(s) /\ p + o.frames \in 0..Len(s) /\ (o.frames > 0 => p + o.frames \in 1..Len(s))
      BY <1>2, <2>1, <2>2 DEF OwedOK
    <3> QED BY <1>2, <1>3, <2>1, <2>2, <3>1 DEF OwedOK
  <2> DEFINE q == p + o.frames
  <2>4. q \in Nat /\ WireOK(s, q, w)
    BY <2>1, <2>2
  <2> HIDE DEF q
  <2>5. WireOK(t, q, v)
    <3>1. Len(s) = q + Len(w)
      BY <2>4 DEF WireOK
    <3>2. Len(t) = q + Len(v)
      BY <1>2, <2>4, <3>1
    <3>3. ASSUME NEW i \in 1..Len(v)
          PROVE  v[i] \in FrameMessage /\ v[i].size = t[q + i].size /\ v[i].through = t[q + i].through
      <4>1. CASE i = Len(w) + 1
        BY <1>2, <2>4, <3>1, <4>1
      <4>2. CASE i # Len(w) + 1
        <5>1. i \in 1..Len(w) /\ q + i \in 1..Len(s)
          BY <1>2, <2>4, <3>1, <4>2
        <5>2. v[i] = w[i] /\ t[q + i] = s[q + i]
          BY <1>2, <5>1
        <5> QED BY <2>4, <5>1, <5>2 DEF WireOK
      <4> QED BY <4>1, <4>2
    <3> QED BY <3>2, <3>3 DEF WireOK
  <2> QED BY <2>3, <2>5 DEF q
<1> QED BY <1>1, <1>4 DEF FlowOK, t, v, p

\* What the statement says while the consumer listens: all messages are credits,
\* and numbers and places of what it owes.
LEMMA OpenFlow ==
  ASSUME NEW s, NEW b, NEW o, NEW w, FlowTypes(s, b, o, w), FlowOK(s, b, o, w, "open"),
         NEW p, p = Posted(b, Len(b))
  PROVE  /\ AllCredits(b, Len(b))
         /\ p \in Nat /\ o.frames \in Nat /\ o.bytes \in Nat /\ o.through \in Nat
         /\ OwedOK(s, p, o) /\ WireOK(s, p + o.frames, w)
         /\ Len(s) \in Nat /\ Len(w) \in Nat
         /\ p \in 0..Len(s) /\ p + o.frames \in 0..Len(s)
         /\ PostedBytes(b, Len(b)) = PrefixBytes(s, p)
<1>1. s \in Seq(Entry) /\ b \in Seq(Credit \cup Close) /\ o \in Credit /\ w \in Seq(Message)
  BY DEF FlowTypes
<1>2. AllCredits(b, Len(b))
  BY <1>1, CreditsBefore DEF FlowOK
<1>3. p \in Nat /\ o.frames \in Nat /\ o.bytes \in Nat /\ o.through \in Nat
  BY <1>1, <1>2, PostedType, CreditOrClose
<1>4. OwedOK(s, p, o) /\ WireOK(s, p + o.frames, w)
  BY DEF FlowOK
<1>5. Len(s) \in Nat /\ Len(w) \in Nat /\ Len(b) \in Nat
  BY <1>1, LenProperties
<1>6. p \in 0..Len(s) /\ p + o.frames \in 0..Len(s)
  BY <1>3, <1>4, <1>5 DEF OwedOK
<1>7. PostedBytes(b, Len(b)) = PrefixBytes(s, p)
  <2>1. CASE Len(b) = 0
    <3>1. Posted(b, 0) = 0 /\ PostedBytes(b, 0) = 0
      BY <1>1, <1>2, PostedType
    <3>2. PrefixBytes(s, 0) = 0
      <4>1. 0 \in 0..Len(s)
        BY <1>5
      <4> QED BY <1>1, <4>1, PrefixType
    <3> QED BY <2>1, <3>1, <3>2
  <2>2. CASE Len(b) # 0
    <3>1. Len(b) \in 1..Len(b)
      BY <1>5, <2>2
    <3>2. b[Len(b)] \in Credit
      BY <1>2, <3>1 DEF AllCredits
    <3>3. CreditsOK(s, b)
      BY DEF FlowOK
    <3> QED BY <3>1, <3>2, <3>3 DEF CreditsOK
  <2> QED BY <2>1, <2>2
<1> QED BY <1>2, <1>3, <1>4, <1>5, <1>6, <1>7

\* The consumer takes a frame off the wire and owes its credit.
LEMMA FlowTake ==
  ASSUME NEW s, NEW b, NEW o, NEW w, FlowTypes(s, b, o, w), FlowOK(s, b, o, w, "open"), w # << >>,
         NEW u, u = [frames |-> o.frames + 1, bytes |-> o.bytes + Head(w).size, through |-> Head(w).through]
  PROVE  Head(w) \in FrameMessage /\ FlowOK(s, b, u, Tail(w), "open")
<1> DEFINE p == Posted(b, Len(b))
           q == p + o.frames
           v == Tail(w)
<1>0. s \in Seq(Entry) /\ w \in Seq(Message)
  BY DEF FlowTypes
<1>1. /\ p \in Nat /\ o.frames \in Nat /\ o.bytes \in Nat /\ Len(s) \in Nat
      /\ OwedOK(s, p, o) /\ WireOK(s, q, w) /\ q \in 0..Len(s)
  BY OpenFlow
<1>2. CloseIsLast(b, "open") /\ CreditsOK(s, b)
  BY DEF FlowOK
<1>3. /\ Len(w) \in Nat /\ Len(w) > 0 /\ Head(w) = w[1]
      /\ Len(v) = Len(w) - 1 /\ \A i \in 1..Len(v) : v[i] = w[i + 1]
  BY <1>0, HeadTailProperties, EmptySeq, LenProperties
<1> HIDE DEF p, v
<1>4. /\ Len(s) = q + Len(w)
      /\ \A i \in 1..Len(w) : w[i] \in FrameMessage /\ w[i].size = s[q + i].size /\ w[i].through = s[q + i].through
  BY <1>1 DEF WireOK
<1>5. w[1] \in FrameMessage /\ w[1].size = s[q + 1].size /\ w[1].through = s[q + 1].through
  BY <1>3, <1>4
<1>6. u.frames = o.frames + 1 /\ u.bytes = o.bytes + s[q + 1].size /\ u.through = s[q + 1].through
  BY <1>3, <1>5
<1>7. q + 1 = p + u.frames /\ q + 1 \in 1..Len(s) /\ q \in Nat
  <2>1. q + 1 = p + u.frames
    BY <1>1, <1>6
  <2>2. q \in Nat
    BY <1>1
  <2> HIDE DEF q
  <2> QED BY <1>3, <1>4, <2>1, <2>2
<1>8. OwedOK(s, p, u)
  <2> DEFINE k == q + 1
  <2>1. k \in 0..Len(s) /\ k > 0 /\ k - 1 = q
    BY <1>1, <1>7
  <2> HIDE DEF k
  <2>2. PrefixBytes(s, k) = PrefixBytes(s, k - 1) + s[k].size
    BY <1>0, <2>1, PrefixType
  <2>3. PrefixBytes(s, q + 1) = PrefixBytes(s, q) + s[q + 1].size
    BY <2>1, <2>2 DEF k
  <2>4. PrefixBytes(s, p) + o.bytes = PrefixBytes(s, q)
    BY <1>1 DEF OwedOK
  <2>5. PrefixBytes(s, p) \in Nat /\ s[q + 1].size \in Nat
    <3>1. p \in 0..Len(s)
      BY <1>1
    <3> QED BY <1>0, <1>7, <3>1, PrefixType, Entries
  <2>6. PrefixBytes(s, p) + u.bytes = PrefixBytes(s, q + 1)
    <3> DEFINE P == PrefixBytes(s, p)
               Q == PrefixBytes(s, q)
               z == s[q + 1].size
    <3>1. P \in Nat /\ z \in Nat /\ o.bytes \in Nat /\ P + o.bytes = Q
      BY <1>1, <2>4, <2>5
    <3> HIDE DEF P, Q, z
    <3>2. P + (o.bytes + z) = Q + z
      BY <3>1
    <3> QED BY <3>2, <2>3, <1>6 DEF P, Q, z
  <2> QED BY <1>6, <1>7, <2>6 DEF OwedOK
<1>9. WireOK(s, q + 1, v)
  <2>1. Len(s) = (q + 1) + Len(v)
    BY <1>3, <1>4, <1>7
  <2>2. ASSUME NEW i \in 1..Len(v)
        PROVE  v[i] \in FrameMessage /\ v[i].size = s[(q + 1) + i].size /\ v[i].through = s[(q + 1) + i].through
    <3>1. PICK j : j = i + 1
      OBVIOUS
    <3> HIDE DEF q
    <3>2. j \in 1..Len(w) /\ (q + 1) + i = q + j
      BY <1>3, <1>7, <3>1
    <3>3. v[i] = w[j]
      BY <1>3, <3>1
    <3> QED BY <1>4, <3>2, <3>3
  <2> QED BY <2>1, <2>2 DEF WireOK
<1>10. OwedOK(s, Posted(b, Len(b)), u) /\ WireOK(s, Posted(b, Len(b)) + u.frames, Tail(w))
  BY <1>7, <1>8, <1>9 DEF p, v
<1> QED BY <1>2, <1>3, <1>5, <1>10 DEF FlowOK

\* A consumer that no longer listens owes nothing, whatever is still on the wire.
LEMMA FlowDeaf ==
  ASSUME NEW s, NEW b, NEW o, NEW w, NEW c, FlowOK(s, b, o, w, c), c # "open", NEW u, NEW v
  PROVE  FlowOK(s, b, u, v, c)
  BY DEF FlowOK

\* A message appended behind the credits: they stay in order, and if it is a close
\* it is the last.
LEMMA BackAppend ==
  ASSUME NEW s \in Seq(Entry), NEW b \in Seq(Credit \cup Close), AllCredits(b, Len(b)), CreditsOK(s, b),
         NEW x \in Credit \cup Close,
         x \in Credit => /\ x.frames > 0
                         /\ Posted(b, Len(b)) + x.frames <= Len(s)
                         /\ PostedBytes(b, Len(b)) + x.bytes = PrefixBytes(s, Posted(b, Len(b)) + x.frames)
                         /\ x.through = s[Posted(b, Len(b)) + x.frames].through
  PROVE  CreditsOK(s, Append(b, x))
<1> DEFINE d == Append(b, x)
           n == Len(b)
<1>1. /\ n \in Nat /\ Len(d) = n + 1 /\ d[n + 1] = x
      /\ \A i \in 1..n : d[i] = b[i]
  BY LenProperties, AppendProperties
<1>2. \A k : AllCredits(b, k) => Posted(d, k) = Posted(b, k) /\ PostedBytes(d, k) = PostedBytes(b, k)
  BY PostedAppend
<1>3. x \in Credit => /\ Posted(d, n + 1) = Posted(b, n) + x.frames
                      /\ PostedBytes(d, n + 1) = PostedBytes(b, n) + x.bytes
  BY PostedAppend
<1> HIDE DEF d, n
<1>4. ASSUME NEW j \in 1..(n + 1), d[j] \in Credit
      PROVE  /\ d[j].frames > 0
             /\ Posted(d, j) <= Len(s)
             /\ PostedBytes(d, j) = PrefixBytes(s, Posted(d, j))
             /\ d[j].through = s[Posted(d, j)].through
  <2>1. CASE j = n + 1
    <3>1. d[j] = x /\ x \in Credit
      BY <1>1, <1>4, <2>1
    <3>2. Posted(d, j) = Posted(b, n) + x.frames /\ PostedBytes(d, j) = PostedBytes(b, n) + x.bytes
      BY <1>3, <2>1, <3>1
    <3> QED BY <3>1, <3>2 DEF n
  <2>2. CASE j # n + 1
    <3>1. j \in 1..n /\ d[j] = b[j]
      BY <1>1, <2>2
    <3>2. AllCredits(b, j)
      BY <1>1, <3>1 DEF AllCredits, n
    <3>3. b[j] \in Credit
      BY <1>4, <3>1
    <3>4. /\ b[j].frames > 0
          /\ Posted(b, j) <= Len(s)
          /\ PostedBytes(b, j) = PrefixBytes(s, Posted(b, j))
          /\ b[j].through = s[Posted(b, j)].through
      BY <3>1, <3>3 DEF CreditsOK, n
    <3> QED BY <1>2, <3>1, <3>2, <3>4
  <2> QED BY <2>1, <2>2
<1> QED BY <1>1, <1>4 DEF CreditsOK, d, n

\* Owing nothing, with everything below p repaid.
LEMMA OwesNothing ==
  ASSUME NEW s \in Seq(Entry), NEW p \in 0..Len(s)
  PROVE  OwedOK(s, p, Nothing)
<1>1. Nothing.frames = 0 /\ Nothing.bytes = 0
  BY DEF Nothing
<1>2. p + 0 = p /\ p <= Len(s)
  BY LenProperties
<1>3. PrefixBytes(s, p) \in Nat
  BY PrefixType
<1>4. PrefixBytes(s, p) + 0 = PrefixBytes(s, p)
  BY <1>3
<1> QED BY <1>1, <1>2, <1>4 DEF OwedOK

\* The consumer returns what it owes.
LEMMA FlowReturn ==
  ASSUME NEW s, NEW b, NEW o, NEW w, FlowTypes(s, b, o, w), FlowOK(s, b, o, w, "open"), o.frames > 0
  PROVE  FlowOK(s, Append(b, o), Nothing, w, "open")
<1> DEFINE p == Posted(b, Len(b))
           q == p + o.frames
           d == Append(b, o)
<1>0. s \in Seq(Entry) /\ b \in Seq(Credit \cup Close) /\ o \in Credit /\ o \in Credit \cup Close
  BY DEF FlowTypes
<1>1. /\ AllCredits(b, Len(b)) /\ p \in Nat /\ o.frames \in Nat /\ o.bytes \in Nat /\ Len(s) \in Nat
      /\ OwedOK(s, p, o) /\ WireOK(s, q, w) /\ q \in 0..Len(s)
      /\ PostedBytes(b, Len(b)) = PrefixBytes(s, p)
  BY OpenFlow
<1>2. CreditsOK(s, b)
  BY DEF FlowOK
<1>3. CreditsOK(s, d)
  <2>1. /\ p + o.frames <= Len(s)
        /\ PostedBytes(b, Len(b)) + o.bytes = PrefixBytes(s, p + o.frames)
        /\ o.through = s[p + o.frames].through
    BY <1>1 DEF OwedOK
  <2> QED BY <1>0, <1>1, <1>2, <2>1, BackAppend
<1>4. AllCredits(d, Len(d)) /\ Posted(d, Len(d)) = q /\ d \in Seq(Credit \cup Close)
  <2>1. Len(d) = Len(b) + 1 /\ d \in Seq(Credit \cup Close)
    BY <1>0, AppendProperties
  <2> QED BY <1>0, <1>1, <2>1, PostedAppend
<1> HIDE DEF d
<1>5. CloseIsLast(d, "open")
  <2>1. \A j \in 1..Len(d) : d[j] \in Credit
    BY <1>4 DEF AllCredits
  <2> QED BY <2>1, CreditOrClose DEF CloseIsLast
<1>6. OwedOK(s, q, Nothing) /\ q + Nothing.frames = q
  <2>1. q \in Nat /\ Nothing.frames = 0
    BY <1>1 DEF Nothing
  <2>2. OwedOK(s, q, Nothing)
    BY <1>0, <1>1, OwesNothing
  <2> HIDE DEF q
  <2> QED BY <2>1, <2>2
<1> QED BY <1>1, <1>3, <1>4, <1>5, <1>6 DEF FlowOK, d

\* The consumer closes: its close goes behind the credits it posted.
LEMMA FlowClose ==
  ASSUME NEW s, NEW b, NEW o, NEW w, FlowTypes(s, b, o, w), FlowOK(s, b, o, w, "open"),
         NEW x \in Close, NEW u
  PROVE  FlowOK(s, Append(b, x), u, w, "closed")
<1> DEFINE d == Append(b, x)
<1>0. s \in Seq(Entry) /\ b \in Seq(Credit \cup Close) /\ x \in Credit \cup Close
  BY DEF FlowTypes
<1>1. AllCredits(b, Len(b))
  BY OpenFlow
<1>2. CreditsOK(s, d)
  BY <1>0, <1>1, BackAppend, CreditOrClose DEF FlowOK
<1>3. /\ Len(b) \in Nat /\ Len(d) = Len(b) + 1
      /\ \A i \in 1..Len(b) : d[i] = b[i]
  BY <1>0, LenProperties, AppendProperties
<1> HIDE DEF d
<1>4. CloseIsLast(d, "closed")
  <2>1. \A j \in 1..Len(d) : j # Len(d) => d[j] \in Credit
    BY <1>1, <1>3 DEF AllCredits
  <2> QED BY <2>1, CreditOrClose DEF CloseIsLast
<1> QED BY <1>2, <1>4 DEF FlowOK, d

\* The credit that arrives first repays the oldest entries of the ledger exactly.
LEMMA GrantIsValid ==
  ASSUME NEW s, NEW b, NEW o, NEW w, NEW c, FlowTypes(s, b, o, w), FlowOK(s, b, o, w, c),
         b # << >>, b[1] \in Credit
  PROVE  /\ b[1].frames \in 1..Len(s)
         /\ b[1].bytes = PrefixBytes(s, b[1].frames)
         /\ b[1].through = s[b[1].frames].through
<1>0. s \in Seq(Entry) /\ b \in Seq(Credit \cup Close) /\ Len(s) \in Nat
  BY LenProperties DEF FlowTypes
<1>1. 1 \in 1..Len(b)
  <2>1. Len(b) \in Nat /\ Len(b) # 0
    BY <1>0, LenProperties, EmptySeq
  <2> QED BY <2>1
<1>2. AllCredits(b, 1)
  BY <1>0, <1>1, CreditsBefore DEF FlowOK
<1>3. b[1].frames \in Nat /\ b[1].bytes \in Nat
  BY CreditOrClose
<1>4. Posted(b, 1) = b[1].frames /\ PostedBytes(b, 1) = b[1].bytes
  <2> DEFINE k == 1
  <2>1. k > 0 /\ k - 1 = 0 /\ AllCredits(b, k)
    BY <1>2
  <2> HIDE DEF k
  <2>2. /\ Posted(b, k) = Posted(b, k - 1) + b[k].frames
        /\ PostedBytes(b, k) = PostedBytes(b, k - 1) + b[k].bytes
        /\ Posted(b, 0) = 0 /\ PostedBytes(b, 0) = 0
    BY <1>0, <2>1, PostedType
  <2>3. /\ Posted(b, k) = 0 + b[k].frames
        /\ PostedBytes(b, k) = 0 + b[k].bytes
    BY <2>1, <2>2
  <2> QED BY <1>3, <2>3 DEF k
<1>5. CreditsOK(s, b)
  BY DEF FlowOK
<1> QED BY <1>0, <1>1, <1>3, <1>4, <1>5 DEF CreditsOK

\* A grant takes the credit and the entries it repays.
LEMMA FlowGrant ==
  ASSUME NEW s, NEW b, NEW o, NEW w, NEW c, FlowTypes(s, b, o, w), FlowOK(s, b, o, w, c),
         b # << >>, b[1] \in Credit
  PROVE  FlowOK(SubSeq(s, b[1].frames + 1, Len(s)), Tail(b), o, w, c)
<1> DEFINE g == b[1].frames
           t == SubSeq(s, g + 1, Len(s))
           d == Tail(b)
<1>0. /\ s \in Seq(Entry) /\ b \in Seq(Credit \cup Close) /\ o \in Credit /\ w \in Seq(Message)
      /\ Len(s) \in Nat
  BY LenProperties DEF FlowTypes
<1>1. g \in 1..Len(s) /\ g \in Nat /\ g \in 0..Len(s) /\ b[1].bytes = PrefixBytes(s, g)
  <2>1. g \in 1..Len(s) /\ b[1].bytes = PrefixBytes(s, g)
    BY GrantIsValid
  <2> HIDE DEF g
  <2> QED BY <1>0, <2>1
<1>2. /\ Len(b) \in Nat /\ Len(b) > 0 /\ Len(d) = Len(b) - 1 /\ Len(d) \in Nat
      /\ \A i \in 1..Len(d) : d[i] = b[i + 1]
  BY <1>0, HeadTailProperties, EmptySeq, LenProperties
<1>3. /\ Len(t) = Len(s) - g
      /\ \A k \in 1..(Len(s) - g) : t[k] = s[g + k]
      /\ \A k \in 0..(Len(s) - g) : PrefixBytes(s, g + k) = PrefixBytes(s, g) + PrefixBytes(t, k)
  BY <1>0, <1>1, PrefixBehind
<1>4. PrefixBytes(s, g) \in Nat /\ \A k \in 0..Len(t) : PrefixBytes(t, k) \in Nat
  BY <1>0, <1>1, PrefixType, PrefixBehind
<1>5. \A k \in Nat : AllCredits(b, k + 1) =>
        /\ AllCredits(d, k) /\ Posted(d, k) \in Nat /\ PostedBytes(d, k) \in Nat
        /\ Posted(b, k + 1) = g + Posted(d, k)
        /\ PostedBytes(b, k + 1) = PrefixBytes(s, g) + PostedBytes(d, k)
  <2>1. d \in Seq(Credit \cup Close)
    BY <1>0, HeadTailProperties
  <2> QED BY <1>0, <1>1, <2>1, PostedTail, PostedType
<1> HIDE DEF g, t, d
<1>6. CloseIsLast(d, c)
  <2>1. ASSUME NEW j \in 1..Len(d), d[j] \in Close  PROVE j = Len(d) /\ c = "closed"
    <3>1. j + 1 \in 1..Len(b) /\ b[j + 1] \in Close
      BY <1>2, <2>1
    <3>2. j + 1 = Len(b) /\ c = "closed"
      BY <3>1 DEF FlowOK, CloseIsLast
    <3> QED BY <1>2, <3>2
  <2> QED BY <2>1 DEF CloseIsLast
<1>7. CreditsOK(t, d)
  <2>1. SUFFICES ASSUME NEW j \in 1..Len(d), d[j] \in Credit
                 PROVE  /\ d[j].frames > 0
                        /\ Posted(d, j) <= Len(t)
                        /\ PostedBytes(d, j) = PrefixBytes(t, Posted(d, j))
                        /\ d[j].through = t[Posted(d, j)].through
    BY DEF CreditsOK
  <2>2. PICK i : i = j + 1
    OBVIOUS
  <2>3. i \in 1..Len(b) /\ b[i] = d[j] /\ b[i] \in Credit /\ j \in Nat
    BY <1>2, <2>1, <2>2
  <2>4. AllCredits(b, i)
    BY <1>0, <2>3, CreditsBefore DEF FlowOK
  <2>5. /\ b[i].frames > 0
        /\ Posted(b, i) <= Len(s)
        /\ PostedBytes(b, i) = PrefixBytes(s, Posted(b, i))
        /\ b[i].through = s[Posted(b, i)].through
    BY <2>3 DEF FlowOK, CreditsOK
  <2> DEFINE P == Posted(d, j)
             B == PostedBytes(d, j)
  <2>6. AllCredits(d, j) /\ P \in Nat /\ B \in Nat /\ Posted(b, i) = g + P /\ PostedBytes(b, i) = PrefixBytes(s, g) + B
    BY <1>5, <2>2, <2>3, <2>4
  <2>7. P > 0
    <3>1. d \in Seq(Credit \cup Close)
      BY <1>0, HeadTailProperties DEF d
    <3>2. j > 0
      BY <2>1
    <3>3. P = Posted(d, j - 1) + d[j].frames /\ AllCredits(d, j - 1)
      BY <2>6, <3>1, <3>2, PostedType
    <3>4. Posted(d, j - 1) \in Nat /\ d[j].frames \in Nat /\ d[j].frames > 0
      BY <2>1, <2>3, <2>5, <3>1, <3>3, PostedType, CreditOrClose
    <3> HIDE DEF P
    <3> QED BY <3>3, <3>4
  <2> HIDE DEF P, B
  <2>8. P \in 1..(Len(s) - g) /\ P \in 0..(Len(s) - g) /\ P \in 0..Len(t) /\ P <= Len(t)
    BY <1>0, <1>1, <1>3, <2>5, <2>6, <2>7
  <2>9. B = PrefixBytes(t, P)
    <3>1. PrefixBytes(s, g) + B = PrefixBytes(s, g) + PrefixBytes(t, P)
      BY <1>3, <2>5, <2>6, <2>8
    <3>2. PrefixBytes(t, P) \in Nat
      BY <1>4, <2>8
    <3> QED BY <1>4, <2>6, <3>1, <3>2
  <2>10. t[P] = s[g + P]
    BY <1>3, <2>8
  <2> QED BY <2>3, <2>5, <2>6, <2>8, <2>9, <2>10 DEF P, B
<1>8. ASSUME c = "open"
      PROVE  OwedOK(t, Posted(d, Len(d)), o) /\ WireOK(t, Posted(d, Len(d)) + o.frames, w)
  <2> DEFINE p == Posted(b, Len(b))
             P == Posted(d, Len(d))
  <2>1. /\ AllCredits(b, Len(b)) /\ o.frames \in Nat /\ o.bytes \in Nat
        /\ OwedOK(s, p, o) /\ WireOK(s, p + o.frames, w)
        /\ Len(w) \in Nat
    BY <1>8, OpenFlow
  <2>2. PICK k \in Nat : k = Len(d)
    BY <1>2
  <2>3. k + 1 = Len(b)
    BY <1>2, <2>2
  <2>4. P \in Nat /\ p = g + P
    BY <1>5, <2>1, <2>2, <2>3
  <2> HIDE DEF p, P
  <2>5. /\ p + o.frames <= Len(s)
        /\ PrefixBytes(s, p) + o.bytes = PrefixBytes(s, p + o.frames)
        /\ o.frames > 0 => o.through = s[p + o.frames].through
    BY <2>1 DEF OwedOK
  <2> DEFINE Q == P + o.frames
  <2>6. Q \in Nat /\ p + o.frames = g + Q /\ P \in 0..(Len(s) - g) /\ Q \in 0..(Len(s) - g) /\ Q <= Len(t)
        /\ (o.frames > 0 => Q \in 1..(Len(s) - g))
    <3>1. Q \in Nat /\ p + o.frames = g + Q /\ P <= Q /\ (o.frames > 0 => Q > 0)
      BY <1>1, <2>1, <2>4
    <3> HIDE DEF Q
    <3> QED BY <1>0, <1>1, <1>3, <2>4, <2>5, <3>1
  <2>7. OwedOK(t, P, o)
    <3>1. PrefixBytes(s, p) = PrefixBytes(s, g) + PrefixBytes(t, P)
      BY <1>3, <2>4, <2>6
    <3>2. PrefixBytes(s, g + Q) = PrefixBytes(s, g) + PrefixBytes(t, Q)
      BY <1>3, <2>6
    <3>3. PrefixBytes(t, P) \in Nat /\ PrefixBytes(t, Q) \in Nat
      <4>1. P \in 0..Len(t) /\ Q \in 0..Len(t)
        BY <1>3, <2>6
      <4> QED BY <1>4, <4>1
    <3>4. PrefixBytes(t, P) + o.bytes = PrefixBytes(t, Q)
      <4> DEFINE A == PrefixBytes(s, g)
                 X == PrefixBytes(t, P)
                 Y == PrefixBytes(t, Q)
                 z == o.bytes
      <4>1. (A + X) + z = A + Y
        BY <2>5, <2>6, <3>1, <3>2
      <4>2. A \in Nat /\ X \in Nat /\ Y \in Nat /\ z \in Nat
        BY <1>4, <2>1, <3>3
      <4> HIDE DEF A, X, Y, z
      <4>3. X + z = Y
        BY <4>1, <4>2
      <4> QED BY <4>3 DEF X, Y, z
    <3>5. o.frames > 0 => t[Q] = s[p + o.frames]
      BY <1>3, <2>6
    <3> QED BY <2>5, <2>6, <3>4, <3>5 DEF OwedOK
  <2>8. WireOK(t, Q, w)
    <3> DEFINE q == p + o.frames
    <3>1. /\ Len(s) = q + Len(w)
          /\ \A i \in 1..Len(w) : w[i] \in FrameMessage /\ w[i].size = s[q + i].size /\ w[i].through = s[q + i].through
      BY <2>1 DEF WireOK
    <3>2. q = g + Q
      BY <2>6
    <3>3. Q \in Nat
      BY <2>6
    <3> HIDE DEF q, Q
    <3>4. Len(t) = Q + Len(w)
      BY <1>1, <1>3, <2>1, <3>1, <3>2, <3>3
    <3>5. ASSUME NEW i \in 1..Len(w)  PROVE t[Q + i] = s[q + i]
      <4>1. Q + i \in 1..(Len(s) - g) /\ g + (Q + i) = q + i
        BY <1>0, <1>1, <2>1, <3>1, <3>2, <3>3
      <4> QED BY <1>3, <4>1
    <3> QED BY <3>1, <3>4, <3>5 DEF WireOK
  <2> QED BY <2>7, <2>8 DEF P, Q
<1> QED BY <1>6, <1>7, <1>8 DEF FlowOK, g, t, d

\* Frames and bytes of a ledger are on the wire, with the consumer or on their way back.
AddsUp(s, b, o, w) ==
  LET flying == {i \in DOMAIN w : w[i].kind = "frame"} IN
    /\ Len(s) = Cardinality(flying) + o.frames + SumFunction([i \in DOMAIN b |-> b[i].frames])
    /\ PrefixBytes(s, Len(s)) = SumFunction([i \in flying |-> w[i].size]) + o.bytes
         + SumFunction([i \in DOMAIN b |-> b[i].bytes])

\* While the consumer listens the ledger adds up.
LEMMA FlowAddsUp ==
  ASSUME NEW s, NEW b, NEW o, NEW w, FlowTypes(s, b, o, w), FlowOK(s, b, o, w, "open")
  PROVE  AddsUp(s, b, o, w)
<1> DEFINE p == Posted(b, Len(b))
           q == p + o.frames
           n == Len(w)
           flying == {i \in DOMAIN w : w[i].kind = "frame"}
           flown == [i \in flying |-> w[i].size]
<1>0. s \in Seq(Entry) /\ b \in Seq(Credit \cup Close) /\ w \in Seq(Message)
  BY DEF FlowTypes
<1>1. /\ AllCredits(b, Len(b))
      /\ p \in Nat /\ o.frames \in Nat /\ o.bytes \in Nat
      /\ OwedOK(s, p, o) /\ WireOK(s, q, w)
      /\ Len(s) \in Nat /\ n \in Nat
      /\ p \in 0..Len(s) /\ q \in 0..Len(s)
      /\ PostedBytes(b, Len(b)) = PrefixBytes(s, p)
  BY OpenFlow
<1>2. DOMAIN w = 1..n /\ DOMAIN b = 1..Len(b)
  BY <1>0, LenProperties
<1>3. /\ SumFunction([i \in DOMAIN b |-> b[i].frames]) = p
      /\ SumFunction([i \in DOMAIN b |-> b[i].bytes]) = PostedBytes(b, Len(b))
  BY <1>2 DEF SumFunction, Posted, PostedBytes, SumTo, Sum, FramesOf, BytesOf
<1> HIDE DEF p, n
<1>4. flying = 1..n
  <2>1. \A i \in 1..n : w[i].kind = "frame"
    BY <1>1 DEF WireOK, FrameMessage, n
  <2> QED BY <1>2, <2>1
<1>5. Cardinality(flying) = n
  <2>1. Cardinality(1..n) = n
    <3>1. Cardinality(1..n) = IF 1 > n THEN 0 ELSE n - 1 + 1
      BY <1>1, FS_Interval
    <3> QED BY <3>1, <1>1
  <2> QED BY <1>4, <2>1
<1>6. SumFunction(flown) = SumTo(flown, n)
  <2>1. DOMAIN flown = flying
    OBVIOUS
  <2> QED BY <1>4, <2>1 DEF SumFunction, SumTo, Sum
<1> HIDE DEF q
<1>7. Len(s) = q + n
  BY <1>1 DEF WireOK, n
<1>8. Len(s) = n + o.frames + p
  BY <1>1, <1>7 DEF q
<1> DEFINE t == SubSeq(s, q + 1, Len(s))
<1>9. /\ t \in Seq(Entry) /\ Len(t) = n
      /\ \A k \in 1..n : t[k] = s[q + k]
      /\ PrefixBytes(s, q + n) = PrefixBytes(s, q) + PrefixBytes(t, n)
  <2>1. Len(s) - q = n /\ n \in 0..(Len(s) - q)
    BY <1>1, <1>7
  <2> QED BY <1>0, <1>1, <2>1, PrefixBehind
<1> HIDE DEF t
<1>10. PrefixBytes(t, n) = SumTo(flown, n)
  <2> DEFINE f == Sizes(t)
  <2>1. \A i \in 1..n : f[i] \in Nat /\ f[i] = t[i].size
    BY <1>9, Entries DEF Sizes
  <2>2. \A i \in 1..n : t[i].size = w[i].size
    BY <1>1, <1>9 DEF WireOK, n
  <2>3. \A i \in 1..n : flown[i] = w[i].size
    BY <1>4
  <2> HIDE DEF f, flown
  <2>4. \A i \in 1..n : f[i] \in Nat /\ flown[i] = f[i]
    BY <2>1, <2>2, <2>3
  <2>5. SumTo(flown, n) = SumTo(f, n)
    BY <1>1, <2>4, SumToSame
  <2> QED BY <2>5 DEF f, PrefixBytes, SumTo, Sum
<1>11. PrefixBytes(s, p) + o.bytes = PrefixBytes(s, q)
  BY <1>1 DEF OwedOK, q
<1>12. PrefixBytes(s, p) \in Nat /\ PrefixBytes(t, n) \in Nat
  <2>1. n \in 0..Len(t)
    BY <1>1, <1>9
  <2> QED BY <1>0, <1>1, <1>9, <2>1, PrefixType
<1> DEFINE A == PrefixBytes(s, p)
           F == PrefixBytes(t, n)
           z == o.bytes
<1>13. PrefixBytes(s, Len(s)) = (A + z) + F
  BY <1>7, <1>9, <1>11
<1>14. PrefixBytes(s, Len(s)) = F + z + A
  <2>1. A \in Nat /\ F \in Nat /\ z \in Nat
    BY <1>1, <1>12
  <2> HIDE DEF A, F, z
  <2> QED BY <2>1, <1>13
<1> HIDE DEF flown
<1>15. PrefixBytes(s, Len(s)) = SumFunction(flown) + o.bytes + PostedBytes(b, Len(b))
  BY <1>1, <1>6, <1>10, <1>14
<1>16. /\ Len(s) = Cardinality(flying) + o.frames + SumFunction([i \in DOMAIN b |-> b[i].frames])
       /\ PrefixBytes(s, Len(s)) = SumFunction(flown) + o.bytes + SumFunction([i \in DOMAIN b |-> b[i].bytes])
  BY <1>3, <1>5, <1>8, <1>15
<1> QED BY <1>16 DEF AddsUp, flown

-----------------------------------------------------------------------------
(***************************************************************************)
(* The queue of an attachment: its frames are numbered in the order they   *)
(* came in, and no lane has sent a later number than it still holds.       *)
(***************************************************************************)
QueueSizes(q) == [i \in DOMAIN q |-> q[i].frame.size]

QueueOK(q, bytes, p, last) ==
  /\ q \in Seq(ItemType) /\ p \in Nat /\ last \in [Lanes -> Nat]
  /\ bytes = SumTo(QueueSizes(q), Len(q))
  /\ \A i, j \in 1..Len(q) : i < j => q[i].n < q[j].n
  /\ \A i \in 1..Len(q) : q[i].n <= p
  /\ \A l \in Lanes : last[l] <= p
  /\ \A i \in 1..Len(q) : \A l \in LanesOf(q[i].frame) : last[l] < q[i].n

\* A queue's items, numbers and bytes.
LEMMA QueueTypes ==
  ASSUME NEW q \in Seq(ItemType)
  PROVE  /\ Len(q) \in Nat /\ DOMAIN q = 1..Len(q)
         /\ \A i \in 1..Len(q) :
              /\ q[i].frame \in GoodFrames /\ q[i].n \in Nat
              /\ q[i].frame.size \in Nat /\ q[i].frame.out \in Nat /\ q[i].frame.out <= q[i].frame.size
              /\ QueueSizes(q)[i] = q[i].frame.size /\ QueueSizes(q)[i] \in Nat
         /\ SumTo(QueueSizes(q), Len(q)) \in Nat
         /\ Len(q) = 0 => SumTo(QueueSizes(q), Len(q)) = 0
<1>1. Len(q) \in Nat /\ DOMAIN q = 1..Len(q)
  BY LenProperties
<1>2. \A i \in 1..Len(q) : q[i] \in ItemType
  BY ElementOfSeq
<1>3. \A x \in ItemType : x.frame \in GoodFrames /\ x.n \in Nat
  BY DEF ItemType
<1>4. \A f \in GoodFrames : f.size \in Nat /\ f.out \in Nat /\ f.out <= f.size
  BY DEF GoodFrames, FrameType
<1>5. \A i \in 1..Len(q) : QueueSizes(q)[i] = q[i].frame.size
  BY <1>1 DEF QueueSizes
<1>6. \A i \in 1..Len(q) : QueueSizes(q)[i] \in Nat
  BY <1>2, <1>3, <1>4, <1>5
<1>7. SumTo(QueueSizes(q), Len(q)) \in Nat /\ SumTo(QueueSizes(q), 0) = 0
  BY <1>1, <1>6, SumToType
<1> QED BY <1>1, <1>2, <1>3, <1>4, <1>5, <1>6, <1>7

\* Nothing queued.
LEMMA QueueEmpty ==
  ASSUME NEW p \in Nat, NEW last \in [Lanes -> Nat], \A l \in Lanes : last[l] <= p
  PROVE  QueueOK(<< >>, 0, p, last)
<1>1. << >> \in Seq(ItemType) /\ Len(<< >>) = 0
  BY EmptySeq
<1>2. SumTo(QueueSizes(<< >>), Len(<< >>)) = 0
  BY <1>1, QueueTypes
<1> QED BY <1>1, <1>2 DEF QueueOK

\* A frame joins the queue under the next number.
LEMMA QueuePush ==
  ASSUME NEW q, NEW bytes, NEW p, NEW last, QueueOK(q, bytes, p, last), NEW f \in GoodFrames
  PROVE  /\ QueueOK(Append(q, [frame |-> f, n |-> p + 1]), bytes + f.size, p + 1, last)
         /\ Len(Append(q, [frame |-> f, n |-> p + 1])) = Len(q) + 1
<1> DEFINE x == [frame |-> f, n |-> p + 1]
           t == Append(q, x)
<1>0. q \in Seq(ItemType) /\ p \in Nat /\ last \in [Lanes -> Nat] /\ bytes = SumTo(QueueSizes(q), Len(q))
  BY DEF QueueOK
<1>1. x \in ItemType
  BY <1>0 DEF ItemType
<1>2. x.frame = f /\ x.n = p + 1
  OBVIOUS
<1> HIDE DEF x
<1>3. /\ t \in Seq(ItemType) /\ Len(t) = Len(q) + 1 /\ t[Len(q) + 1] = x
      /\ \A i \in 1..Len(q) : t[i] = q[i]
  BY <1>0, <1>1, AppendProperties
<1> HIDE DEF t
<1> DEFINE n == Len(q)
<1>4. /\ n \in Nat
      /\ \A i \in 1..n : q[i].n \in Nat /\ q[i].n <= p /\ QueueSizes(q)[i] = q[i].frame.size /\ QueueSizes(q)[i] \in Nat
  BY <1>0, QueueTypes DEF QueueOK
<1> HIDE DEF n
<1>5. Len(t) = n + 1 /\ t[n + 1] = x /\ \A i \in 1..n : t[i] = q[i]
  BY <1>3 DEF n
<1>6. SumTo(QueueSizes(t), Len(t)) = bytes + f.size
  <2> DEFINE g == QueueSizes(t)
             h == QueueSizes(q)
  <2>1. \A i \in 1..(n + 1) : g[i] = t[i].frame.size /\ g[i] \in Nat
    BY <1>3, <1>5, QueueTypes
  <2>2. (\A i \in 1..n : h[i] \in Nat) /\ (\A i \in 1..n : h[i] = q[i].frame.size)
    BY <1>4
  <2> HIDE DEF g, h
  <2>3. \A i \in 1..n : h[i] \in Nat /\ g[i] = h[i]
    <3>1. \A i \in 1..n : i \in 1..(n + 1)
      BY <1>4
    <3> QED BY <1>5, <2>1, <2>2, <3>1
  <2>4. SumTo(g, n) = SumTo(h, n)
    BY <1>4, <2>3, SumToSame
  <2>5. SumTo(g, n + 1) = SumTo(g, n) + g[n + 1]
    BY <1>4, <2>1, SumToStep
  <2>6. g[n + 1] = f.size
    BY <1>2, <1>4, <1>5, <2>1
  <2> QED BY <1>0, <1>5, <2>4, <2>5, <2>6 DEF g, h, n
<1>7. ASSUME NEW i \in 1..(n + 1), NEW j \in 1..(n + 1), i < j  PROVE t[i].n < t[j].n
  <2>1. i \in 1..n /\ t[i] = q[i]
    BY <1>4, <1>5, <1>7
  <2>2. CASE j = n + 1
    BY <1>0, <1>2, <1>4, <1>5, <2>1, <2>2
  <2>3. CASE j # n + 1
    <3>1. j \in 1..n /\ t[j] = q[j]
      BY <1>4, <1>5, <2>3
    <3> QED BY <1>7, <2>1, <3>1 DEF QueueOK, n
  <2> QED BY <2>2, <2>3
<1>8. ASSUME NEW i \in 1..(n + 1)
      PROVE  t[i].n <= p + 1 /\ \A l \in LanesOf(t[i].frame) : last[l] < t[i].n
  <2>0. \A l \in Lanes : last[l] \in Nat /\ last[l] <= p
    BY <1>0 DEF QueueOK
  <2>1. CASE i = n + 1
    <3>1. \A l \in LanesOf(t[i].frame) : l \in Lanes
      BY DEF LanesOf
    <3> QED BY <1>0, <1>2, <1>5, <2>0, <2>1, <3>1
  <2>2. CASE i # n + 1
    <3>1. i \in 1..n /\ t[i] = q[i]
      BY <1>4, <1>5, <2>2
    <3>2. q[i].n \in Nat /\ q[i].n <= p
      BY <1>4, <3>1
    <3> QED BY <1>0, <3>1, <3>2 DEF QueueOK, n
  <2> QED BY <2>1, <2>2
<1>9. \A l \in Lanes : last[l] <= p + 1
  BY <1>0 DEF QueueOK
<1>10. QueueOK(t, bytes + f.size, p + 1, last)
  <2>1. p + 1 \in Nat
    BY <1>0
  <2> QED BY <1>0, <1>3, <1>5, <1>6, <1>7, <1>8, <1>9, <2>1 DEF QueueOK
<1> QED BY <1>3, <1>10 DEF t, x

\* Lanes of a frame: its stream, if it has one, and history.
LEMMA LaneCases ==
  ASSUME NEW f \in GoodFrames, NEW l \in LanesOf(f)
  PROVE  \/ l = "normal" /\ f.prio = 0
         \/ l = f.stream /\ f.stream # NoStream /\ l # "normal"
<1>1. f.stream \in Streams \cup {NoStream} /\ l \in Streams \cup {"normal"}
  BY DEF GoodFrames, FrameType, LanesOf, Lanes
<1>2. l = f.stream \/ (l = "normal" /\ f.prio = 0)
  BY DEF LanesOf
<1>3. NoStream \notin Streams /\ "normal" \notin Streams \cup {NoStream}
  BY BridgeConstants
<1>4. ASSUME l = f.stream  PROVE f.stream # NoStream /\ l # "normal"
  BY <1>1, <1>3, <1>4
<1> QED BY <1>2, <1>4

\* Frame i waits for an earlier one of its stream.
Waits(q, i) ==
  /\ q[i].frame.stream # NoStream
  /\ \E k \in 1..(i - 1) : q[k].frame.stream = q[i].frame.stream
FirstOfHistory(q, i) == q[i].frame.prio = 0 => \A k \in 1..(i - 1) : q[k].frame.prio # 0

\* A frame is sent that waits for none of its stream and, if it is history, is the
\* first: what is still queued is later than what its lanes have sent.
LEMMA QueueSend ==
  ASSUME NEW q, NEW bytes, NEW p, NEW last, QueueOK(q, bytes, p, last),
         NEW i \in 1..Len(q), ~Waits(q, i), FirstOfHistory(q, i)
  PROVE  /\ QueueOK(RemoveAt(q, i), bytes - q[i].frame.size, p,
                    [l \in Lanes |-> IF l \in LanesOf(q[i].frame) THEN q[i].n ELSE last[l]])
         /\ Len(RemoveAt(q, i)) = Len(q) - 1
<1> DEFINE f == q[i].frame
           t == RemoveAt(q, i)
           n == Len(q)
           new == [l \in Lanes |-> IF l \in LanesOf(f) THEN q[i].n ELSE last[l]]
<1>0. /\ q \in Seq(ItemType) /\ p \in Nat /\ last \in [Lanes -> Nat] /\ bytes = SumTo(QueueSizes(q), n)
      /\ \A k, j \in 1..n : k < j => q[k].n < q[j].n
      /\ \A k \in 1..n : q[k].n <= p
      /\ \A l \in Lanes : last[l] <= p
      /\ \A k \in 1..n : \A l \in LanesOf(q[k].frame) : last[l] < q[k].n
  BY DEF QueueOK
<1>1. /\ n \in Nat
      /\ \A k \in 1..n : /\ q[k].n \in Nat /\ q[k].frame \in GoodFrames /\ q[k].frame.size \in Nat
                         /\ QueueSizes(q)[k] = q[k].frame.size
  BY <1>0, QueueTypes
<1>2. /\ t \in Seq(ItemType) /\ Len(t) = n - 1
      /\ \A k \in 1..(n - 1) : t[k] = IF k < i THEN q[k] ELSE q[k + 1]
  <2>1. q \in Seq(ItemType)
    BY <1>0
  <2> QED BY <2>1, RemoveAtProperties
<1>3. new \in [Lanes -> Nat] /\ \A l \in Lanes : new[l] <= p
  <2>1. \A l \in Lanes : last[l] \in Nat
    BY <1>0
  <2> QED BY <1>0, <1>1, <2>1
<1>4. \A l \in Lanes : new[l] = IF l \in LanesOf(f) THEN q[i].n ELSE last[l]
  OBVIOUS
<1> HIDE DEF t, n, new
<1>5. i \in 1..n
  BY DEF n
<1>6. bytes - f.size = SumTo(QueueSizes(t), n - 1)
  <2> DEFINE h == QueueSizes(q)
             g == QueueSizes(t)
  <2>1. \A k \in 1..n : h[k] \in Nat /\ h[k] = q[k].frame.size
    BY <1>1
  <2>2. \A k \in 1..(n - 1) : g[k] = t[k].frame.size
    BY <1>2, QueueTypes
  <2>3. \A k \in 1..(n - 1) : k \in 1..n /\ k + 1 \in 1..n
    BY <1>1
  <2> HIDE DEF h, g
  <2>4. \A k \in 1..(n - 1) : g[k] = IF k < i THEN h[k] ELSE h[k + 1]
    BY <1>2, <2>1, <2>2, <2>3
  <2>5. SumTo(h, n) = h[i] + SumTo(g, n - 1)
    BY <1>1, <1>5, <2>1, <2>4, SumToWithout
  <2>6. SumTo(g, n - 1) \in Nat
    <3>1. SumTo(QueueSizes(t), Len(t)) \in Nat
      BY <1>2, QueueTypes
    <3> QED BY <3>1, <1>2 DEF g
  <2>7. h[i] = f.size /\ h[i] \in Nat
    BY <1>5, <2>1
  <2>8. bytes = SumTo(h, n)
    BY <1>0 DEF h
  <2> DEFINE A == SumTo(g, n - 1)
             B == h[i]
  <2>9. bytes = B + A /\ A \in Nat /\ B \in Nat
    BY <2>5, <2>6, <2>7, <2>8
  <2> HIDE DEF A, B
  <2>10. bytes - B = A
    BY <2>9
  <2> QED BY <2>7, <2>10 DEF A, B, g
\* Each item left is one of the earlier queue, in its place among them.
<1>7. \A k \in 1..(n - 1) : \E j \in 1..n : j # i /\ t[k] = q[j] /\ j = IF k < i THEN k ELSE k + 1
  <2>1. SUFFICES ASSUME NEW k \in 1..(n - 1)
                 PROVE \E j \in 1..n : j # i /\ t[k] = q[j] /\ j = IF k < i THEN k ELSE k + 1
    OBVIOUS
  <2>2. PICK j : j = IF k < i THEN k ELSE k + 1
    OBVIOUS
  <2>3. j \in 1..n /\ j # i
    BY <1>1, <1>5, <2>2
  <2>4. t[k] = q[j]
    BY <1>2, <2>2
  <2> QED BY <2>2, <2>3, <2>4
<1>8. ASSUME NEW k \in 1..(n - 1), NEW m \in 1..(n - 1), k < m  PROVE t[k].n < t[m].n
  <2>1. PICK a \in 1..n : t[k] = q[a] /\ a = IF k < i THEN k ELSE k + 1
    BY <1>7
  <2>2. PICK b \in 1..n : t[m] = q[b] /\ b = IF m < i THEN m ELSE m + 1
    BY <1>7
  <2>3. a < b
    BY <1>1, <1>5, <1>8, <2>1, <2>2
  <2>4. q[a].n < q[b].n
    BY <1>0, <2>3
  <2> QED BY <2>1, <2>2, <2>4
<1>9. ASSUME NEW k \in 1..(n - 1)  PROVE t[k].n <= p
  BY <1>0, <1>7
<1>10. ASSUME NEW k \in 1..(n - 1), NEW l \in LanesOf(t[k].frame)  PROVE new[l] < t[k].n
  <2>1. PICK j \in 1..n : j # i /\ t[k] = q[j]
    BY <1>7
  <2>2. l \in Lanes /\ l \in LanesOf(q[j].frame)
    BY <1>10, <2>1 DEF LanesOf
  <2>3. CASE l \notin LanesOf(f)
    BY <1>0, <1>4, <2>1, <2>2, <2>3
  <2>4. CASE l \in LanesOf(f)
    <3>1. new[l] = q[i].n
      BY <1>4, <2>2, <2>4
    <3>2. i < j
      <4>1. SUFFICES ASSUME ~(i < j)  PROVE FALSE
        OBVIOUS
      <4>2. j \in 1..(i - 1)
        BY <1>1, <1>5, <2>1, <4>1
      <4>3. q[j].frame \in GoodFrames /\ f \in GoodFrames
        BY <1>1, <1>5
      <4>4. \/ l = "normal" /\ f.prio = 0
            \/ l = f.stream /\ f.stream # NoStream /\ l # "normal"
        BY <2>4, <4>3, LaneCases
      <4>5. \/ l = "normal" /\ q[j].frame.prio = 0
            \/ l = q[j].frame.stream /\ q[j].frame.stream # NoStream /\ l # "normal"
        BY <2>2, <4>3, LaneCases
      <4> QED BY <4>2, <4>4, <4>5 DEF Waits, FirstOfHistory
    <3>3. q[i].n < q[j].n
      BY <1>0, <1>5, <3>2
    <3> QED BY <2>1, <3>1, <3>3
  <2> QED BY <2>3, <2>4
<1>11. QueueOK(t, bytes - f.size, p, new)
  BY <1>0, <1>2, <1>3, <1>6, <1>8, <1>9, <1>10 DEF QueueOK
<1> QED BY <1>2, <1>11 DEF t, n, new

-----------------------------------------------------------------------------
\* The ledger within the credit window.
LedgerOK(s, bytes) ==
  /\ s \in Seq(Entry)
  /\ bytes = PrefixBytes(s, Len(s))
  /\ Len(s) <= CreditFrames
  /\ bytes <= CreditBytes \/ Len(s) = 1

\* Nothing outstanding.
LEMMA LedgerEmpty == LedgerOK(<< >>, 0)
<1>1. << >> \in Seq(Entry) /\ Len(<< >>) = 0 /\ 0 \in 0..Len(<< >>)
  BY EmptySeq
<1>2. PrefixBytes(<< >>, 0) = 0
  BY <1>1, PrefixType
<1>3. 0 <= CreditFrames /\ 0 <= CreditBytes
  BY BridgeConstants
<1> QED BY <1>1, <1>2, <1>3 DEF LedgerOK

\* A frame that fits, or travels alone, is charged.
LEMMA LedgerSend ==
  ASSUME NEW s, NEW bytes, LedgerOK(s, bytes), NEW e \in Entry,
         s = << >> \/ (Len(s) < CreditFrames /\ bytes + e.size <= CreditBytes)
  PROVE  LedgerOK(Append(s, e), bytes + e.size)
<1> DEFINE t == Append(s, e)
<1>0. s \in Seq(Entry) /\ bytes = PrefixBytes(s, Len(s)) /\ Len(s) \in Nat
  BY LenProperties DEF LedgerOK
<1>1. t \in Seq(Entry) /\ Len(t) = Len(s) + 1
  BY <1>0, AppendProperties
<1>2. PrefixBytes(t, Len(s) + 1) = bytes + e.size
  BY <1>0, PrefixAppend
<1>3. CreditFrames \in Nat \ {0}
  BY BridgeConstants
<1> HIDE DEF t
<1>4. Len(t) <= CreditFrames /\ (bytes + e.size <= CreditBytes \/ Len(t) = 1)
  <2>1. CASE s = << >>
    <3>1. Len(s) = 0
      BY <2>1, EmptySeq
    <3> QED BY <1>1, <1>3, <3>1
  <2>2. CASE Len(s) < CreditFrames /\ bytes + e.size <= CreditBytes
    BY <1>0, <1>1, <1>3, <2>2
  <2> QED BY <2>1, <2>2
<1> QED BY <1>1, <1>2, <1>4 DEF LedgerOK, t

\* A grant frees the oldest entries.
LEMMA LedgerGrant ==
  ASSUME NEW s, NEW bytes, LedgerOK(s, bytes), NEW g \in 1..Len(s)
  PROVE  /\ LedgerOK(SubSeq(s, g + 1, Len(s)), bytes - PrefixBytes(s, g))
         /\ Len(SubSeq(s, g + 1, Len(s))) <= Len(s)
         /\ bytes - PrefixBytes(s, g) <= bytes
<1> DEFINE t == SubSeq(s, g + 1, Len(s))
<1>0. s \in Seq(Entry) /\ bytes = PrefixBytes(s, Len(s)) /\ Len(s) \in Nat
      /\ Len(s) <= CreditFrames /\ (bytes <= CreditBytes \/ Len(s) = 1)
  BY LenProperties DEF LedgerOK
<1>1. g \in 0..Len(s) /\ g \in Nat
  BY <1>0
<1>2. /\ t \in Seq(Entry) /\ Len(t) = Len(s) - g
      /\ \A k \in 0..(Len(s) - g) : PrefixBytes(s, g + k) = PrefixBytes(s, g) + PrefixBytes(t, k)
  BY <1>0, <1>1, PrefixBehind
<1>3. CreditFrames \in Nat \ {0} /\ CreditBytes \in Nat
  BY BridgeConstants
<1> HIDE DEF t
<1> DEFINE A == PrefixBytes(s, g)
           B == PrefixBytes(t, Len(t))
<1>4. A \in Nat /\ B \in Nat
  <2>1. Len(t) \in 0..Len(t)
    BY <1>0, <1>1, <1>2
  <2> QED BY <1>0, <1>1, <1>2, <2>1, PrefixType
<1>5. bytes = A + B
  <2>1. Len(t) \in 0..(Len(s) - g) /\ g + Len(t) = Len(s)
    BY <1>0, <1>1, <1>2
  <2> QED BY <1>0, <1>2, <2>1
<1>6. Len(t) = 0 => B = 0
  <2>1. 0 \in 0..Len(t)
    BY <1>0, <1>1, <1>2
  <2> QED BY <1>2, <2>1, PrefixType
<1> HIDE DEF A, B
<1>7. bytes - A = B /\ B <= bytes
  BY <1>4, <1>5
<1>8. Len(t) <= Len(s)
  BY <1>0, <1>1, <1>2
<1>9. B <= CreditBytes \/ Len(t) = 1
  <2>1. CASE bytes <= CreditBytes
    <3>1. bytes \in Nat
      BY <1>4, <1>5
    <3> QED BY <1>3, <1>4, <1>7, <2>1, <3>1
  <2>2. CASE Len(s) = 1
    <3>1. Len(t) = 0
      BY <1>0, <1>2, <2>2
    <3> QED BY <1>3, <1>6, <3>1
  <2> QED BY <1>0, <2>1, <2>2
<1>10. Len(t) <= CreditFrames
  BY <1>0, <1>1, <1>2, <1>3
<1>11. LedgerOK(t, B)
  BY <1>2, <1>9, <1>10 DEF LedgerOK, B
<1> QED BY <1>7, <1>8, <1>11 DEF t, A

-----------------------------------------------------------------------------
\* The totals of several attachments.

\* Fewer holders, or less held by each, make no greater total.
LEMMA TotalsFall ==
  ASSUME NEW S, IsFiniteSet(S), NEW R \in SUBSET S,
         NEW f, NEW g, \A x \in S : f[x] \in Nat, \A x \in R : g[x] \in Nat /\ g[x] <= f[x]
  PROVE  SumFunction([x \in R |-> g[x]]) <= SumFunction([x \in S |-> f[x]])
<1> DEFINE F == [x \in S |-> f[x]]
           G == [x \in R |-> g[x]]
<1>1. (\A x \in S : F[x] \in Nat) /\ (\A x \in R : G[x] \in Nat /\ G[x] <= F[x])
  OBVIOUS
<1>2. DOMAIN F = S /\ DOMAIN G = R
  OBVIOUS
<1>3. SumFunction(F) = Sum(F, S) /\ SumFunction(G) = Sum(G, R)
  BY <1>2 DEF SumFunction, Sum
<1> HIDE DEF F, G
<1>4. Sum(G, R) <= Sum(F, S)
  BY <1>1, SumLeq
<1> QED BY <1>3, <1>4 DEF F, G

\* A total is a number, and when it is positive somebody holds something.
LEMMA TotalPositive ==
  ASSUME NEW S, IsFiniteSet(S), NEW f, \A x \in S : f[x] \in Nat
  PROVE  /\ SumFunction([x \in S |-> f[x]]) \in Nat
         /\ SumFunction([x \in S |-> f[x]]) > 0 => \E x \in S : f[x] > 0
<1> DEFINE F == [x \in S |-> f[x]]
<1>1. \A x \in S : F[x] \in Nat /\ F[x] = f[x]
  OBVIOUS
<1>2. DOMAIN F = S
  OBVIOUS
<1>3. SumFunction(F) = Sum(F, S)
  BY <1>2 DEF SumFunction, Sum
<1> HIDE DEF F
<1>4. Sum(F, S) \in Nat
  BY <1>1, SumStep
<1>5. Sum(F, S) > 0 => \E x \in S : F[x] > 0
  BY <1>1, SumPositive
<1> QED BY <1>1, <1>3, <1>4, <1>5 DEF F

\* Of finitely many holders one holds the most.
LEMMA Largest ==
  ASSUME NEW S, IsFiniteSet(S), S # {}, NEW f, \A x \in S : f[x] \in Nat
  PROVE  \E v \in S : \A x \in S : f[x] <= f[v]
<1> DEFINE V == {f[x] : x \in S}
<1>1. IsFiniteSet(V)
  BY ImageFinite
<1>2. V # {} /\ V \subseteq Int
  OBVIOUS
<1>3. \A x \in S : f[x] \in V
  OBVIOUS
<1>4. \A y \in V : \E x \in S : y = f[x]
  OBVIOUS
<1> HIDE DEF V
<1>5. Max(V) \in V /\ \A y \in V : y <= Max(V)
  BY <1>1, <1>2, MaxOf
<1> QED BY <1>3, <1>4, <1>5

\* What attachments hold, and whether it is within a budget.
Holdings(q, qb, pd, pb) ==
  \A x \in Attachments : Len(q[x]) \in Nat /\ Len(pd[x]) \in Nat /\ qb[x] \in Nat /\ pb[x] \in Nat
Within(S, q, qb, pd, pb, frames, bytes) ==
  /\ SumFunction([x \in S |-> Len(q[x]) + Len(pd[x])]) <= frames
  /\ SumFunction([x \in S |-> qb[x] + pb[x]]) <= bytes
HoldsNoMore(x, q, qb, pd, pb, q2, qb2, pd2, pb2) ==
  Len(q2[x]) + Len(pd2[x]) <= Len(q[x]) + Len(pd[x]) /\ qb2[x] + pb2[x] <= qb[x] + pb[x]

\* A budget still holds when fewer hold no more.
LEMMA WithinKept ==
  ASSUME NEW q, NEW qb, NEW pd, NEW pb, Holdings(q, qb, pd, pb),
         NEW q2, NEW qb2, NEW pd2, NEW pb2, Holdings(q2, qb2, pd2, pb2),
         NEW S \in SUBSET Attachments, NEW R \in SUBSET S,
         \A x \in R : HoldsNoMore(x, q, qb, pd, pb, q2, qb2, pd2, pb2),
         NEW frames \in Nat, NEW bytes \in Nat, Within(S, q, qb, pd, pb, frames, bytes)
  PROVE  Within(R, q2, qb2, pd2, pb2, frames, bytes)
<1> DEFINE F == [x \in Attachments |-> Len(q[x]) + Len(pd[x])]
           B == [x \in Attachments |-> qb[x] + pb[x]]
           F2 == [x \in Attachments |-> Len(q2[x]) + Len(pd2[x])]
           B2 == [x \in Attachments |-> qb2[x] + pb2[x]]
<1>1. IsFiniteSet(S) /\ IsFiniteSet(R) /\ R \subseteq Attachments
  BY BridgeConstants, FS_Subset
<1>2. \A x \in Attachments : F[x] \in Nat /\ B[x] \in Nat /\ F2[x] \in Nat /\ B2[x] \in Nat
  <2>1. \A m, k \in Nat : m + k \in Nat
    OBVIOUS
  <2>2. \A x \in Attachments : F[x] \in Nat /\ B[x] \in Nat
    BY <2>1 DEF Holdings
  <2>3. \A x \in Attachments : F2[x] \in Nat /\ B2[x] \in Nat
    BY <2>1 DEF Holdings
  <2> QED BY <2>2, <2>3
<1>3. \A x \in R : F2[x] <= F[x] /\ B2[x] <= B[x]
  BY <1>1 DEF HoldsNoMore
<1>4. /\ [x \in S |-> F[x]] = [x \in S |-> Len(q[x]) + Len(pd[x])]
      /\ [x \in S |-> B[x]] = [x \in S |-> qb[x] + pb[x]]
      /\ [x \in R |-> F2[x]] = [x \in R |-> Len(q2[x]) + Len(pd2[x])]
      /\ [x \in R |-> B2[x]] = [x \in R |-> qb2[x] + pb2[x]]
  BY <1>1
<1> HIDE DEF F, B, F2, B2
<1>5. SumFunction([x \in R |-> F2[x]]) <= SumFunction([x \in S |-> F[x]])
  <2>1. (\A x \in S : F[x] \in Nat) /\ (\A x \in R : F2[x] \in Nat /\ F2[x] <= F[x])
    BY <1>1, <1>2, <1>3
  <2> QED BY <1>1, <2>1, TotalsFall
<1>6. SumFunction([x \in R |-> B2[x]]) <= SumFunction([x \in S |-> B[x]])
  <2>1. (\A x \in S : B[x] \in Nat) /\ (\A x \in R : B2[x] \in Nat /\ B2[x] <= B[x])
    BY <1>1, <1>2, <1>3
  <2> QED BY <1>1, <2>1, TotalsFall
<1>7. /\ SumFunction([x \in S |-> F[x]]) \in Nat /\ SumFunction([x \in S |-> B[x]]) \in Nat
      /\ SumFunction([x \in R |-> F2[x]]) \in Nat /\ SumFunction([x \in R |-> B2[x]]) \in Nat
  <2>1. (\A x \in S : F[x] \in Nat) /\ (\A x \in S : B[x] \in Nat)
    BY <1>2
  <2>2. (\A x \in R : F2[x] \in Nat) /\ (\A x \in R : B2[x] \in Nat)
    BY <1>1, <1>2
  <2>3. SumFunction([x \in S |-> F[x]]) \in Nat /\ SumFunction([x \in S |-> B[x]]) \in Nat
    BY <1>1, <2>1, TotalPositive
  <2>4. SumFunction([x \in R |-> F2[x]]) \in Nat /\ SumFunction([x \in R |-> B2[x]]) \in Nat
    BY <1>1, <2>2, TotalPositive
  <2> QED BY <2>3, <2>4
<1>8. SumFunction([x \in S |-> F[x]]) <= frames /\ SumFunction([x \in S |-> B[x]]) <= bytes
  BY <1>4 DEF Within
<1> DEFINE a == SumFunction([x \in R |-> F2[x]])
           b == SumFunction([x \in S |-> F[x]])
           c == SumFunction([x \in R |-> B2[x]])
           d == SumFunction([x \in S |-> B[x]])
<1>9. a <= b /\ b <= frames /\ a \in Nat /\ b \in Nat /\ c <= d /\ d <= bytes /\ c \in Nat /\ d \in Nat
  BY <1>5, <1>6, <1>7, <1>8
<1> HIDE DEF a, b, c, d
<1>10. a <= frames /\ c <= bytes
  BY <1>9
<1> QED BY <1>4, <1>10 DEF Within, a, c

\* The budgets, while push is enforcing them: an endpoint's may be exceeded by the
\* push that is looking at it, the tab's until it has been looked at.
OpenAt(ft, e) == {x \in Attachments : ft[x] = "open" /\ EndpointOf[x] = e}
OpenAll(ft) == {x \in Attachments : ft[x] = "open"}
TotalsOK(q, qb, pd, pb, ft, cl) ==
  /\ \A e \in Endpoints : (cl.at = "endpoint" => EndpointOf[cl.of] # e) =>
       Within(OpenAt(ft, e), q, qb, pd, pb, EndpointFrames, EndpointBytes)
  /\ cl.at \notin {"endpoint", "tab"} => Within(OpenAll(ft), q, qb, pd, pb, TabFrames, TabBytes)

\* A call that makes nobody hold more, and opens nobody, keeps the budgets.
LEMMA TotalsKept ==
  ASSUME NEW q, NEW qb, NEW pd, NEW pb, Holdings(q, qb, pd, pb),
         NEW q2, NEW qb2, NEW pd2, NEW pb2, Holdings(q2, qb2, pd2, pb2),
         NEW ft, NEW ft2, NEW cl, NEW cl2,
         \A x \in Attachments : ft2[x] = "open" =>
           ft[x] = "open" /\ HoldsNoMore(x, q, qb, pd, pb, q2, qb2, pd2, pb2),
         cl.at = "endpoint" => cl2 = cl,
         cl.at \in {"endpoint", "tab"} => cl2.at \in {"endpoint", "tab"},
         TotalsOK(q, qb, pd, pb, ft, cl)
  PROVE  TotalsOK(q2, qb2, pd2, pb2, ft2, cl2)
<1>0. EndpointFrames \in Nat /\ EndpointBytes \in Nat /\ TabFrames \in Nat /\ TabBytes \in Nat
  BY BridgeConstants
<1>1. ASSUME NEW e \in Endpoints, cl2.at = "endpoint" => EndpointOf[cl2.of] # e
      PROVE  Within(OpenAt(ft2, e), q2, qb2, pd2, pb2, EndpointFrames, EndpointBytes)
  <2> DEFINE S == OpenAt(ft, e)
             R == OpenAt(ft2, e)
  <2>1. Within(S, q, qb, pd, pb, EndpointFrames, EndpointBytes)
    BY <1>1 DEF TotalsOK
  <2>2. S \in SUBSET Attachments /\ R \in SUBSET S
        /\ \A x \in R : HoldsNoMore(x, q, qb, pd, pb, q2, qb2, pd2, pb2)
    BY DEF OpenAt
  <2> HIDE DEF S, R
  <2>3. Within(R, q2, qb2, pd2, pb2, EndpointFrames, EndpointBytes)
    BY <1>0, <2>1, <2>2, WithinKept
  <2> QED BY <2>3 DEF R
<1>2. ASSUME cl2.at \notin {"endpoint", "tab"}
      PROVE  Within(OpenAll(ft2), q2, qb2, pd2, pb2, TabFrames, TabBytes)
  <2> DEFINE S == OpenAll(ft)
             R == OpenAll(ft2)
  <2>1. Within(S, q, qb, pd, pb, TabFrames, TabBytes)
    BY <1>2 DEF TotalsOK
  <2>2. S \in SUBSET Attachments /\ R \in SUBSET S
        /\ \A x \in R : HoldsNoMore(x, q, qb, pd, pb, q2, qb2, pd2, pb2)
    BY DEF OpenAll
  <2> HIDE DEF S, R
  <2>3. Within(R, q2, qb2, pd2, pb2, TabFrames, TabBytes)
    BY <1>0, <2>1, <2>2, WithinKept
  <2> QED BY <2>3 DEF R
<1> QED BY <1>1, <1>2 DEF TotalsOK

-----------------------------------------------------------------------------
(***************************************************************************)
(* The invariant.                                                          *)
(***************************************************************************)
Fates == {"open", "overflow", "closed", "badcredit"}

TypeOK ==
  /\ queue \in [Attachments -> Seq(ItemType)]
  /\ queuedBytes \in [Attachments -> Nat]
  /\ pending \in [Attachments -> Seq(Entry)]
  /\ pendingBytes \in [Attachments -> Nat]
  /\ sequence \in [Attachments -> Nat]
  /\ highStreak \in [Attachments -> Nat]
  /\ controlStreak \in [Attachments -> Nat]
  /\ fate \in [Attachments -> Fates]
  /\ pushes \in [Attachments -> Nat]
  /\ call \in {Idle} \cup [at : {"endpoint", "tab", "flush"}, of : Attachments]
  /\ wire \in [Attachments -> Seq(Message)]
  /\ consumer \in [Attachments -> {"open", "closed"}]
  /\ owed \in [Attachments -> Credit]
  /\ back \in [Attachments -> Seq(Credit \cup Close)]
  /\ lastOut \in [Attachments -> [Lanes -> Nat]]

\* One attachment: its queue q, its ledger s, its fate, and the port.
Good(q, bytes, p, last, s, charged, why, w, c, o, b) ==
  /\ QueueOK(q, bytes, p, last)
  /\ Len(q) <= QueueFrames /\ bytes <= QueueBytes
  /\ LedgerOK(s, charged)
  /\ FlowTypes(s, b, o, w)
  /\ why # "badcredit"
  /\ why = "open" => FlowOK(s, b, o, w, c)

Attachment(r) ==
  Good(queue[r], queuedBytes[r], pushes[r], lastOut[r], pending[r], pendingBytes[r], fate[r],
       wire[r], consumer[r], owed[r], back[r])

IInv ==
  /\ TypeOK
  /\ \A r \in Attachments : Attachment(r)
  /\ TotalsOK(queue, queuedBytes, pending, pendingBytes, fate, call)

\* What an attachment in order holds, and it holds bytes in frames only.
LEMMA GoodHolds ==
  ASSUME NEW q, NEW bytes, NEW p, NEW last, NEW s, NEW charged, NEW why, NEW w, NEW c, NEW o, NEW b,
         Good(q, bytes, p, last, s, charged, why, w, c, o, b)
  PROVE  /\ Len(q) \in Nat /\ Len(s) \in Nat /\ bytes \in Nat /\ charged \in Nat
         /\ Len(q) = 0 => bytes = 0
         /\ Len(s) = 0 => charged = 0
<1>1. /\ q \in Seq(ItemType) /\ bytes = SumTo(QueueSizes(q), Len(q))
      /\ s \in Seq(Entry) /\ charged = PrefixBytes(s, Len(s))
  BY DEF Good, QueueOK, LedgerOK
<1>2. Len(q) \in Nat /\ bytes \in Nat /\ (Len(q) = 0 => bytes = 0)
  BY <1>1, QueueTypes
<1>3. Len(s) \in Nat /\ Len(s) \in 0..Len(s)
  BY <1>1, LenProperties
<1>4. charged \in Nat /\ (Len(s) = 0 => charged = 0)
  BY <1>1, <1>3, PrefixType
<1> QED BY <1>2, <1>3, <1>4

\* An attachment whose receiver has closed holds nothing.
LEMMA GoodClosed ==
  ASSUME NEW p \in Nat, NEW last \in [Lanes -> Nat], \A l \in Lanes : last[l] <= p,
         NEW why, why \notin {"open", "badcredit"},
         NEW w \in Seq(Message), NEW c, NEW o \in Credit, NEW b \in Seq(Credit \cup Close)
  PROVE  Good(<< >>, 0, p, last, << >>, 0, why, w, c, o, b)
<1>1. QueueOK(<< >>, 0, p, last)
  BY QueueEmpty
<1>2. LedgerOK(<< >>, 0)
  BY LedgerEmpty
<1>3. FlowTypes(<< >>, b, o, w)
  BY EmptySeq DEF FlowTypes
<1>4. Len(<< >>) <= QueueFrames /\ 0 <= QueueBytes
  BY BridgeConstants, EmptySeq
<1> QED BY <1>1, <1>2, <1>3, <1>4 DEF Good

\* A step that concerns r leaves the other attachments as they are.
Same(x) ==
  /\ queue'[x] = queue[x] /\ queuedBytes'[x] = queuedBytes[x]
  /\ pushes'[x] = pushes[x] /\ lastOut'[x] = lastOut[x]
  /\ pending'[x] = pending[x] /\ pendingBytes'[x] = pendingBytes[x]
  /\ fate'[x] = fate[x] /\ wire'[x] = wire[x] /\ consumer'[x] = consumer[x]
  /\ owed'[x] = owed[x] /\ back'[x] = back[x]

\* What a step has to show: types, the attachment it concerns, that the others are
\* as they were, and that nobody who stays holds more than before.
LEMMA StepKeeps ==
  ASSUME IInv, TypeOK', NEW r \in Attachments, Attachment(r)',
         \A x \in Attachments : x # r => Same(x),
         fate'[r] = "open" =>
           fate[r] = "open" /\ HoldsNoMore(r, queue, queuedBytes, pending, pendingBytes,
                                           queue', queuedBytes', pending', pendingBytes'),
         call.at = "endpoint" => call' = call,
         call.at \in {"endpoint", "tab"} => call'.at \in {"endpoint", "tab"}
  PROVE  IInv'
<1>1. ASSUME NEW x \in Attachments  PROVE Attachment(x)'
  <2>1. CASE x = r
    BY <2>1
  <2>2. CASE x # r
    <3>1. Attachment(x) /\ Same(x)
      BY <2>2 DEF IInv
    <3> QED BY <3>1 DEF Attachment, Same
  <2> QED BY <2>1, <2>2
<1>2. Holdings(queue, queuedBytes, pending, pendingBytes)
  BY GoodHolds DEF IInv, Attachment, Holdings
<1>3. Holdings(queue', queuedBytes', pending', pendingBytes')
  BY <1>1, GoodHolds DEF Attachment, Holdings
<1>4. ASSUME NEW x \in Attachments, fate'[x] = "open"
      PROVE  fate[x] = "open" /\ HoldsNoMore(x, queue, queuedBytes, pending, pendingBytes,
                                             queue', queuedBytes', pending', pendingBytes')
  <2>1. CASE x = r
    BY <1>4, <2>1
  <2>2. CASE x # r
    <3>1. Same(x)
      BY <2>2
    <3>2. Len(queue[x]) \in Nat /\ Len(pending[x]) \in Nat /\ queuedBytes[x] \in Nat /\ pendingBytes[x] \in Nat
      BY <1>2 DEF Holdings
    <3>3. Len(queue'[x]) = Len(queue[x]) /\ Len(pending'[x]) = Len(pending[x])
      BY <3>1 DEF Same
    <3>4. queuedBytes'[x] = queuedBytes[x] /\ pendingBytes'[x] = pendingBytes[x] /\ fate'[x] = fate[x]
      BY <3>1 DEF Same
    <3> QED BY <1>4, <3>2, <3>3, <3>4 DEF HoldsNoMore
  <2> QED BY <2>1, <2>2
<1>5. TotalsOK(queue, queuedBytes, pending, pendingBytes, fate, call)
  BY DEF IInv
<1>6. TotalsOK(queue', queuedBytes', pending', pendingBytes', fate', call')
  BY <1>2, <1>3, <1>4, <1>5, TotalsKept
<1> QED BY <1>1, <1>6 DEF IInv

-----------------------------------------------------------------------------
\* The launcher ends an attachment: close of its receiver, CLOSED to the consumer,
\* with or without a message taken off the port or one more push counted.
LEMMA DropKeeps ==
  ASSUME IInv, NEW r \in Attachments, NEW why \in {"overflow", "closed"}, fate[r] = "open", Drop(r, why),
         pushes' = pushes \/ pushes' = [pushes EXCEPT ![r] = @ + 1],
         back' = back \/ (back[r] # << >> /\ back' = [back EXCEPT ![r] = Tail(@)]),
         UNCHANGED <<counters, call, consumer, owed>>
  PROVE  IInv'
<1>0. TypeOK /\ Attachment(r)
  BY DEF IInv
<1>1. Tail(back[r]) \in Seq(Credit \cup Close) \/ back[r] = << >>
  <2>1. back[r] \in Seq(Credit \cup Close)
    BY <1>0 DEF TypeOK
  <2> QED BY <2>1, HeadTailProperties
<1>2. /\ pushes' \in [Attachments -> Nat] /\ pushes'[r] >= pushes[r]
      /\ \A x \in Attachments : x # r => pushes'[x] = pushes[x]
  <2>1. pushes \in [Attachments -> Nat] /\ pushes[r] \in Nat
    BY <1>0 DEF TypeOK
  <2>2. CASE pushes' = pushes
    BY <2>1, <2>2
  <2>3. CASE pushes' = [pushes EXCEPT ![r] = @ + 1]
    BY <2>1, <2>3
  <2> QED BY <2>2, <2>3
<1>3. /\ back' \in [Attachments -> Seq(Credit \cup Close)]
      /\ \A x \in Attachments : x # r => back'[x] = back[x]
  <2>1. back \in [Attachments -> Seq(Credit \cup Close)]
    BY <1>0 DEF TypeOK
  <2>2. CASE back' = back
    BY <2>1, <2>2
  <2>3. CASE back[r] # << >> /\ back' = [back EXCEPT ![r] = Tail(@)]
    <3>1. Tail(back[r]) \in Seq(Credit \cup Close)
      BY <1>1, <2>3
    <3> QED BY <2>1, <2>3, <3>1
  <2> QED BY <2>2, <2>3
<1>4. /\ wire' \in [Attachments -> Seq(Message)]
      /\ \A x \in Attachments : x # r => wire'[x] = wire[x]
  <2>1. [kind |-> "closed"] \in Message
    BY DEF Message
  <2>2. Append(wire[r], [kind |-> "closed"]) \in Seq(Message)
    BY <1>0, <2>1, AppendProperties DEF TypeOK
  <2> QED BY <1>0, <2>2 DEF TypeOK, Drop
<1>5. /\ queue' \in [Attachments -> Seq(ItemType)] /\ queue'[r] = << >>
      /\ queuedBytes' \in [Attachments -> Nat] /\ queuedBytes'[r] = 0
      /\ \A x \in Attachments : x # r => queue'[x] = queue[x] /\ queuedBytes'[x] = queuedBytes[x]
  BY <1>0, EmptySeq DEF TypeOK, Drop, CloseReceiver
<1>6. /\ pending' \in [Attachments -> Seq(Entry)] /\ pending'[r] = << >>
      /\ pendingBytes' \in [Attachments -> Nat] /\ pendingBytes'[r] = 0
      /\ \A x \in Attachments : x # r => pending'[x] = pending[x] /\ pendingBytes'[x] = pendingBytes[x]
  BY <1>0, EmptySeq DEF TypeOK, Drop, CloseReceiver
<1>7. /\ fate' \in [Attachments -> Fates] /\ fate'[r] \in {"overflow", "closed"}
      /\ \A x \in Attachments : x # r => fate'[x] = fate[x]
  BY <1>0 DEF TypeOK, Drop, CloseReceiver, Fates
<1>8. TypeOK'
  BY <1>0, <1>2, <1>3, <1>4, <1>5, <1>6, <1>7 DEF TypeOK, counters
<1>9. \A x \in Attachments : x # r => Same(x)
  BY <1>2, <1>3, <1>4, <1>5, <1>6, <1>7 DEF Same, counters
<1>10. Attachment(r)'
  <2>1. /\ pushes'[r] \in Nat /\ lastOut'[r] \in [Lanes -> Nat]
        /\ wire'[r] \in Seq(Message) /\ owed'[r] \in Credit /\ back'[r] \in Seq(Credit \cup Close)
    BY <1>8 DEF TypeOK
  <2>2. \A l \in Lanes : lastOut'[r][l] <= pushes'[r]
    <3>1. lastOut'[r] = lastOut[r] /\ lastOut[r] \in [Lanes -> Nat] /\ pushes[r] \in Nat
      BY <1>0 DEF counters, TypeOK
    <3>2. \A l \in Lanes : lastOut[r][l] <= pushes[r]
      BY <1>0 DEF Attachment, Good, QueueOK
    <3> QED BY <1>2, <2>1, <3>1, <3>2
  <2>3. Good(<< >>, 0, pushes'[r], lastOut'[r], << >>, 0, fate'[r], wire'[r], consumer'[r], owed'[r], back'[r])
    BY <1>7, <2>1, <2>2, GoodClosed
  <2> QED BY <1>5, <1>6, <2>3 DEF Attachment
<1>11. fate'[r] # "open"
  BY <1>7
<1>12. call' = call
  BY DEF counters
<1> QED BY <1>8, <1>9, <1>10, <1>11, <1>12, StepKeeps

\* push queues the frame: the attachment's own limits hold, and the endpoint's budget
\* is looked at next.
LEMMA QueuedKeeps ==
  ASSUME IInv, NEW r \in Attachments, NEW f \in Frames[r], Push(r, f), call' # call
  PROVE  IInv'
<1> DEFINE item == [frame |-> f, n |-> pushes[r] + 1]
           queued == Append(queue[r], item)
           bytes == queuedBytes[r] + f.size
<1>0. TypeOK /\ Attachment(r)
  BY DEF IInv
<1>1. f \in GoodFrames
  BY BridgeConstants DEF GoodFrames
<1>2. /\ call = Idle /\ fate[r] = "open"
      /\ pushes' = [pushes EXCEPT ![r] = @ + 1]
      /\ f.size <= QueueBytes
      /\ (Len(queued) = 1 /\ Fits(r, f.size)) \/ ~OverOwn(queued, bytes)
      /\ queue' = [queue EXCEPT ![r] = queued]
      /\ queuedBytes' = [queuedBytes EXCEPT ![r] = bytes]
      /\ call' = [at |-> "endpoint", of |-> r]
      /\ UNCHANGED <<pending, pendingBytes, fate, wire, counters, shim>>
  BY DEF Push
<1>3. /\ QueueOK(queue[r], queuedBytes[r], pushes[r], lastOut[r])
      /\ Len(queue[r]) \in Nat /\ queuedBytes[r] \in Nat /\ pushes[r] \in Nat
      /\ (Len(queue[r]) = 0 => queuedBytes[r] = 0)
  <2>1. QueueOK(queue[r], queuedBytes[r], pushes[r], lastOut[r])
    BY <1>0 DEF Attachment, Good
  <2>2. Len(queue[r]) \in Nat /\ queuedBytes[r] \in Nat /\ (Len(queue[r]) = 0 => queuedBytes[r] = 0)
    BY <1>0, GoodHolds DEF Attachment
  <2> QED BY <1>0, <2>1, <2>2 DEF TypeOK
<1>4. QueueOK(queued, bytes, pushes[r] + 1, lastOut[r]) /\ Len(queued) = Len(queue[r]) + 1
  BY <1>1, <1>3, QueuePush
<1>5. f.size \in Nat /\ bytes \in Nat /\ queued \in Seq(ItemType)
  BY <1>1, <1>3, <1>4 DEF QueueOK, GoodFrames, FrameType
<1>6. Len(queued) <= QueueFrames /\ bytes <= QueueBytes
  <2>1. QueueFrames \in Nat \ {0} /\ QueueBytes \in Nat
    BY BridgeConstants
  <2>2. CASE Len(queued) = 1
    <3>1. bytes = f.size
      BY <1>3, <1>4, <1>5, <2>2
    <3>2. CASE ~OverOwn(queued, bytes)
      <4>1. Len(queued) \in Nat
        BY <1>3, <1>4
      <4> HIDE DEF bytes, queued
      <4> QED BY <1>5, <2>1, <3>2, <4>1 DEF OverOwn
    <3> QED BY <1>2, <2>1, <2>2, <3>1
  <2>3. CASE ~OverOwn(queued, bytes)
    <3>1. Len(queued) \in Nat
      BY <1>3, <1>4
    <3> HIDE DEF bytes, queued
    <3> QED BY <1>5, <2>1, <2>3, <3>1 DEF OverOwn
  <2> QED BY <1>2, <2>2, <2>3
<1> HIDE DEF queued, bytes
<1>7. /\ queue' \in [Attachments -> Seq(ItemType)] /\ queue'[r] = queued
      /\ \A x \in Attachments : x # r => queue'[x] = queue[x]
  BY <1>0, <1>2, <1>5 DEF TypeOK
<1>8. /\ queuedBytes' \in [Attachments -> Nat] /\ queuedBytes'[r] = bytes
      /\ \A x \in Attachments : x # r => queuedBytes'[x] = queuedBytes[x]
  BY <1>0, <1>2, <1>5 DEF TypeOK
<1>9. /\ pushes' \in [Attachments -> Nat] /\ pushes'[r] = pushes[r] + 1
      /\ \A x \in Attachments : x # r => pushes'[x] = pushes[x]
  BY <1>0, <1>2 DEF TypeOK
<1>10. TypeOK'
  BY <1>0, <1>2, <1>7, <1>8, <1>9 DEF TypeOK, counters, shim
<1>11. \A x \in Attachments : x # r => Same(x)
  BY <1>2, <1>7, <1>8, <1>9 DEF Same, counters, shim
<1>12. Attachment(r)'
  <2>1. /\ LedgerOK(pending'[r], pendingBytes'[r])
        /\ FlowTypes(pending'[r], back'[r], owed'[r], wire'[r])
        /\ fate'[r] # "badcredit"
        /\ fate'[r] = "open" => FlowOK(pending'[r], back'[r], owed'[r], wire'[r], consumer'[r])
        /\ lastOut'[r] = lastOut[r]
    BY <1>0, <1>2 DEF Attachment, Good, shim, counters
  <2>2. QueueOK(queue'[r], queuedBytes'[r], pushes'[r], lastOut'[r])
        /\ Len(queue'[r]) <= QueueFrames /\ queuedBytes'[r] <= QueueBytes
    BY <1>4, <1>6, <1>7, <1>8, <1>9, <2>1
  <2> QED BY <2>1, <2>2 DEF Attachment, Good
<1>13. ASSUME NEW x \in Attachments  PROVE Attachment(x)'
  <2>1. CASE x # r
    <3>1. Attachment(x) /\ Same(x)
      BY <1>11, <2>1 DEF IInv
    <3> QED BY <3>1 DEF Attachment, Same
  <2> QED BY <1>12, <2>1
<1>14. Holdings(queue, queuedBytes, pending, pendingBytes)
  BY GoodHolds DEF IInv, Attachment, Holdings
<1>15. Holdings(queue', queuedBytes', pending', pendingBytes')
  BY <1>13, GoodHolds DEF Attachment, Holdings
<1>16. ASSUME NEW e \in Endpoints, EndpointOf[r] # e
       PROVE  Within(OpenAt(fate', e), queue', queuedBytes', pending', pendingBytes', EndpointFrames, EndpointBytes)
  <2>1. TotalsOK(queue, queuedBytes, pending, pendingBytes, fate, call) /\ call.at # "endpoint"
    BY <1>2 DEF IInv, Idle
  <2> DEFINE S == OpenAt(fate, e)
  <2>2. Within(S, queue, queuedBytes, pending, pendingBytes, EndpointFrames, EndpointBytes)
    BY <2>1 DEF TotalsOK
  <2>3. ASSUME NEW x \in S
        PROVE  HoldsNoMore(x, queue, queuedBytes, pending, pendingBytes, queue', queuedBytes', pending', pendingBytes')
    <3>1. x \in Attachments /\ x # r
      BY <1>16, <2>3 DEF OpenAt
    <3>2. Len(queue[x]) \in Nat /\ Len(pending[x]) \in Nat /\ queuedBytes[x] \in Nat /\ pendingBytes[x] \in Nat
      BY <1>14, <3>1 DEF Holdings
    <3>3. queue'[x] = queue[x] /\ pending'[x] = pending[x] /\ queuedBytes'[x] = queuedBytes[x] /\ pendingBytes'[x] = pendingBytes[x]
      BY <1>11, <3>1 DEF Same
    <3> QED BY <3>2, <3>3 DEF HoldsNoMore
  <2>4. S \in SUBSET Attachments /\ S \in SUBSET S
    BY DEF OpenAt
  <2>5. EndpointFrames \in Nat /\ EndpointBytes \in Nat
    BY BridgeConstants
  <2> HIDE DEF S
  <2>6. Within(S, queue', queuedBytes', pending', pendingBytes', EndpointFrames, EndpointBytes)
    BY <1>14, <1>15, <2>2, <2>3, <2>4, <2>5, WithinKept
  <2> QED BY <1>2, <2>6 DEF S
<1>17. TotalsOK(queue', queuedBytes', pending', pendingBytes', fate', call')
  <2>1. call'.at = "endpoint" /\ call'.of = r
    BY <1>2
  <2> QED BY <1>16, <2>1 DEF TotalsOK
<1> QED BY <1>10, <1>13, <1>17 DEF IInv

\* When nobody is left who could be evicted, nothing is held: the budget holds.
LEMMA NoVictims ==
  ASSUME IInv, NEW S \in SUBSET Attachments, ~OverBudget(S) \/ Victims(S) = {}
  PROVE  Within(S, queue, queuedBytes, pending, pendingBytes, FrameBudget, ByteBudget)
<1> DEFINE F == [x \in Attachments |-> HeldFrames(x)]
           B == [x \in Attachments |-> HeldBytes(x)]
<1>1. IsFiniteSet(S)
  BY BridgeConstants, FS_Subset
<1>2. FrameBudget \in Nat /\ ByteBudget \in Nat
  BY BridgeConstants DEF FrameBudget, ByteBudget
<1>3. ASSUME NEW x \in Attachments
      PROVE  F[x] \in Nat /\ B[x] \in Nat /\ (B[x] > 0 => F[x] > 0)
  <2>1. /\ Len(queue[x]) \in Nat /\ Len(pending[x]) \in Nat
        /\ queuedBytes[x] \in Nat /\ pendingBytes[x] \in Nat
        /\ (Len(queue[x]) = 0 => queuedBytes[x] = 0)
        /\ (Len(pending[x]) = 0 => pendingBytes[x] = 0)
    BY GoodHolds DEF IInv, Attachment
  <2>2. F[x] = Len(queue[x]) + Len(pending[x]) /\ B[x] = queuedBytes[x] + pendingBytes[x]
    BY DEF HeldFrames, HeldBytes
  <2> DEFINE k == Len(queue[x])
             m == Len(pending[x])
             c == queuedBytes[x]
             d == pendingBytes[x]
  <2>3. /\ F[x] = k + m /\ B[x] = c + d /\ k \in Nat /\ m \in Nat /\ c \in Nat /\ d \in Nat
        /\ (k = 0 => c = 0) /\ (m = 0 => d = 0)
    BY <2>1, <2>2
  <2> HIDE DEF F, B, k, m, c, d
  <2> QED BY <2>3
<1>4. TotalFrames(S) = SumFunction([x \in S |-> F[x]]) /\ TotalBytes(S) = SumFunction([x \in S |-> B[x]])
  <2>1. [x \in S |-> F[x]] = [x \in S |-> HeldFrames(x)] /\ [x \in S |-> B[x]] = [x \in S |-> HeldBytes(x)]
    OBVIOUS
  <2> QED BY <2>1 DEF TotalFrames, TotalBytes
<1>5. \A x \in S : HeldFrames(x) = F[x] /\ HeldBytes(x) = B[x]
  OBVIOUS
<1> HIDE DEF F, B
<1>6. (\A x \in S : F[x] \in Nat) /\ (\A x \in S : B[x] \in Nat)
  BY <1>3
<1>7. /\ TotalFrames(S) \in Nat /\ (TotalFrames(S) > 0 => \E x \in S : F[x] > 0)
      /\ TotalBytes(S) \in Nat /\ (TotalBytes(S) > 0 => \E x \in S : B[x] > 0)
  <2>1. TotalFrames(S) \in Nat /\ (TotalFrames(S) > 0 => \E x \in S : F[x] > 0)
    BY <1>1, <1>4, <1>6, TotalPositive
  <2>2. TotalBytes(S) \in Nat /\ (TotalBytes(S) > 0 => \E x \in S : B[x] > 0)
    BY <1>1, <1>4, <1>6, TotalPositive
  <2> QED BY <2>1, <2>2
<1>8. ~OverBudget(S)
  <2>1. SUFFICES ASSUME OverBudget(S)  PROVE \E v \in S : v \in Victims(S)
    OBVIOUS
  <2>2. CASE OverBytes(S)
    <3>1. TotalBytes(S) > 0
      BY <1>2, <1>7, <2>2 DEF OverBytes
    <3>2. PICK y \in S : B[y] > 0
      BY <1>7, <3>1
    <3>3. PICK v \in S : \A x \in S : B[x] <= B[v]
      BY <1>1, <1>6, Largest
    <3>4. B[v] > 0
      BY <1>6, <3>2, <3>3
    <3>5. HeldFrames(v) > 0
      BY <1>3, <1>5, <3>4
    <3>6. \A x \in S : HeldBytes(x) <= HeldBytes(v)
      BY <1>5, <3>3
    <3> QED BY <2>2, <3>5, <3>6 DEF Victims
  <2>3. CASE ~OverBytes(S)
    <3>1. TotalFrames(S) > 0
      BY <1>2, <1>7, <2>1, <2>3 DEF OverBudget, OverFrames
    <3>2. PICK y \in S : F[y] > 0
      BY <1>7, <3>1
    <3>3. PICK v \in S : \A x \in S : F[x] <= F[v]
      BY <1>1, <1>6, Largest
    <3>4. F[v] > 0
      BY <1>6, <3>2, <3>3
    <3>5. HeldFrames(v) > 0 /\ \A x \in S : HeldFrames(x) <= HeldFrames(v)
      BY <1>5, <3>3, <3>4
    <3> QED BY <2>3, <3>5 DEF Victims
  <2> QED BY <2>2, <2>3
<1>9. TotalFrames(S) <= FrameBudget /\ TotalBytes(S) <= ByteBudget
  BY <1>2, <1>7, <1>8 DEF OverBudget, OverFrames, OverBytes
<1> QED BY <1>9 DEF Within, TotalFrames, TotalBytes, HeldFrames, HeldBytes

\* The budget that was looked at holds, and the next one is looked at.
LEMMA EnforcedKeeps ==
  ASSUME IInv, Enforced
  PROVE  IInv'
<1>0. TypeOK /\ TotalsOK(queue, queuedBytes, pending, pendingBytes, fate, call)
  BY DEF IInv
<1>1. /\ call.at \in {"endpoint", "tab"} /\ call \in [at : {"endpoint", "tab", "flush"}, of : Attachments]
      /\ ~OverBudget(Scope) \/ Victims(Scope) = {}
      /\ call' = [call EXCEPT !.at = NextStage]
      /\ UNCHANGED <<queue, queuedBytes, pending, pendingBytes, fate, pushes, wire, counters, shim>>
  BY <1>0 DEF Enforced, TypeOK, Idle
<1>2. call'.at = NextStage /\ call'.of = call.of /\ call' \in [at : {"endpoint", "tab", "flush"}, of : Attachments]
  BY <1>1 DEF NextStage
<1>3. TypeOK'
  BY <1>0, <1>1, <1>2 DEF TypeOK, counters, shim
<1>4. \A x \in Attachments : Attachment(x)'
  <2>1. ASSUME NEW x \in Attachments  PROVE Attachment(x)'
    <3>1. Attachment(x)
      BY DEF IInv
    <3> QED BY <1>1, <3>1 DEF Attachment, counters, shim
  <2> QED BY <2>1
<1>5. Within(Scope, queue, queuedBytes, pending, pendingBytes, FrameBudget, ByteBudget)
  <2> DEFINE S == Scope
  <2>1. S \in SUBSET Attachments
    BY DEF Scope
  <2>2. ~OverBudget(S) \/ Victims(S) = {}
    BY <1>1
  <2> HIDE DEF S
  <2>3. Within(S, queue, queuedBytes, pending, pendingBytes, FrameBudget, ByteBudget)
    BY <2>1, <2>2, NoVictims
  <2> QED BY <2>3 DEF S
<1>6. TotalsOK(queue, queuedBytes, pending, pendingBytes, fate, call')
  <2>1. CASE call.at = "endpoint"
    <3>1. call'.at = "tab"
      BY <1>2, <2>1 DEF NextStage
    <3>2. Scope = OpenAt(fate, EndpointOf[call.of]) /\ FrameBudget = EndpointFrames /\ ByteBudget = EndpointBytes
      BY <2>1 DEF Scope, OpenAt, FrameBudget, ByteBudget
    <3>3. \A e \in Endpoints : Within(OpenAt(fate, e), queue, queuedBytes, pending, pendingBytes,
                                      EndpointFrames, EndpointBytes)
      BY <1>0, <1>5, <3>2 DEF TotalsOK
    <3> QED BY <3>1, <3>3 DEF TotalsOK
  <2>2. CASE call.at = "tab"
    <3>1. call'.at = "flush"
      BY <1>2, <2>2 DEF NextStage
    <3>2. Scope = OpenAll(fate) /\ FrameBudget = TabFrames /\ ByteBudget = TabBytes
      BY <2>2 DEF Scope, OpenAll, FrameBudget, ByteBudget
    <3>3. \A e \in Endpoints : Within(OpenAt(fate, e), queue, queuedBytes, pending, pendingBytes,
                                      EndpointFrames, EndpointBytes)
      BY <1>0, <2>2 DEF TotalsOK
    <3> QED BY <1>5, <3>1, <3>2, <3>3 DEF TotalsOK
  <2> QED BY <1>1, <2>1, <2>2
<1> QED BY <1>1, <1>3, <1>4, <1>6 DEF IInv

\* The flush ends.
LEMMA FlushEndKeeps ==
  ASSUME IInv, FlushEnd
  PROVE  IInv'
<1>0. TypeOK /\ TotalsOK(queue, queuedBytes, pending, pendingBytes, fate, call)
  BY DEF IInv
<1>1. /\ call.at = "flush" /\ call' = Idle
      /\ UNCHANGED <<queue, queuedBytes, pending, pendingBytes, fate, pushes, wire, counters, shim>>
  BY DEF FlushEnd
<1>2. TypeOK'
  BY <1>0, <1>1 DEF TypeOK, counters, shim
<1>3. \A x \in Attachments : Attachment(x)'
  <2>1. ASSUME NEW x \in Attachments  PROVE Attachment(x)'
    <3>1. Attachment(x)
      BY DEF IInv
    <3> QED BY <1>1, <3>1 DEF Attachment, counters, shim
  <2> QED BY <2>1
<1>4. TotalsOK(queue, queuedBytes, pending, pendingBytes, fate, call')
  BY <1>0, <1>1 DEF TotalsOK, Idle
<1> QED BY <1>1, <1>2, <1>3, <1>4 DEF IInv

\* The first indices of a set are one at most.
LEMMA FirstIsOne ==
  ASSUME NEW S \in SUBSET Nat, NEW i \in FirstOf(S), NEW j \in FirstOf(S)
  PROVE  i = j
  BY DEF FirstOf

\* What the selection picks may be sent: it is queued, waits for none of its stream,
\* is the first of the history frames if it is one, and fits.
LEMMA SelectedMayGo ==
  ASSUME IInv, NEW r \in Attachments, NEW i \in Selected(r)
  PROVE  /\ i \in 1..Len(queue[r])
         /\ ~Waits(queue[r], i) /\ FirstOfHistory(queue[r], i)
         /\ Fits(r, Item(r, i).size)
<1>0. queue[r] \in Seq(ItemType) /\ Len(queue[r]) \in Nat /\ DOMAIN queue[r] = 1..Len(queue[r])
  BY LenProperties DEF IInv, TypeOK
<1>1. \A x \in High(r) : x \in 1..Len(queue[r]) /\ Item(r, x).prio = 2 /\ ~Blocked(r, x)
  BY <1>0 DEF High, FirstOf
<1>2. \A x \in Control(r) : x \in 1..Len(queue[r]) /\ Item(r, x).prio = 1 /\ ~Blocked(r, x)
  BY <1>0 DEF Control, FirstOf
<1>3. \A x \in Normal(r) : /\ x \in 1..Len(queue[r]) /\ Item(r, x).prio = 0 /\ ~Blocked(r, x)
                           /\ \A k \in 1..(x - 1) : Item(r, k).prio # 0
  <2>1. SUFFICES ASSUME NEW x \in Normal(r)
                 PROVE  /\ x \in 1..Len(queue[r]) /\ Item(r, x).prio = 0 /\ ~Blocked(r, x)
                        /\ \A k \in 1..(x - 1) : Item(r, k).prio # 0
    OBVIOUS
  <2> DEFINE H == {j \in DOMAIN queue[r] : Item(r, j).prio = 0}
  <2>2. x \in FirstOf(H) /\ ~Blocked(r, x)
    BY <2>1 DEF Normal
  <2>3. x \in H /\ \A k \in H : x <= k
    BY <2>2 DEF FirstOf
  <2>4. x \in 1..Len(queue[r]) /\ Item(r, x).prio = 0
    BY <1>0, <2>3
  <2>5. ASSUME NEW k \in 1..(x - 1)  PROVE Item(r, k).prio # 0
    <3>1. k \in DOMAIN queue[r] /\ ~(x <= k)
      BY <1>0, <2>4
    <3>2. k \notin H
      BY <2>3, <3>1
    <3> QED BY <3>1, <3>2
  <2> QED BY <2>2, <2>4, <2>5
<1>4. (\A x, y \in High(r) : x = y) /\ (\A x, y \in Control(r) : x = y) /\ (\A x, y \in Normal(r) : x = y)
  <2>1. \A S \in SUBSET Nat : \A x, y \in FirstOf(S) : x = y
    BY FirstIsOne
  <2> DEFINE A == {j \in DOMAIN queue[r] : Item(r, j).prio = 2 /\ ~Blocked(r, j)}
             B == {j \in DOMAIN queue[r] : Item(r, j).prio = 1 /\ ~Blocked(r, j)}
             H == {j \in DOMAIN queue[r] : Item(r, j).prio = 0}
  <2>2. A \in SUBSET Nat /\ B \in SUBSET Nat /\ H \in SUBSET Nat
    BY <1>0
  <2>3. High(r) = FirstOf(A) /\ Control(r) = FirstOf(B) /\ \A x \in Normal(r) : x \in FirstOf(H)
    BY DEF High, Control, Normal
  <2> HIDE DEF A, B, H
  <2> QED BY <2>1, <2>2, <2>3
<1> DEFINE Candidates == {High(r), Control(r), Normal(r)}
<1>5. LowerTurn(r) \in Candidates /\ Preferred(r) \in Candidates
  BY DEF LowerTurn, Preferred
<1> DEFINE ranked == <<Preferred(r), High(r), LowerTurn(r), Control(r), Normal(r)>>
           able == {k \in DOMAIN ranked : \E x \in ranked[k] : Eligible(r, x)}
<1>6. \A k \in DOMAIN ranked : ranked[k] \in Candidates
  BY <1>5
<1>7. Selected(r) = UNION {ranked[k] : k \in FirstOf(able)}
  BY DEF Selected
<1>8. PICK k \in FirstOf(able) : i \in ranked[k]
  BY <1>7
<1>9. k \in DOMAIN ranked /\ \E x \in ranked[k] : Eligible(r, x)
  BY <1>8 DEF FirstOf
<1> HIDE DEF ranked
<1>10. PICK C \in Candidates : i \in C /\ \E x \in C : Eligible(r, x)
  BY <1>6, <1>8, <1>9
<1>11. Eligible(r, i)
  BY <1>4, <1>10
<1>12. /\ i \in 1..Len(queue[r]) /\ ~Blocked(r, i)
       /\ Item(r, i).prio = 0 => \A m \in 1..(i - 1) : Item(r, m).prio # 0
  BY <1>1, <1>2, <1>3, <1>10
<1>13. ~Waits(queue[r], i) /\ FirstOfHistory(queue[r], i)
  BY <1>12 DEF Blocked, Item, Waits, FirstOfHistory
<1>14. Fits(r, Item(r, i).size)
  BY <1>11 DEF Eligible, Fits
<1> QED BY <1>12, <1>13, <1>14

\* A queued frame is sent.
LEMMA FlushStepKeeps ==
  ASSUME IInv, FlushStep
  PROVE  IInv'
<1>r. PICK r \in Attachments : r = call.of
  <2>1. call \in {Idle} \cup [at : {"endpoint", "tab", "flush"}, of : Attachments] /\ call.at = "flush"
    BY DEF IInv, TypeOK, FlushStep
  <2>2. call # Idle
    BY <2>1 DEF Idle
  <2> QED BY <2>1, <2>2
<1>0. TypeOK /\ fate[r] = "open"
  BY <1>r DEF IInv, FlushStep
<1>1. PICK i \in Selected(r) : Send(r, i)
  BY <1>r DEF FlushStep
<1>2. UNCHANGED <<fate, pushes, call, shim>>
  BY DEF FlushStep
<1>3. Attachment(r)
  BY <1>0 DEF IInv
<1> DEFINE q == queue[r]
           f == q[i].frame
           s == pending[r]
           e == [size |-> f.out, through |-> sequence[r] + 1]
           x == [kind |-> "frame", size |-> f.out, through |-> sequence[r] + 1]
           new == [l \in Lanes |-> IF l \in LanesOf(f) THEN q[i].n ELSE lastOut[r][l]]
<1>4. i \in 1..Len(q) /\ ~Waits(q, i) /\ FirstOfHistory(q, i) /\ Fits(r, f.size)
  BY <1>0, <1>1, SelectedMayGo DEF Item
<1>5. /\ QueueOK(q, queuedBytes[r], pushes[r], lastOut[r])
      /\ Len(q) <= QueueFrames /\ queuedBytes[r] <= QueueBytes
      /\ LedgerOK(s, pendingBytes[r])
      /\ FlowTypes(s, back[r], owed[r], wire[r])
      /\ FlowOK(s, back[r], owed[r], wire[r], consumer[r])
  BY <1>0, <1>3 DEF Attachment, Good
<1>6. /\ Len(q) \in Nat /\ Len(s) \in Nat /\ queuedBytes[r] \in Nat /\ pendingBytes[r] \in Nat
      /\ q \in Seq(ItemType) /\ s \in Seq(Entry) /\ wire[r] \in Seq(Message) /\ sequence[r] \in Nat
  BY <1>0, <1>3, GoodHolds DEF Attachment, TypeOK
<1>7. f.size \in Nat /\ f.out \in Nat /\ f.out <= f.size /\ f \in GoodFrames
  BY <1>4, <1>6, QueueTypes
<1>8. e \in Entry /\ x \in FrameMessage /\ x \in Message /\ e.size = f.out /\ x.size = e.size /\ x.through = e.through
  BY <1>6, <1>7 DEF Entry, FrameMessage, Message
<1>9. /\ queue' = [queue EXCEPT ![r] = RemoveAt(q, i)]
      /\ queuedBytes' = [queuedBytes EXCEPT ![r] = @ - f.size]
      /\ sequence' = [sequence EXCEPT ![r] = sequence[r] + 1]
      /\ pending' = [pending EXCEPT ![r] = Append(@, e)]
      /\ pendingBytes' = [pendingBytes EXCEPT ![r] = @ + f.out]
      /\ wire' = [wire EXCEPT ![r] = Append(@, x)]
      /\ lastOut' = [lastOut EXCEPT ![r] = new]
  <2>1. \A l \in Lanes : lastOut[r][l] = lastOut[r][l]
    OBVIOUS
  <2> QED BY <1>1 DEF Send, Item, Charge
<1>10. /\ QueueOK(RemoveAt(q, i), queuedBytes[r] - f.size, pushes[r], new)
       /\ Len(RemoveAt(q, i)) = Len(q) - 1
  BY <1>4, <1>5, QueueSend
<1>11. RemoveAt(q, i) \in Seq(ItemType) /\ new \in [Lanes -> Nat] /\ queuedBytes[r] - f.size \in Nat
  <2>1. RemoveAt(q, i) \in Seq(ItemType) /\ new \in [Lanes -> Nat]
    BY <1>10 DEF QueueOK
  <2>2. queuedBytes[r] - f.size \in Nat
    <3>1. queuedBytes[r] - f.size = SumTo(QueueSizes(RemoveAt(q, i)), Len(RemoveAt(q, i)))
      BY <1>10 DEF QueueOK
    <3> QED BY <2>1, <3>1, QueueTypes
  <2> QED BY <2>1, <2>2
<1>12. LedgerOK(Append(s, e), pendingBytes[r] + f.out)
  <2>1. s = << >> \/ (Len(s) < CreditFrames /\ pendingBytes[r] + f.out <= CreditBytes)
    <3>1. CreditBytes \in Nat
      BY BridgeConstants
    <3> DEFINE k == f.size
               m == f.out
               c == pendingBytes[r]
    <3>2. s = << >> \/ (Len(s) < CreditFrames /\ c + k <= CreditBytes)
      BY <1>4 DEF Fits
    <3>3. c \in Nat /\ k \in Nat /\ m \in Nat /\ m <= k
      BY <1>6, <1>7
    <3> HIDE DEF k, m, c
    <3>4. s = << >> \/ (Len(s) < CreditFrames /\ c + m <= CreditBytes)
      BY <3>1, <3>2, <3>3
    <3> QED BY <3>4 DEF c, m
  <2> QED BY <1>5, <1>8, <2>1, LedgerSend
<1>13. FlowOK(Append(s, e), back[r], owed[r], Append(wire[r], x), consumer[r])
  BY <1>5, <1>8, FlowSend
<1>14. Append(s, e) \in Seq(Entry) /\ Len(Append(s, e)) = Len(s) + 1 /\ Append(wire[r], x) \in Seq(Message)
  BY <1>6, <1>8, AppendProperties
<1> HIDE DEF f, e, x, new
<1>15. /\ queue' \in [Attachments -> Seq(ItemType)] /\ queue'[r] = RemoveAt(q, i)
       /\ \A y \in Attachments : y # r => queue'[y] = queue[y]
  BY <1>0, <1>9, <1>11 DEF TypeOK
<1>16. /\ queuedBytes' \in [Attachments -> Nat] /\ queuedBytes'[r] = queuedBytes[r] - f.size
       /\ \A y \in Attachments : y # r => queuedBytes'[y] = queuedBytes[y]
  BY <1>0, <1>9, <1>11 DEF TypeOK
<1>17. /\ pending' \in [Attachments -> Seq(Entry)] /\ pending'[r] = Append(s, e)
       /\ \A y \in Attachments : y # r => pending'[y] = pending[y]
  BY <1>0, <1>9, <1>14 DEF TypeOK
<1>18. /\ pendingBytes' \in [Attachments -> Nat] /\ pendingBytes'[r] = pendingBytes[r] + f.out
       /\ \A y \in Attachments : y # r => pendingBytes'[y] = pendingBytes[y]
  <2>1. pendingBytes[r] + f.out \in Nat
    BY <1>6, <1>7
  <2> QED BY <1>0, <1>9, <2>1 DEF TypeOK
<1>19. /\ wire' \in [Attachments -> Seq(Message)] /\ wire'[r] = Append(wire[r], x)
       /\ \A y \in Attachments : y # r => wire'[y] = wire[y]
  BY <1>0, <1>9, <1>14 DEF TypeOK
<1>20. /\ lastOut' \in [Attachments -> [Lanes -> Nat]] /\ lastOut'[r] = new
       /\ \A y \in Attachments : y # r => lastOut'[y] = lastOut[y]
  BY <1>0, <1>9, <1>11 DEF TypeOK
<1>21. /\ sequence' \in [Attachments -> Nat]
       /\ highStreak' \in [Attachments -> Nat] /\ controlStreak' \in [Attachments -> Nat]
  <2>1. sequence' \in [Attachments -> Nat]
    BY <1>0, <1>6, <1>9 DEF TypeOK
  <2>2. \A k, m \in Nat : Raised(k, m) \in Nat
    BY DEF Raised
  <2>3. HighTurns \in Nat /\ ControlTurns \in Nat
    BY BridgeConstants
  <2>4. highStreak[r] \in Nat /\ controlStreak[r] \in Nat
    BY <1>0 DEF TypeOK
  <2>5. highStreak' \in [Attachments -> Nat]
    <3>1. \E v \in Nat : highStreak' = [highStreak EXCEPT ![r] = v]
      BY <1>1, <2>2, <2>3, <2>4 DEF Send
    <3> QED BY <1>0, <3>1 DEF TypeOK
  <2>6. controlStreak' \in [Attachments -> Nat]
    <3>1. \E v \in Nat : controlStreak' = [controlStreak EXCEPT ![r] = v]
      BY <1>1, <2>2, <2>3, <2>4 DEF Send
    <3> QED BY <1>0, <3>1 DEF TypeOK
  <2> QED BY <2>1, <2>5, <2>6
<1>22. TypeOK'
  BY <1>0, <1>2, <1>15, <1>16, <1>17, <1>18, <1>19, <1>20, <1>21 DEF TypeOK, shim
<1>23. \A y \in Attachments : y # r => Same(y)
  BY <1>2, <1>15, <1>16, <1>17, <1>18, <1>19, <1>20 DEF Same, shim
<1>24. Attachment(r)'
  <2>1. pushes'[r] = pushes[r] /\ fate'[r] = fate[r] /\ consumer'[r] = consumer[r] /\ owed'[r] = owed[r] /\ back'[r] = back[r]
    BY <1>2 DEF shim
  <2>2. QueueOK(queue'[r], queuedBytes'[r], pushes'[r], lastOut'[r]) /\ LedgerOK(pending'[r], pendingBytes'[r])
    BY <1>10, <1>12, <1>15, <1>16, <1>17, <1>18, <1>20, <2>1
  <2>3. Len(queue'[r]) <= QueueFrames /\ queuedBytes'[r] <= QueueBytes
    <3> DEFINE a == queuedBytes[r]
               k == f.size
               n == Len(q)
    <3>1. /\ a \in Nat /\ k \in Nat /\ n \in Nat /\ n <= QueueFrames /\ a <= QueueBytes
          /\ queuedBytes'[r] = a - k /\ Len(queue'[r]) = n - 1
      BY <1>5, <1>6, <1>7, <1>10, <1>15, <1>16
    <3>2. QueueFrames \in Nat /\ QueueBytes \in Nat
      BY BridgeConstants
    <3> HIDE DEF a, k, n
    <3> QED BY <3>1, <3>2
  <2>4. FlowTypes(pending'[r], back'[r], owed'[r], wire'[r])
    BY <1>0, <1>5, <1>14, <1>17, <1>19, <2>1 DEF FlowTypes
  <2>5. FlowOK(pending'[r], back'[r], owed'[r], wire'[r], consumer'[r])
    BY <1>13, <1>17, <1>19, <2>1
  <2>6. fate'[r] # "badcredit"
    BY <1>0, <2>1
  <2>7. Good(queue'[r], queuedBytes'[r], pushes'[r], lastOut'[r], pending'[r], pendingBytes'[r], fate'[r],
             wire'[r], consumer'[r], owed'[r], back'[r])
    BY <2>2, <2>3, <2>4, <2>5, <2>6 DEF Good
  <2> QED BY <2>7 DEF Attachment
<1>25. HoldsNoMore(r, queue, queuedBytes, pending, pendingBytes, queue', queuedBytes', pending', pendingBytes')
  <2> DEFINE a == queuedBytes[r]
             b == pendingBytes[r]
             k == f.size
             m == f.out
             n == Len(q)
             o == Len(s)
  <2>1. /\ a \in Nat /\ b \in Nat /\ k \in Nat /\ m \in Nat /\ m <= k /\ n \in Nat /\ o \in Nat
        /\ queuedBytes'[r] = a - k /\ pendingBytes'[r] = b + m
        /\ Len(queue'[r]) = n - 1 /\ Len(pending'[r]) = o + 1
    BY <1>6, <1>7, <1>10, <1>14, <1>15, <1>16, <1>17, <1>18
  <2> HIDE DEF a, b, k, m, n, o
  <2>2. /\ Len(queue'[r]) + Len(pending'[r]) <= n + o
        /\ queuedBytes'[r] + pendingBytes'[r] <= a + b
    BY <2>1
  <2> QED BY <2>2 DEF HoldsNoMore, a, b, n, o
<1>26. call' = call
  BY <1>2
<1> QED BY <1>0, <1>22, <1>23, <1>24, <1>25, <1>26, StepKeeps

-----------------------------------------------------------------------------
\* Steps on the port change neither the queue nor what is held: the credit that is
\* under way has to stay accounted for.
LEMMA PortStep ==
  ASSUME IInv, NEW r \in Attachments,
         UNCHANGED <<queue, queuedBytes, pending, pendingBytes, fate, pushes, call, counters>>,
         wire' \in [Attachments -> Seq(Message)], consumer' \in [Attachments -> {"open", "closed"}],
         owed' \in [Attachments -> Credit], back' \in [Attachments -> Seq(Credit \cup Close)],
         \A x \in Attachments : x # r =>
           wire'[x] = wire[x] /\ consumer'[x] = consumer[x] /\ owed'[x] = owed[x] /\ back'[x] = back[x],
         fate[r] = "open" => FlowOK(pending[r], back'[r], owed'[r], wire'[r], consumer'[r])
  PROVE  IInv'
<1>0. TypeOK /\ Attachment(r)
  BY DEF IInv
<1>1. TypeOK'
  BY <1>0 DEF TypeOK, counters
<1>2. \A x \in Attachments : x # r => Same(x)
  BY DEF Same, counters
<1>3. /\ queue'[r] = queue[r] /\ queuedBytes'[r] = queuedBytes[r] /\ pushes'[r] = pushes[r]
      /\ lastOut'[r] = lastOut[r] /\ pending'[r] = pending[r] /\ pendingBytes'[r] = pendingBytes[r]
      /\ fate'[r] = fate[r] /\ call' = call
  BY DEF counters
<1>4. Attachment(r)'
  <2>1. FlowTypes(pending[r], back'[r], owed'[r], wire'[r])
    BY <1>0 DEF FlowTypes, TypeOK
  <2>2. Good(queue[r], queuedBytes[r], pushes[r], lastOut[r], pending[r], pendingBytes[r], fate[r],
             wire'[r], consumer'[r], owed'[r], back'[r])
    BY <1>0, <2>1 DEF Attachment, Good
  <2> QED BY <1>3, <2>2 DEF Attachment
<1>5. HoldsNoMore(r, queue, queuedBytes, pending, pendingBytes, queue', queuedBytes', pending', pendingBytes')
  <2>1. /\ Len(queue[r]) \in Nat /\ Len(pending[r]) \in Nat
        /\ queuedBytes[r] \in Nat /\ pendingBytes[r] \in Nat
    BY <1>0, GoodHolds DEF Attachment
  <2>2. Len(queue'[r]) = Len(queue[r]) /\ Len(pending'[r]) = Len(pending[r])
    BY <1>3
  <2> QED BY <1>3, <2>1, <2>2 DEF HoldsNoMore
<1> QED BY <1>1, <1>2, <1>3, <1>4, <1>5, StepKeeps

\* The consumer takes a message off the port.
LEMMA TakeKeeps ==
  ASSUME IInv, NEW r \in Attachments, Take(r)
  PROVE  IInv'
<1> DEFINE m == Head(wire[r])
           u == [frames |-> owed[r].frames + 1, bytes |-> owed[r].bytes + m.size, through |-> m.through]
<1>0. TypeOK /\ Attachment(r)
  BY DEF IInv
<1>1. /\ wire[r] # << >> /\ wire' = [wire EXCEPT ![r] = Tail(@)]
      /\ UNCHANGED <<queue, queuedBytes, pending, pendingBytes, fate, pushes, call, counters, back>>
  BY DEF Take
<1>2. /\ wire[r] \in Seq(Message) /\ m \in Message /\ Tail(wire[r]) \in Seq(Message)
      /\ owed[r] \in Credit /\ consumer[r] \in {"open", "closed"} /\ back[r] \in Seq(Credit \cup Close)
  <2>1. wire[r] \in Seq(Message)
    BY <1>0 DEF TypeOK
  <2> QED BY <1>0, <1>1, <2>1, HeadTailProperties DEF TypeOK
<1>3. /\ wire' \in [Attachments -> Seq(Message)] /\ wire'[r] = Tail(wire[r])
      /\ \A x \in Attachments : x # r => wire'[x] = wire[x]
  BY <1>0, <1>1, <1>2 DEF TypeOK
<1>4. back' \in [Attachments -> Seq(Credit \cup Close)] /\ back' = back
  BY <1>0, <1>1 DEF TypeOK
<1>5. FlowTypes(pending[r], back[r], owed[r], wire[r])
      /\ (fate[r] = "open" => FlowOK(pending[r], back[r], owed[r], wire[r], consumer[r]))
  BY <1>0 DEF Attachment, Good
<1>6. Nothing \in Credit
  BY DEF Nothing, Credit
<1>7. CASE consumer[r] = "closed" /\ UNCHANGED <<consumer, owed>>
  <2>1. consumer' \in [Attachments -> {"open", "closed"}] /\ owed' \in [Attachments -> Credit]
    BY <1>0, <1>7 DEF TypeOK
  <2>2. fate[r] = "open" => FlowOK(pending[r], back'[r], owed'[r], wire'[r], consumer'[r])
    BY <1>4, <1>5, <1>7, FlowDeaf
  <2> QED BY <1>1, <1>3, <1>4, <1>7, <2>1, <2>2, PortStep
<1>8. CASE consumer[r] = "open" /\ m.kind = "frame" /\ owed' = [owed EXCEPT ![r] = u] /\ UNCHANGED consumer
  <2>1. m \in FrameMessage
    BY <1>2, <1>8 DEF Message
  <2>2. u \in Credit
    <3>1. owed[r].frames \in Nat /\ owed[r].bytes \in Nat
      BY <1>2, CreditOrClose
    <3>2. m.size \in Nat /\ m.through \in Nat
      BY <2>1 DEF FrameMessage
    <3> QED BY <3>1, <3>2 DEF Credit
  <2> HIDE DEF u
  <2>3. /\ consumer' \in [Attachments -> {"open", "closed"}] /\ consumer'[r] = "open"
        /\ owed' \in [Attachments -> Credit] /\ owed'[r] = u
        /\ \A x \in Attachments : x # r => consumer'[x] = consumer[x] /\ owed'[x] = owed[x]
    BY <1>0, <1>8, <2>2 DEF TypeOK
  <2>4. fate[r] = "open" => FlowOK(pending[r], back[r], u, Tail(wire[r]), "open")
    BY <1>1, <1>5, <1>8, FlowTake DEF u
  <2>5. fate[r] = "open" => FlowOK(pending[r], back'[r], owed'[r], wire'[r], consumer'[r])
    BY <1>3, <1>4, <2>3, <2>4
  <2>6. \A x \in Attachments : x # r =>
          wire'[x] = wire[x] /\ consumer'[x] = consumer[x] /\ owed'[x] = owed[x] /\ back'[x] = back[x]
    BY <1>3, <1>4, <2>3
  <2> QED BY <1>1, <1>3, <1>4, <2>3, <2>5, <2>6, PortStep
\* After CLOSED the consumer no longer listens; only a closed receiver sends it.
<1>9. CASE consumer[r] = "open" /\ m.kind = "closed" /\ consumer' = [consumer EXCEPT ![r] = "closed"]
           /\ owed' = [owed EXCEPT ![r] = Nothing]
  <2>1. /\ consumer' \in [Attachments -> {"open", "closed"}]
        /\ owed' \in [Attachments -> Credit]
        /\ \A x \in Attachments : x # r => consumer'[x] = consumer[x] /\ owed'[x] = owed[x]
    BY <1>0, <1>6, <1>9 DEF TypeOK
  <2>2. fate[r] # "open"
    <3>1. SUFFICES ASSUME fate[r] = "open"  PROVE m \in FrameMessage
      BY <1>9 DEF FrameMessage
    <3>2. FlowOK(pending[r], back[r], owed[r], wire[r], "open")
      BY <1>5, <1>9, <3>1
    <3> QED BY <1>1, <1>5, <3>2, FlowTake
  <2> QED BY <1>1, <1>3, <1>4, <2>1, <2>2, PortStep
<1> QED BY <1>7, <1>8, <1>9 DEF Take

\* The consumer returns what it owes.
LEMMA ReturnKeeps ==
  ASSUME IInv, NEW r \in Attachments, ReturnCredit(r)
  PROVE  IInv'
<1>0. TypeOK /\ Attachment(r)
  BY DEF IInv
<1>1. /\ consumer[r] = "open" /\ owed[r].frames > 0
      /\ back' = [back EXCEPT ![r] = Append(@, owed[r])]
      /\ owed' = [owed EXCEPT ![r] = Nothing]
      /\ UNCHANGED <<queue, queuedBytes, pending, pendingBytes, fate, pushes, call, wire, counters, consumer>>
  BY DEF ReturnCredit
<1>2. Nothing \in Credit /\ Append(back[r], owed[r]) \in Seq(Credit \cup Close)
  <2>1. Nothing \in Credit
    BY DEF Nothing, Credit
  <2>2. back[r] \in Seq(Credit \cup Close) /\ owed[r] \in Credit \cup Close
    BY <1>0 DEF TypeOK
  <2> QED BY <2>1, <2>2, AppendProperties
<1>3. /\ back' \in [Attachments -> Seq(Credit \cup Close)] /\ back'[r] = Append(back[r], owed[r])
      /\ owed' \in [Attachments -> Credit] /\ owed'[r] = Nothing
      /\ \A x \in Attachments : x # r => back'[x] = back[x] /\ owed'[x] = owed[x]
  BY <1>0, <1>1, <1>2 DEF TypeOK
<1>4. /\ wire' \in [Attachments -> Seq(Message)] /\ consumer' \in [Attachments -> {"open", "closed"}]
      /\ wire' = wire /\ consumer' = consumer
  BY <1>0, <1>1 DEF TypeOK
<1>5. fate[r] = "open" => FlowOK(pending[r], Append(back[r], owed[r]), Nothing, wire[r], "open")
  BY <1>0, <1>1, FlowReturn DEF Attachment, Good
<1> QED BY SMTT(30), <1>1, <1>3, <1>4, <1>5, PortStep

\* The consumer closes.
LEMMA ConsumerCloseKeeps ==
  ASSUME IInv, NEW r \in Attachments, ConsumerClose(r)
  PROVE  IInv'
<1> DEFINE close == [close |-> TRUE]
<1>0. TypeOK /\ Attachment(r)
  BY DEF IInv
<1>1. /\ consumer[r] = "open"
      /\ consumer' = [consumer EXCEPT ![r] = "closed"]
      /\ back' = [back EXCEPT ![r] = Append(@, close)]
      /\ owed' = [owed EXCEPT ![r] = Nothing]
      /\ UNCHANGED <<queue, queuedBytes, pending, pendingBytes, fate, pushes, call, wire, counters>>
  BY DEF ConsumerClose
<1>2. Nothing \in Credit /\ close \in Close /\ Append(back[r], close) \in Seq(Credit \cup Close)
  <2>1. Nothing \in Credit
    BY DEF Nothing, Credit
  <2>2. back[r] \in Seq(Credit \cup Close) /\ close \in Close
    BY <1>0 DEF TypeOK, Close
  <2>3. close \in Credit \cup Close
    BY <2>2
  <2> QED BY <2>1, <2>2, <2>3, AppendProperties
<1> HIDE DEF close
<1>3. /\ back' \in [Attachments -> Seq(Credit \cup Close)] /\ back'[r] = Append(back[r], close)
      /\ owed' \in [Attachments -> Credit] /\ owed'[r] = Nothing
      /\ consumer' \in [Attachments -> {"open", "closed"}] /\ consumer'[r] = "closed"
      /\ \A x \in Attachments : x # r => back'[x] = back[x] /\ owed'[x] = owed[x] /\ consumer'[x] = consumer[x]
  BY <1>0, <1>1, <1>2 DEF TypeOK
<1>4. wire' \in [Attachments -> Seq(Message)] /\ wire' = wire
  BY <1>0, <1>1 DEF TypeOK
<1>5. fate[r] = "open" => FlowOK(pending[r], Append(back[r], close), Nothing, wire[r], "closed")
  BY <1>0, <1>1, <1>2, FlowClose DEF Attachment, Good
<1> QED BY <1>1, <1>3, <1>4, <1>5, PortStep

\* A message of the consumer reaches a receiver that is gone.
LEMMA TooLateKeeps ==
  ASSUME IInv, NEW r \in Attachments, back[r] # << >>, back' = [back EXCEPT ![r] = Tail(@)],
         fate[r] # "open",
         UNCHANGED <<queue, queuedBytes, pending, pendingBytes, fate, pushes, call, wire, counters, consumer, owed>>
  PROVE  IInv'
<1>0. TypeOK
  BY DEF IInv
<1>1. Tail(back[r]) \in Seq(Credit \cup Close)
  <2>1. back[r] \in Seq(Credit \cup Close)
    BY <1>0 DEF TypeOK
  <2> QED BY <2>1, HeadTailProperties
<1>2. /\ back' \in [Attachments -> Seq(Credit \cup Close)]
      /\ \A x \in Attachments : x # r => back'[x] = back[x]
  BY <1>0, <1>1 DEF TypeOK
<1>3. /\ wire' \in [Attachments -> Seq(Message)] /\ consumer' \in [Attachments -> {"open", "closed"}]
      /\ owed' \in [Attachments -> Credit]
      /\ wire' = wire /\ consumer' = consumer /\ owed' = owed
  BY <1>0 DEF TypeOK
<1> QED BY <1>2, <1>3, PortStep

\* A grant frees the entries it repays; the receiver is flushed next.
LEMMA GrantKeeps ==
  ASSUME IInv, NEW r \in Attachments, call = Idle, back[r] # << >>, back' = [back EXCEPT ![r] = Tail(@)],
         fate[r] = "open", back[r][1] \in Credit,
         pending' = [pending EXCEPT ![r] = SubSeq(@, back[r][1].frames + 1, Len(@))],
         pendingBytes' = [pendingBytes EXCEPT ![r] = @ - back[r][1].bytes],
         call' = Granted(r),
         UNCHANGED <<queue, queuedBytes, fate, wire, pushes, counters, consumer, owed>>
  PROVE  IInv'
<1> DEFINE g == back[r][1]
           s == pending[r]
           t == SubSeq(s, g.frames + 1, Len(s))
           k == g.frames
<1>0. TypeOK /\ Attachment(r)
  BY DEF IInv
<1>1. Tail(back[r]) \in Seq(Credit \cup Close)
  <2>1. back[r] \in Seq(Credit \cup Close)
    BY <1>0 DEF TypeOK
  <2> QED BY <2>1, HeadTailProperties
<1>2. /\ QueueOK(queue[r], queuedBytes[r], pushes[r], lastOut[r])
      /\ Len(queue[r]) <= QueueFrames /\ queuedBytes[r] <= QueueBytes
      /\ LedgerOK(s, pendingBytes[r])
      /\ FlowTypes(s, back[r], owed[r], wire[r])
      /\ FlowOK(s, back[r], owed[r], wire[r], consumer[r])
  BY <1>0 DEF Attachment, Good
<1>3. g.frames \in 1..Len(s) /\ g.bytes = PrefixBytes(s, g.frames)
  BY <1>2, GrantIsValid
<1>4. /\ LedgerOK(t, pendingBytes[r] - g.bytes)
      /\ Len(t) <= Len(s) /\ pendingBytes[r] - g.bytes <= pendingBytes[r]
  <2>1. k \in 1..Len(s) /\ g.bytes = PrefixBytes(s, k)
    BY <1>3
  <2> HIDE DEF k
  <2>2. /\ LedgerOK(SubSeq(s, k + 1, Len(s)), pendingBytes[r] - PrefixBytes(s, k))
        /\ Len(SubSeq(s, k + 1, Len(s))) <= Len(s)
        /\ pendingBytes[r] - PrefixBytes(s, k) <= pendingBytes[r]
    BY <1>2, <2>1, LedgerGrant
  <2> QED BY <2>1, <2>2 DEF k
<1>5. FlowOK(t, Tail(back[r]), owed[r], wire[r], consumer[r])
  BY <1>2, FlowGrant
<1>6. t \in Seq(Entry) /\ pendingBytes[r] - g.bytes \in Nat
  <2>1. t \in Seq(Entry) /\ pendingBytes[r] - g.bytes = PrefixBytes(t, Len(t))
    BY <1>4 DEF LedgerOK
  <2>2. Len(t) \in 0..Len(t)
    <3> HIDE DEF t
    <3>1. Len(t) \in Nat
      BY <2>1, LenProperties
    <3> QED BY <3>1
  <2> QED BY <2>1, <2>2, PrefixType
<1> HIDE DEF g, t, k
<1>7. /\ pending' \in [Attachments -> Seq(Entry)] /\ pending'[r] = t
      /\ \A x \in Attachments : x # r => pending'[x] = pending[x]
  <2>1. pending' = [pending EXCEPT ![r] = t]
    BY DEF t, g
  <2> QED BY <1>0, <1>6, <2>1 DEF TypeOK
<1>8. /\ pendingBytes' \in [Attachments -> Nat] /\ pendingBytes'[r] = pendingBytes[r] - g.bytes
      /\ \A x \in Attachments : x # r => pendingBytes'[x] = pendingBytes[x]
  <2>1. pendingBytes' = [pendingBytes EXCEPT ![r] = pendingBytes[r] - g.bytes]
    BY <1>0 DEF g, TypeOK
  <2> QED BY SMTT(30), <1>0, <1>6, <2>1 DEF TypeOK
<1>9. /\ back' \in [Attachments -> Seq(Credit \cup Close)] /\ back'[r] = Tail(back[r])
      /\ \A x \in Attachments : x # r => back'[x] = back[x]
  BY <1>0, <1>1 DEF TypeOK
<1>10. call' \in [at : {"endpoint", "tab", "flush"}, of : Attachments] /\ call'.at = "flush" /\ call.at = "none"
  BY DEF Granted, Idle
<1>11. TypeOK'
  BY <1>0, <1>7, <1>8, <1>9, <1>10 DEF TypeOK, counters
<1>12. \A x \in Attachments : x # r => Same(x)
  BY <1>7, <1>8, <1>9 DEF Same, counters
<1>13. /\ queue'[r] = queue[r] /\ queuedBytes'[r] = queuedBytes[r] /\ pushes'[r] = pushes[r]
       /\ lastOut'[r] = lastOut[r] /\ fate'[r] = fate[r] /\ wire'[r] = wire[r]
       /\ consumer'[r] = consumer[r] /\ owed'[r] = owed[r]
  BY DEF counters
<1>14. Attachment(r)'
  <2>1. FlowTypes(t, Tail(back[r]), owed[r], wire[r])
    BY <1>1, <1>2, <1>6 DEF FlowTypes
  <2>2. Good(queue[r], queuedBytes[r], pushes[r], lastOut[r], t, pendingBytes[r] - g.bytes, fate[r],
             wire[r], consumer[r], owed[r], Tail(back[r]))
    BY <1>2, <1>4, <1>5, <2>1 DEF Good
  <2> QED BY <1>7, <1>8, <1>9, <1>13, <2>2 DEF Attachment
<1>15. HoldsNoMore(r, queue, queuedBytes, pending, pendingBytes, queue', queuedBytes', pending', pendingBytes')
  <2> DEFINE a == Len(queue[r])
             b == Len(s)
             c == queuedBytes[r]
             d == pendingBytes[r]
             e == Len(t)
             f == d - g.bytes
  <2>1. a \in Nat /\ b \in Nat /\ c \in Nat /\ d \in Nat
    BY <1>0, GoodHolds DEF Attachment
  <2>2. e \in Nat /\ f \in Nat /\ e <= b /\ f <= d
    BY <1>4, <1>6, LenProperties
  <2>3. Len(queue'[r]) = a /\ Len(pending'[r]) = e /\ queuedBytes'[r] = c /\ pendingBytes'[r] = f
    BY <1>7, <1>8, <1>13
  <2> HIDE DEF a, b, c, d, e, f
  <2>4. a + e <= a + b /\ c + f <= c + d
    BY <2>1, <2>2
  <2>5. Len(queue'[r]) + Len(pending'[r]) <= a + b /\ queuedBytes'[r] + pendingBytes'[r] <= c + d
    BY <2>3, <2>4
  <2> QED BY <2>5 DEF HoldsNoMore, a, b, c, d
<1>16. /\ fate'[r] = "open" => fate[r] = "open"
       /\ call.at = "endpoint" => call' = call
       /\ call.at \in {"endpoint", "tab"} => call'.at \in {"endpoint", "tab"}
  BY <1>10
<1> QED BY <1>11, <1>12, <1>14, <1>15, <1>16, StepKeeps

\* The launcher takes a message of the consumer: nothing it receives is invalid.
LEMMA FromConsumerKeeps ==
  ASSUME IInv, NEW r \in Attachments, FromConsumer(r)
  PROVE  IInv'
<1> DEFINE g == Head(back[r])
<1>0. TypeOK /\ Attachment(r)
  BY DEF IInv
<1>1. /\ call = Idle /\ back[r] # << >> /\ back' = [back EXCEPT ![r] = Tail(@)]
      /\ UNCHANGED <<pushes, counters, consumer, owed>>
  BY DEF FromConsumer
<1>2. back[r] \in Seq(Credit \cup Close) /\ g = back[r][1] /\ g \in Credit \cup Close
  <2>1. back[r] \in Seq(Credit \cup Close)
    BY <1>0 DEF TypeOK
  <2> QED BY <1>1, <2>1, HeadTailProperties
<1>3. CASE fate[r] # "open" /\ UNCHANGED <<queue, queuedBytes, pending, pendingBytes, fate, call, wire>>
  BY <1>1, <1>3, TooLateKeeps
<1>4. CASE fate[r] = "open" /\ Drop(r, "closed") /\ UNCHANGED call
  BY <1>1, <1>4, DropKeeps
<1>5. CASE fate[r] = "open" /\ "close" \notin DOMAIN g
  <2>1. g \in Credit
    BY <1>2, <1>5, CreditOrClose
  <2>2. ValidGrant(r, g)
    BY <1>0, <1>1, <1>2, <1>5, <2>1, GrantIsValid DEF Attachment, Good, ValidGrant
  <2>3. /\ pending' = [pending EXCEPT ![r] = SubSeq(@, g.frames + 1, Len(@))]
        /\ pendingBytes' = [pendingBytes EXCEPT ![r] = @ - g.bytes]
        /\ call' = Granted(r)
        /\ UNCHANGED <<queue, queuedBytes, fate, wire>>
    BY <1>5, <2>2 DEF FromConsumer
  <2> QED BY <1>1, <1>2, <1>5, <2>1, <2>3, GrantKeeps
<1> QED BY <1>3, <1>4, <1>5 DEF FromConsumer

-----------------------------------------------------------------------------
\* The invariant holds at first: nothing is held, nothing is under way.
LEMMA InitKeeps == Init => IInv
<1> SUFFICES ASSUME Init  PROVE IInv
  OBVIOUS
<1>1. Nothing \in Credit
  BY DEF Nothing, Credit
<1>2. << >> \in Seq(ItemType) /\ << >> \in Seq(Entry) /\ << >> \in Seq(Message) /\ << >> \in Seq(Credit \cup Close)
      /\ Len(<< >>) = 0
  BY EmptySeq
<1>3. TypeOK
  BY <1>1, <1>2 DEF Init, TypeOK, Fates
<1>4. ASSUME NEW r \in Attachments  PROVE Attachment(r)
  <2>1. /\ queue[r] = << >> /\ queuedBytes[r] = 0 /\ pending[r] = << >> /\ pendingBytes[r] = 0
        /\ fate[r] = "open" /\ pushes[r] = 0 /\ wire[r] = << >> /\ consumer[r] = "open"
        /\ owed[r] = Nothing /\ back[r] = << >> /\ lastOut[r] = [l \in Lanes |-> 0]
    BY DEF Init
  <2>2. QueueOK(<< >>, 0, 0, lastOut[r])
    <3>1. lastOut[r] \in [Lanes -> Nat] /\ (\A l \in Lanes : lastOut[r][l] <= 0) /\ 0 \in Nat
      BY <2>1
    <3> QED BY <3>1, QueueEmpty
  <2>3. LedgerOK(<< >>, 0)
    BY LedgerEmpty
  <2>4. FlowTypes(<< >>, << >>, Nothing, << >>)
    BY <1>1, <1>2 DEF FlowTypes
  <2>5. FlowOK(<< >>, << >>, Nothing, << >>, "open")
    <3>1. AllCredits(<< >>, 0) /\ Posted(<< >>, 0) = 0
      <4>1. AllCredits(<< >>, 0)
        BY <1>2 DEF AllCredits
      <4> QED BY <1>2, <4>1, PostedType
    <3>2. OwedOK(<< >>, 0, Nothing)
      <4>1. 0 \in 0..Len(<< >>)
        BY <1>2
      <4> QED BY <1>2, <4>1, OwesNothing
    <3>3. 0 + Nothing.frames = 0
      BY DEF Nothing
    <3>4. WireOK(<< >>, 0, << >>)
      BY <1>2 DEF WireOK
    <3>5. CloseIsLast(<< >>, "open") /\ CreditsOK(<< >>, << >>)
      BY <1>2 DEF CloseIsLast, CreditsOK
    <3> QED BY <1>2, <3>1, <3>2, <3>3, <3>4, <3>5 DEF FlowOK
  <2>6. 0 <= QueueFrames /\ 0 <= QueueBytes
    BY BridgeConstants
  <2>7. Good(<< >>, 0, 0, lastOut[r], << >>, 0, "open", << >>, "open", Nothing, << >>)
    BY <1>2, <2>2, <2>3, <2>4, <2>5, <2>6 DEF Good
  <2> QED BY <2>1, <2>7 DEF Attachment
<1>5. TotalsOK(queue, queuedBytes, pending, pendingBytes, fate, call)
  <2>1. ASSUME NEW S \in SUBSET Attachments, NEW m \in Nat, NEW k \in Nat
        PROVE  Within(S, queue, queuedBytes, pending, pendingBytes, m, k)
    <3> DEFINE F == [x \in Attachments |-> 0]
    <3>1. IsFiniteSet(S)
      BY BridgeConstants, FS_Subset
    <3>2. [x \in S |-> Len(queue[x]) + Len(pending[x])] = [x \in S |-> F[x]]
      <4>1. \A x \in S : Len(queue[x]) + Len(pending[x]) = F[x]
        BY <1>2 DEF Init
      <4> QED BY <4>1
    <3>3. [x \in S |-> queuedBytes[x] + pendingBytes[x]] = [x \in S |-> F[x]]
      <4>1. \A x \in S : queuedBytes[x] + pendingBytes[x] = F[x]
        BY DEF Init
      <4> QED BY <4>1
    <3>4. \A x \in S : F[x] \in Nat /\ ~(F[x] > 0)
      OBVIOUS
    <3> HIDE DEF F
    <3>5. /\ SumFunction([x \in S |-> F[x]]) \in Nat
          /\ SumFunction([x \in S |-> F[x]]) > 0 => \E x \in S : F[x] > 0
      BY <3>1, <3>4, TotalPositive
    <3>6. SumFunction([x \in S |-> F[x]]) \in Nat
      BY <3>1, <3>4, TotalPositive
    <3>7. SumFunction([x \in S |-> F[x]]) = 0
      BY <3>4, <3>5, <3>6
    <3>8. /\ SumFunction([x \in S |-> Len(queue[x]) + Len(pending[x])]) = 0
          /\ SumFunction([x \in S |-> queuedBytes[x] + pendingBytes[x]]) = 0
      BY <3>2, <3>3, <3>7
    <3>9. 0 <= m /\ 0 <= k
      OBVIOUS
    <3> QED BY <3>8, <3>9 DEF Within
  <2>2. \A e : OpenAt(fate, e) \in SUBSET Attachments
    BY DEF OpenAt
  <2>3. OpenAll(fate) \in SUBSET Attachments
    BY DEF OpenAll
  <2>4. EndpointFrames \in Nat /\ EndpointBytes \in Nat /\ TabFrames \in Nat /\ TabBytes \in Nat
    BY BridgeConstants
  <2> QED BY <2>1, <2>2, <2>3, <2>4 DEF TotalsOK
<1> QED BY <1>3, <1>4, <1>5 DEF IInv

\* Every step keeps it.
LEMMA NextKeeps ==
  ASSUME IInv, [Next]_vars
  PROVE  IInv'
<1>1. ASSUME NEW r \in Attachments, NEW f \in Frames[r], Push(r, f)  PROVE IInv'
  <2>1. CASE call' = call
    <3>1. /\ fate[r] = "open" /\ Drop(r, "overflow") /\ UNCHANGED call
          /\ pushes' = [pushes EXCEPT ![r] = @ + 1]
          /\ UNCHANGED <<counters, shim>>
      BY <1>1, <2>1 DEF Push, Idle
    <3>2. UNCHANGED <<counters, call, consumer, owed>> /\ back' = back
      BY <3>1 DEF shim
    <3> QED BY <3>1, <3>2, DropKeeps
  <2>2. CASE call' # call
    BY <1>1, <2>2, QueuedKeeps
  <2> QED BY <2>1, <2>2
<1>2. ASSUME Evict  PROVE IInv'
  <2>1. PICK v \in Victims(Scope) : Drop(v, "overflow")
    BY <1>2 DEF Evict
  <2>2. v \in Attachments /\ fate[v] = "open"
    BY <2>1 DEF Victims, Scope
  <2>3. UNCHANGED <<counters, call, consumer, owed>> /\ back' = back /\ pushes' = pushes
    BY <1>2 DEF Evict, shim
  <2> QED BY <2>1, <2>2, <2>3, DropKeeps
<1>3. ASSUME NEW r \in Attachments, RelayClose(r)  PROVE IInv'
  <2>1. /\ fate[r] = "open" /\ Drop(r, "closed")
        /\ UNCHANGED <<counters, call, consumer, owed>> /\ back' = back /\ pushes' = pushes
    BY <1>3 DEF RelayClose, shim
  <2> QED BY <2>1, DropKeeps
<1>4. ASSUME UNCHANGED vars  PROVE IInv'
  <2>1. TypeOK'
    BY <1>4 DEF IInv, TypeOK, vars
  <2>2. \A x \in Attachments : Attachment(x)'
    <3>1. ASSUME NEW x \in Attachments  PROVE Attachment(x)'
      <4>1. Attachment(x)
        BY DEF IInv
      <4> QED BY <1>4, <4>1 DEF Attachment, vars
    <3> QED BY <3>1
  <2>3. TotalsOK(queue', queuedBytes', pending', pendingBytes', fate', call')
    BY <1>4 DEF IInv, vars
  <2> QED BY <2>1, <2>2, <2>3 DEF IInv
<1> QED BY <1>1, <1>2, <1>3, <1>4, EnforcedKeeps, FlushStepKeeps, FlushEndKeeps, TakeKeeps, ReturnKeeps,
           ConsumerCloseKeeps, FromConsumerKeeps DEF Next

\* The invariant of the receive queue: the books of every attachment, its order and
\* its flow of credit, and the shared budgets, hold in every state.
THEOREM QueueInOrder == Spec => []IInv
<1>1. Init => IInv
  BY InitKeeps
<1>2. IInv /\ [Next]_vars => IInv'
  BY NextKeeps
<1> QED BY <1>1, <1>2, PTL DEF Spec

\* Credit is conserved (bridge-receive-queue.js grant, app-shim.js returnCredit): the
\* counters agree with queue and ledger, and what the launcher counts as outstanding
\* is on the wire, with the consumer or on its way back; so no honest consumer is
\* closed for invalid credit.
THEOREM CreditAlwaysConserved == Spec => []CreditConserved
<1>1. IInv => CreditConserved
  <2>1. SUFFICES ASSUME IInv, NEW r \in Attachments
        PROVE
          /\ fate[r] # "badcredit"
          /\ queuedBytes[r] = SumFunction([i \in DOMAIN queue[r] |-> Item(r, i).size])
          /\ pendingBytes[r] = PrefixBytes(pending[r], Len(pending[r]))
          /\ Open(r) /\ consumer[r] = "open" =>
               /\ Len(pending[r]) = Cardinality(InFlight(r)) + owed[r].frames
                    + SumFunction([i \in DOMAIN back[r] |-> back[r][i].frames])
               /\ pendingBytes[r] = SumFunction([i \in InFlight(r) |-> wire[r][i].size]) + owed[r].bytes
                    + SumFunction([i \in DOMAIN back[r] |-> back[r][i].bytes])
    BY DEF CreditConserved
  <2>2. Good(queue[r], queuedBytes[r], pushes[r], lastOut[r], pending[r], pendingBytes[r], fate[r],
             wire[r], consumer[r], owed[r], back[r])
    BY <2>1 DEF IInv, Attachment
  <2>3. fate[r] # "badcredit" /\ pendingBytes[r] = PrefixBytes(pending[r], Len(pending[r]))
    BY <2>2 DEF Good, LedgerOK
  <2>4. queuedBytes[r] = SumFunction([i \in DOMAIN queue[r] |-> Item(r, i).size])
    <3>1. queue[r] \in Seq(ItemType) /\ queuedBytes[r] = SumTo(QueueSizes(queue[r]), Len(queue[r]))
      BY <2>2 DEF Good, QueueOK
    <3>2. DOMAIN queue[r] = 1..Len(queue[r])
      BY <3>1, LenProperties
    <3> QED BY <3>1, <3>2 DEF SumFunction, SumTo, Sum, QueueSizes, Item
  <2>5. ASSUME Open(r), consumer[r] = "open"
        PROVE  /\ Len(pending[r]) = Cardinality(InFlight(r)) + owed[r].frames
                    + SumFunction([i \in DOMAIN back[r] |-> back[r][i].frames])
               /\ pendingBytes[r] = SumFunction([i \in InFlight(r) |-> wire[r][i].size]) + owed[r].bytes
                    + SumFunction([i \in DOMAIN back[r] |-> back[r][i].bytes])
    <3>1. /\ FlowTypes(pending[r], back[r], owed[r], wire[r])
          /\ FlowOK(pending[r], back[r], owed[r], wire[r], "open")
      BY <2>2, <2>5 DEF Good, Open
    <3>2. AddsUp(pending[r], back[r], owed[r], wire[r])
      BY <3>1, FlowAddsUp
    <3> QED BY <2>3, <3>2 DEF InFlight, AddsUp
  <2> QED BY <2>3, <2>4, <2>5
<1> QED BY <1>1, QueueInOrder, PTL

\* Limits (bridge-receive-queue.js push and flush, enforceBudget of the endpoint and
\* of the tab): the window is exceeded by one frame that travels alone only, and
\* between calls every budget holds.
THEOREM BudgetsAlwaysHold == Spec => []BudgetsHold
<1>1. IInv => BudgetsHold
  <2>1. SUFFICES ASSUME IInv  PROVE BudgetsHold
    OBVIOUS
  <2>2. ASSUME NEW r \in Attachments
        PROVE  /\ Len(pending[r]) <= CreditFrames
               /\ pendingBytes[r] <= CreditBytes \/ Len(pending[r]) = 1
               /\ Len(queue[r]) <= QueueFrames /\ queuedBytes[r] <= QueueBytes
    BY <2>1 DEF IInv, Attachment, Good, LedgerOK
  <2>3. ASSUME AtRest, NEW e \in Endpoints
        PROVE  LET S == {r \in Attachments : Open(r) /\ EndpointOf[r] = e} IN
                 TotalFrames(S) <= EndpointFrames /\ TotalBytes(S) <= EndpointBytes
    <3>1. call.at # "endpoint"
      BY <2>3 DEF AtRest, Idle
    <3>2. Within(OpenAt(fate, e), queue, queuedBytes, pending, pendingBytes, EndpointFrames, EndpointBytes)
      BY <2>1, <3>1 DEF IInv, TotalsOK
    <3>3. {r \in Attachments : Open(r) /\ EndpointOf[r] = e} = OpenAt(fate, e)
      BY DEF Open, OpenAt
    <3> QED BY <3>2, <3>3 DEF Within, TotalFrames, TotalBytes, HeldFrames, HeldBytes
  <2>4. ASSUME AtRest
        PROVE  LET S == {r \in Attachments : Open(r)} IN
                 TotalFrames(S) <= TabFrames /\ TotalBytes(S) <= TabBytes
    <3>1. call.at \notin {"endpoint", "tab"}
      BY <2>4 DEF AtRest, Idle
    <3>2. Within(OpenAll(fate), queue, queuedBytes, pending, pendingBytes, TabFrames, TabBytes)
      BY <2>1, <3>1 DEF IInv, TotalsOK
    <3>3. {r \in Attachments : Open(r)} = OpenAll(fate)
      BY DEF Open, OpenAll
    <3> QED BY <3>2, <3>3 DEF Within, TotalFrames, TotalBytes, HeldFrames, HeldBytes
  <2> QED BY <2>2, <2>3, <2>4 DEF BudgetsHold
<1> QED BY <1>1, QueueInOrder, PTL

\* Order (receiveCandidates): nothing queued is earlier than what its stream, or the
\* history, has already sent.
THEOREM LanesAlwaysInOrder == Spec => []LanesInOrder
<1>1. IInv => LanesInOrder
  <2>1. SUFFICES ASSUME IInv, NEW r \in Attachments, NEW i \in DOMAIN queue[r], NEW l \in LanesOf(Item(r, i))
                 PROVE  queue[r][i].n > lastOut[r][l]
    BY DEF LanesInOrder
  <2>2. QueueOK(queue[r], queuedBytes[r], pushes[r], lastOut[r])
    BY <2>1 DEF IInv, Attachment, Good
  <2>3. i \in 1..Len(queue[r])
    BY <2>2, LenProperties DEF QueueOK
  <2>4. lastOut[r][l] < queue[r][i].n
    BY <2>1, <2>2, <2>3 DEF QueueOK, Item
  <2> QED BY <2>4
<1> QED BY <1>1, QueueInOrder, PTL
=============================================================================
