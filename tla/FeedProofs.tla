----------------------------- MODULE FeedProofs -----------------------------
(***************************************************************************)
(* Proofs about Feed, for any prices, quantities, stamps and bounds, on    *)
(* every feed.                                                             *)
(*                                                                         *)
(* Order: the book shown only moves forward.  Nothing older than what is   *)
(* shown is ever on its way: frames are in the order of the versions they  *)
(* were made from, a connection that ends takes its frames with it, and a  *)
(* REST window that ends takes the answer to its request.                  *)
(*                                                                         *)
(* Books: what the local book and the book shown hold.  Applied to the     *)
(* book it was made from, a delta gives the book it was made for, and the  *)
(* chain, or a stream that lost nothing, sees to it that it meets that     *)
(* book.                                                                   *)
(*                                                                         *)
(* Tape: what the trades table holds.  A row tells the truth about a       *)
(* trade, no id is there twice, and no trade handed on is missing.         *)
(***************************************************************************)
EXTENDS Feed, OrderLemmas, SequenceTheorems, TLAPS

IsSequence(s) == s \in Seq(Range(s))

\* Frames in flight are in order, and none is older than the book shown.
WireInOrder ==
    /\ IsSequence(wire)
    /\ \A i \in 1 .. Len(wire) : wire[i].version \in shown.at .. Version
    /\ \A i, j \in 1 .. Len(wire) : i <= j => wire[i].version <= wire[j].version

\* Only the transport in use has something on its way.
OneOnTheWay ==
    /\ link # "ws" => wire = <<>>
    /\ link # "rest" => answer = NoAnswer

ViewInv ==
    /\ IsSequence(truth) /\ Len(truth) \in Nat \ {0}
    /\ shown.at \in 0 .. Version
    /\ WireInOrder
    /\ OneOnTheWay
    /\ answer.of = "book" => answer.at \in shown.at .. Version

-----------------------------------------------------------------------------
\* A sequence and one more.
LEMMA AppendOne ==
    ASSUME NEW s, IsSequence(s), NEW e
    PROVE  /\ IsSequence(Append(s, e)) /\ Len(s) \in Nat
           /\ Len(Append(s, e)) = Len(s) + 1
           /\ \A i \in 1 .. Len(s) : Append(s, e)[i] = s[i]
           /\ Append(s, e)[Len(s) + 1] = e
<1> DEFINE S == Range(s) \cup {e}
<1>1. s \in Seq(S) /\ e \in S
  BY SeqMonotonic DEF IsSequence
<1> HIDE DEF S
<1>2. /\ Append(s, e) \in Seq(S) /\ Len(s) \in Nat
      /\ Len(Append(s, e)) = Len(s) + 1
      /\ \A i \in 1 .. Len(s) : Append(s, e)[i] = s[i]
      /\ Append(s, e)[Len(s) + 1] = e
  BY <1>1, AppendProperties, LenProperties
<1> QED
  BY <1>2, SeqOfRange DEF IsSequence

\* A sequence without its head.
LEMMA TakeOne ==
    ASSUME NEW s, IsSequence(s), s # <<>>
    PROVE  /\ IsSequence(Tail(s)) /\ Len(s) \in Nat \ {0} /\ Head(s) = s[1]
           /\ Len(Tail(s)) = Len(s) - 1
           /\ \A i \in 1 .. Len(Tail(s)) : Tail(s)[i] = s[i + 1]
<1> DEFINE S == Range(s)
<1>1. s \in Seq(S)
  BY DEF IsSequence
<1> HIDE DEF S
<1>2. /\ Tail(s) \in Seq(S) /\ Len(s) \in Nat \ {0} /\ Head(s) = s[1]
      /\ Len(Tail(s)) = Len(s) - 1
      /\ \A i \in 1 .. Len(Tail(s)) : Tail(s)[i] = s[i + 1]
  BY <1>1, HeadTailProperties, EmptySeq, LenProperties
<1> QED
  BY <1>2, SeqOfRange DEF IsSequence

\* The empty sequence.
LEMMA EmptyIsSequence == IsSequence(<<>>) /\ Len(<<>>) = 0
  BY EmptySeq, SeqOfRange DEF IsSequence

-----------------------------------------------------------------------------
\* A frame that leaves the exchange is of the present version, and so the last.
LEMMA WireGrows ==
    ASSUME ViewInv, NEW frame, frame.version = Version, wire' = Append(wire, frame),
           UNCHANGED <<truth, shown>>
    PROVE  WireInOrder'
<1>1. /\ IsSequence(wire') /\ Len(wire) \in Nat /\ Len(wire') = Len(wire) + 1
      /\ \A i \in 1 .. Len(wire) : wire'[i] = wire[i]
      /\ wire'[Len(wire) + 1] = frame
  BY AppendOne DEF ViewInv, WireInOrder
<1>2. /\ Version \in Nat /\ shown.at \in 0 .. Version /\ Version' = Version
      /\ \A i \in 1 .. Len(wire) : wire[i].version \in shown.at .. Version
      /\ \A i, j \in 1 .. Len(wire) : i <= j => wire[i].version <= wire[j].version
  BY DEF ViewInv, WireInOrder, Version
<1>3. ASSUME NEW i \in 1 .. Len(wire') PROVE wire'[i].version \in shown'.at .. Version'
  <2>1. CASE i = Len(wire) + 1
    BY <2>1, <1>1, <1>2
  <2>2. CASE i \in 1 .. Len(wire)
    BY <2>2, <1>1, <1>2
  <2> QED
    BY <1>1, <2>1, <2>2
<1>4. ASSUME NEW i \in 1 .. Len(wire'), NEW j \in 1 .. Len(wire'), i <= j
      PROVE  wire'[i].version <= wire'[j].version
  <2>1. CASE j = Len(wire) + 1
    BY <2>1, <1>1, <1>2, <1>3
  <2>2. CASE j \in 1 .. Len(wire)
    <3>1. i \in 1 .. Len(wire) /\ wire'[i] = wire[i] /\ wire'[j] = wire[j]
      BY <2>2, <1>1, <1>4
    <3> QED
      BY <3>1, <2>2, <1>2, <1>4
  <2> QED
    BY <1>1, <2>1, <2>2
<1> QED
  BY <1>1, <1>3, <1>4 DEF WireInOrder

\* A book frame leaves the exchange, or is lost.
LEMMA SendKeepsInv ==
    ASSUME ViewInv, NEW frame, frame.version = Version, Send(frame)
    PROVE  ViewInv'
<1>1. CASE wire' = wire
  BY <1>1 DEF Send, ViewInv, WireInOrder, OneOnTheWay, exchange, poll, book, Version
<1>2. CASE wire' = Append(wire, frame)
  <2>1. WireInOrder'
    BY <1>2, WireGrows DEF Send, exchange, book
  <2> QED
    BY <2>1 DEF Send, ViewInv, OneOnTheWay, exchange, poll, book, Version
<1> QED
  BY <1>1, <1>2 DEF Send

\* The book is replaced by one of a version that is on its way at the earliest.
LEMMA ApplyMoves ==
    ASSUME NEW upd, NEW version, NEW sure, NEW blank, Apply(upd, version, sure, blank)
    PROVE  shown'.at = version
  BY DEF Apply

\* A frame is taken off the wire; the book stays, or is made from that frame.
LEMMA TakeKeepsInv ==
    ASSUME ViewInv, link = "ws", wire # <<>>, wire' = Tail(wire),
           shown'.at \in {shown.at, Head(wire).version},
           UNCHANGED <<exchange, link, poll>>
    PROVE  ViewInv' /\ shown'.at \in shown.at .. Version
<1>1. /\ IsSequence(wire') /\ Len(wire) \in Nat \ {0} /\ Head(wire) = wire[1]
      /\ Len(wire') = Len(wire) - 1
      /\ \A i \in 1 .. Len(wire') : wire'[i] = wire[i + 1]
  BY TakeOne DEF ViewInv, WireInOrder
<1>2. wire[1].version \in shown.at .. Version
  BY <1>1 DEF ViewInv, WireInOrder
<1>3. shown'.at \in shown.at .. Version
  BY <1>1, <1>2 DEF ViewInv
<1>4. WireInOrder'
  <2>1. ASSUME NEW i \in 1 .. Len(wire') PROVE wire'[i].version \in shown'.at .. Version'
    BY <2>1, <1>1, <1>2 DEF ViewInv, WireInOrder, exchange, Version
  <2> QED
    BY <2>1, <1>1 DEF ViewInv, WireInOrder, exchange, Version
<1> QED
  BY <1>3, <1>4 DEF ViewInv, OneOnTheWay, exchange, poll, Version, NoAnswer

\* The connection ends, and with it the frames in flight.
LEMMA DownKeepsInv == ViewInv /\ link = "ws" /\ Down => ViewInv'
  BY EmptyIsSequence DEF ViewInv, WireInOrder, OneOnTheWay, Down, exchange, poll, Version

-----------------------------------------------------------------------------
\* The exchange's steps.
LEMMA ExchangeKeepsInv ==
    ASSUME ViewInv, \/ \E b \in Books : Quote(b)
                    \/ \E stamp \in Stamps, taker \in {"buy", "sell"} : Match(stamp, taker)
                    \/ PushSnapshot \/ PushDelta \/ PushTop \/ PushTrades
    PROVE  ViewInv'
<1>1. ASSUME NEW b \in Books, Quote(b) PROVE ViewInv'
  <2>1. IsSequence(truth') /\ Len(truth) \in Nat /\ Len(truth') = Len(truth) + 1
    BY <1>1, AppendOne DEF Quote, ViewInv
  <2>2. WireInOrder'
    BY <1>1, <2>1 DEF Quote, ViewInv, WireInOrder, channel, book, Version
  <2> QED
    BY <1>1, <2>1, <2>2 DEF Quote, ViewInv, OneOnTheWay, channel, poll, book, Version
<1>2. ASSUME NEW stamp \in Stamps, NEW taker \in {"buy", "sell"}, Match(stamp, taker)
      PROVE  ViewInv'
  BY <1>2 DEF Match, ViewInv, WireInOrder, OneOnTheWay, channel, poll, book, Version
<1>3. ASSUME NEW kind, NEW levels, NEW prev
      PROVE  Frame(kind, levels, prev).version = Version
  BY DEF Frame
<1>4. CASE PushSnapshot
  BY <1>4, <1>3, SendKeepsInv DEF PushSnapshot
<1>5. CASE PushDelta
  BY <1>5, <1>3, SendKeepsInv DEF PushDelta
<1>6. CASE PushTop
  BY <1>6, <1>3, SendKeepsInv DEF PushTop
<1>7. CASE PushTrades
  <2> DEFINE frame == [Frame("trades", <<>>, NoSeq) EXCEPT !.fills = Fills(told)]
  <2>1. frame.version = Version
    BY DEF Frame
  <2> HIDE DEF frame
  <2>2. wire' = Append(wire, frame)
    BY <1>7 DEF PushTrades, frame
  <2>3. WireInOrder'
    BY <1>7, <2>1, <2>2, WireGrows DEF PushTrades, exchange, book
  <2> QED
    BY <1>7, <2>3 DEF PushTrades, ViewInv, OneOnTheWay, exchange, poll, book, Version
<1> QED
  BY <1>1, <1>2, <1>4, <1>5, <1>6, <1>7

\* The scraper's steps: nothing older than what is shown is shown.
LEMMA ScraperKeepsInv ==
    ASSUME ViewInv, \/ Connect \/ Drop
                    \/ HandleUpdate \/ HandleGap \/ HandleNothing \/ HandleTrades
                    \/ StartRest \/ Answer \/ PollBook \/ PollBlank \/ PollTrades \/ PollFails
                    \/ StopRest
    PROVE  ViewInv' /\ shown'.at \in shown.at .. Version /\ truth' = truth
<1>s. shown.at \in shown.at .. Version
  BY DEF ViewInv, Version
<1>1. CASE Connect
  BY <1>1, <1>s, EmptyIsSequence
     DEF Connect, ViewInv, WireInOrder, OneOnTheWay, exchange, poll, Version, NoAnswer
<1>2. CASE Drop
  BY <1>2, <1>s, DownKeepsInv DEF Drop, Down, exchange
<1>3. CASE HandleUpdate
  <2>1. shown'.at = Head(wire).version
    BY <1>3, ApplyMoves DEF HandleUpdate, Arriving
  <2> QED
    BY <1>3, <2>1, TakeKeepsInv DEF HandleUpdate, TakeFrame, exchange, poll
<1>4. CASE HandleGap
  BY <1>4, <1>s, DownKeepsInv DEF HandleGap, TakeFrame, Down, exchange
<1>5. CASE HandleNothing
  BY <1>5, <1>s, TakeKeepsInv DEF HandleNothing, TakeFrame, exchange, poll, book
<1>6. CASE HandleTrades
  BY <1>6, <1>s, TakeKeepsInv DEF HandleTrades, TakeFrame, exchange, poll, book
<1>7. CASE StartRest
  BY <1>7, <1>s
     DEF StartRest, ViewInv, WireInOrder, OneOnTheWay, exchange, poll, book, Version
<1>8. CASE Answer
  BY <1>8, <1>s
     DEF Answer, ViewInv, WireInOrder, OneOnTheWay, exchange, channel, book, Version
<1>9. CASE PollBook
  <2>1. shown'.at = answer.at /\ answer.at \in shown.at .. Version
    BY <1>9, ApplyMoves DEF PollBook, ViewInv
  <2>2. link = "rest" /\ wire = <<>>
    BY <1>9 DEF PollBook, ViewInv, OneOnTheWay, NoAnswer
  <2> QED
    BY <1>9, <2>1, <2>2, EmptyIsSequence
       DEF PollBook, ViewInv, WireInOrder, OneOnTheWay, exchange, channel, Version, NoAnswer
<1>10. CASE PollTrades
  BY <1>10, <1>s
     DEF PollTrades, ViewInv, WireInOrder, OneOnTheWay, exchange, channel, book, Version, NoAnswer
<1>11. CASE PollFails
  BY <1>11, <1>s
     DEF PollFails, ViewInv, WireInOrder, OneOnTheWay, exchange, channel, book, Version, NoAnswer
<1>12. CASE StopRest
  BY <1>12, <1>s
     DEF StopRest, ViewInv, WireInOrder, OneOnTheWay, exchange, book, Version, NoAnswer
<1>13. CASE PollBlank
  <2>1. shown'.at = shown.at
    BY <1>13, ApplyMoves DEF PollBlank, book
  <2> QED
    BY <1>13, <1>s, <2>1
       DEF PollBlank, ViewInv, WireInOrder, OneOnTheWay, exchange, channel, Version, NoAnswer
<1> QED
  BY <1>1, <1>2, <1>3, <1>4, <1>5, <1>6, <1>7, <1>8, <1>9, <1>10, <1>11, <1>12, <1>13

-----------------------------------------------------------------------------
\* Nothing is on its way at the start.
LEMMA ViewInvStarts == Init => ViewInv
<1> SUFFICES ASSUME Init PROVE ViewInv
  OBVIOUS
<1>1. truth \in Seq({FirstBook}) /\ Len(truth) = 1
  BY DEF Init
<1>2. IsSequence(truth) /\ Len(truth) = 1
  BY <1>1, SeqOfRange DEF IsSequence
<1> QED
  BY <1>2, EmptyIsSequence
     DEF Init, ViewInv, WireInOrder, OneOnTheWay, NoBook, NoAnswer, Version

\* Nothing older than the book shown is on its way, at any time.
THEOREM ViewInvHolds == Spec => []ViewInv
<1>1. Init => ViewInv
  BY ViewInvStarts
<1>2. ViewInv /\ [Next]_vars => ViewInv'
  <2>1. ViewInv /\ UNCHANGED vars => ViewInv'
    BY DEF ViewInv, WireInOrder, OneOnTheWay, vars, exchange, channel, poll, book, Version
  <2> QED
    BY <2>1, ExchangeKeepsInv, ScraperKeepsInv DEF Next
<1> QED
  BY <1>1, <1>2, PTL DEF Spec

\* A reader of the dataset sees books of moments the exchange has been through, and
\* never goes back in time, over every adapter, both transports and their changes.
THEOREM BooksOnlyMoveForward == Spec => ImplementsView
<1>1. Init => View!Init
  BY DEF Init, View!Init, NoBook, Version
<1>2. ViewInv /\ [Next]_vars => [View!Next]_View!view
  <2> SUFFICES ASSUME ViewInv, [Next]_vars PROVE [View!Next]_View!view
    OBVIOUS
  <2>1. CASE \E b \in Books : Quote(b)
    <3>1. Len(truth') = Len(truth) + 1 /\ shown' = shown
      BY <2>1, AppendOne DEF Quote, ViewInv, book
    <3> QED
      BY <3>1 DEF View!Next, View!Quote, Version
  <2>2. CASE \/ \E stamp \in Stamps, taker \in {"buy", "sell"} : Match(stamp, taker)
             \/ PushSnapshot \/ PushDelta \/ PushTop \/ PushTrades
             \/ UNCHANGED vars
    BY <2>2 DEF Match, PushSnapshot, PushDelta, PushTop, PushTrades, Send, vars, exchange,
                book, View!view, Version
  <2>3. CASE \/ Connect \/ Drop
             \/ HandleUpdate \/ HandleGap \/ HandleNothing \/ HandleTrades
             \/ StartRest \/ Answer \/ PollBook \/ PollBlank \/ PollTrades \/ PollFails
             \/ StopRest
    BY <2>3, ScraperKeepsInv DEF View!Next, View!Show, Version
  <2> QED
    BY <2>1, <2>2, <2>3 DEF Next
<1> QED
  BY <1>1, <1>2, ViewInvHolds, PTL DEF Spec, ImplementsView, View!Spec

-----------------------------------------------------------------------------
(* Books and listings *)

\* A book: finitely many prices, each with a quantity.
IsBook(b) ==
    /\ b = [p \in DOMAIN b |-> b[p]]
    /\ DOMAIN b \in SUBSET Nat /\ IsFiniteSet(DOMAIN b)

\* Levels in the order of their prices, no price twice.
Strict(L) ==
    /\ IsSequence(L)
    /\ \A i \in 1 .. Len(L) : L[i] = <<L[i][1], L[i][2]>> /\ L[i][1] \in Nat
    /\ \A i, j \in 1 .. Len(L) : i < j => L[i][1] < L[j][1]

\* The levels are those of the book, in whatever order.
Describes(L, b) ==
    /\ \A i \in DOMAIN L : L[i][1] \in DOMAIN b /\ L[i][2] = b[L[i][1]]
    /\ \A p \in DOMAIN b : \E i \in DOMAIN L : L[i][1] = p

LEMMA SequenceDomain ==
    ASSUME NEW s, IsSequence(s)
    PROVE  Len(s) \in Nat /\ DOMAIN s = 1 .. Len(s) /\ s = [i \in 1 .. Len(s) |-> s[i]]
  BY LenProperties DEF IsSequence

\* A function on 1 .. n is a sequence of length n.
LEMMA FunctionIsSequence ==
    ASSUME NEW n \in Nat, NEW s, s = [i \in 1 .. n |-> s[i]]
    PROVE  IsSequence(s) /\ Len(s) = n /\ DOMAIN s = 1 .. n
<1>1. DOMAIN s = 1 .. n
  OBVIOUS
<1>2. s \in [1 .. n -> Range(s)]
  BY <1>1 DEF Range
<1>3. s \in Seq(Range(s))
  BY <1>2, SeqDef
<1>4. DOMAIN s = 1 .. Len(s) /\ Len(s) \in Nat
  BY <1>3, LenProperties
<1>5. Len(s) = n
  BY <1>1, <1>4
<1> QED
  BY <1>1, <1>3, <1>5 DEF IsSequence

\* Two sequences of one length with the same elements are one.
LEMMA SameElements ==
    ASSUME NEW s, IsSequence(s), NEW t, IsSequence(t), Len(s) = Len(t),
           \A i \in 1 .. Len(s) : s[i] = t[i]
    PROVE  s = t
<1>1. s = [i \in 1 .. Len(s) |-> s[i]] /\ t = [i \in 1 .. Len(s) |-> t[i]]
  BY SequenceDomain, Zenon
<1>2. [i \in 1 .. Len(s) |-> s[i]] = [i \in 1 .. Len(s) |-> t[i]]
  OBVIOUS
<1> QED
  BY <1>1, <1>2, Zenon

\* The book that levels describe is the one BookOf makes of them.
LEMMA BookOfDescribed ==
    ASSUME NEW L, NEW b, b = [p \in DOMAIN b |-> b[p]], Describes(L, b)
    PROVE  BookOf(L) = b
<1>1. {L[i][1] : i \in DOMAIN L} = DOMAIN b
  BY Zenon DEF Describes
<1>2. ASSUME NEW p \in DOMAIN b
      PROVE  L[CHOOSE i \in DOMAIN L : L[i][1] = p][2] = b[p]
  <2>1. \E i \in DOMAIN L : L[i][1] = p
    BY Zenon DEF Describes
  <2> QED
    BY <2>1, Zenon DEF Describes
<1> QED
  BY <1>1, <1>2, Zenon DEF BookOf

\* Listing names every price of the book once, best first.
LEMMA ListingOfBook ==
    ASSUME NEW b, IsBook(b)
    PROVE  /\ Strict(Listing(b)) /\ Describes(Listing(b), b)
           /\ Len(Listing(b)) = Cardinality(DOMAIN b)
<1> DEFINE S == DOMAIN b
           n == Cardinality(S)
           Nth(i) == CHOOSE p \in S : Cardinality({q \in S : q < p}) = i - 1
           L == Listing(b)
<1>1. /\ n \in Nat
      /\ \A p \in S : Cardinality(Below(S, p)) \in 0 .. n - 1
      /\ \A p, q \in S : p < q => Cardinality(Below(S, p)) < Cardinality(Below(S, q))
      /\ \A i \in 0 .. n - 1 : \E p \in S : Cardinality(Below(S, p)) = i
  BY Ranks DEF IsBook
<1>2. ASSUME NEW i \in 1 .. n PROVE Nth(i) \in S /\ Cardinality(Below(S, Nth(i))) = i - 1
  <2>1. i - 1 \in 0 .. n - 1
    BY <1>1
  <2>2. \E p \in S : Cardinality({q \in S : q < p}) = i - 1
    BY <1>1, <2>1 DEF Below
  <2> QED
    BY <2>2, Zenon DEF Below
<1>3. L = [i \in 1 .. n |-> <<Nth(i), b[Nth(i)]>>]
  BY DEF Listing
<1>4. /\ IsSequence(L) /\ Len(L) = n /\ DOMAIN L = 1 .. n
      /\ \A i \in 1 .. n : L[i] = <<Nth(i), b[Nth(i)]>>
  <2>1. \A i \in 1 .. n : L[i] = <<Nth(i), b[Nth(i)]>>
    BY <1>3, Zenon
  <2>2. L = [i \in 1 .. n |-> L[i]]
    BY <1>3, <2>1, Zenon
  <2> HIDE DEF L
  <2> QED
    BY <1>1, <2>1, <2>2, FunctionIsSequence
<1> HIDE DEF L, Nth
<1>5. ASSUME NEW i \in 1 .. n, NEW j \in 1 .. n, i < j PROVE Nth(i) < Nth(j)
  <2>1. Nth(i) \in Nat /\ Nth(j) \in Nat
    BY <1>2 DEF IsBook
  <2>2. Cardinality(Below(S, Nth(i))) < Cardinality(Below(S, Nth(j)))
    BY <1>2, <1>5
  <2>3. CASE Nth(j) < Nth(i)
    <3>1. Cardinality(Below(S, Nth(j))) < Cardinality(Below(S, Nth(i)))
      BY <1>1, <1>2, <2>3
    <3> QED
      BY <1>2, <2>2, <3>1
  <2>4. CASE Nth(j) = Nth(i)
    BY <1>2, <2>4, <1>5
  <2> QED
    BY <2>1, <2>3, <2>4
<1>6. Strict(L)
  BY <1>2, <1>4, <1>5 DEF Strict, IsBook
<1>7. ASSUME NEW p \in S PROVE \E i \in 1 .. n : L[i][1] = p
  <2> DEFINE i == Cardinality(Below(S, p)) + 1
  <2>1. i \in 1 .. n /\ Cardinality(Below(S, p)) = i - 1
    BY <1>1
  <2>2. Nth(i) \in S /\ Cardinality(Below(S, Nth(i))) = Cardinality(Below(S, p))
    BY <1>2, <2>1
  <2>3. ~(p < Nth(i)) /\ ~(Nth(i) < p)
    <3>1. Cardinality(Below(S, p)) \in Int
      BY <1>1
    <3> QED
      BY <1>1, <2>2, <3>1
  <2>4. Nth(i) = p
    BY <2>2, <2>3 DEF IsBook
  <2> QED
    BY <1>4, <2>1, <2>4
<1>8. Describes(L, b)
  BY <1>2, <1>4, <1>7 DEF Describes
<1> QED
  BY <1>4, <1>6, <1>8 DEF L

\* The price at position i of ordered levels has i - 1 prices below it.
LEMMA RankOfLevel ==
    ASSUME NEW L, Strict(L), NEW b, Describes(L, b), NEW i \in 1 .. Len(L)
    PROVE  Cardinality(Below(DOMAIN b, L[i][1])) = i - 1
<1>1. /\ Len(L) \in Nat /\ DOMAIN L = 1 .. Len(L)
      /\ \A j \in 1 .. Len(L) : L[j][1] \in Nat
      /\ \A j, k \in 1 .. Len(L) : j < k => L[j][1] < L[k][1]
  BY SequenceDomain DEF Strict
<1> DEFINE f == [j \in 1 .. Len(L) |-> L[j][1]]
<1> DEFINE T == Below(DOMAIN b, L[i][1])
<1>2. /\ \A j \in 1 .. i - 1 : f[j] \in T
      /\ \A t \in T : \E j \in 1 .. i - 1 : f[j] = t
  <2>1. ASSUME NEW j \in 1 .. Len(L) PROVE L[j][1] < L[i][1] <=> j \in 1 .. i - 1
    <3>1. j < i \/ j = i \/ i < j
      BY <1>1
    <3> QED
      BY <1>1, <3>1
  <2>2. \A j \in 1 .. i - 1 : j \in 1 .. Len(L) /\ f[j] = L[j][1]
    BY <1>1
  <2>3. \A t \in T : \E j \in 1 .. Len(L) : L[j][1] = t /\ t < L[i][1]
    BY <1>1, Zenon DEF Below, Describes
  <2>4. \A j \in 1 .. i - 1 : f[j] \in T
    BY <1>1, <2>1, <2>2, Zenon DEF Below, Describes
  <2> QED
    BY <2>1, <2>2, <2>3, <2>4, Zenon
<1>3. ASSUME NEW j \in 1 .. i - 1, NEW k \in 1 .. i - 1, f[j] = f[k] PROVE j = k
  <2>1. /\ j \in 1 .. Len(L) /\ k \in 1 .. Len(L) /\ L[j][1] = L[k][1] /\ L[j][1] \in Nat
    BY <1>1, <1>3
  <2>2. ~(j < k) /\ ~(k < j)
    BY <1>1, <2>1
  <2> QED
    BY <2>2
<1> HIDE DEF f
<1>4. i - 1 \in Nat
  BY <1>1
<1> HIDE DEF T
<1>5. Cardinality(T) = i - 1
  BY <1>2, <1>3, <1>4, DistinctValues
<1> QED
  BY <1>5 DEF T

\* Ordered levels make a book of as many prices.
LEMMA BookOfStrict ==
    ASSUME NEW L, Strict(L)
    PROVE  /\ IsBook(BookOf(L)) /\ Describes(L, BookOf(L))
           /\ DOMAIN BookOf(L) = {L[i][1] : i \in DOMAIN L}
           /\ Cardinality(DOMAIN BookOf(L)) = Len(L)
<1>1. /\ Len(L) \in Nat /\ DOMAIN L = 1 .. Len(L)
      /\ \A i \in 1 .. Len(L) : L[i][1] \in Nat
  BY SequenceDomain DEF Strict
<1>2. ASSUME NEW i \in 1 .. Len(L), NEW j \in 1 .. Len(L), L[i][1] = L[j][1] PROVE i = j
  <2>1. ~(i < j) /\ ~(j < i)
    BY <1>1, <1>2 DEF Strict
  <2> QED
    BY <2>1
<1> DEFINE b == BookOf(L)
           f == [i \in 1 .. Len(L) |-> L[i][1]]
<1>3. /\ b = [p \in DOMAIN b |-> b[p]]
      /\ DOMAIN b = {L[i][1] : i \in DOMAIN L}
      /\ \A p \in DOMAIN b : b[p] = L[CHOOSE i \in DOMAIN L : L[i][1] = p][2]
  BY DEF BookOf
<1>4. /\ \A i \in 1 .. Len(L) : f[i] \in DOMAIN b
      /\ \A p \in DOMAIN b : \E i \in 1 .. Len(L) : f[i] = p
  BY <1>1, <1>3
<1>5. IsFiniteSet(DOMAIN b) /\ Cardinality(DOMAIN b) = Len(L)
  <2>1. \A i, j \in 1 .. Len(L) : f[i] = f[j] => i = j
    BY <1>2
  <2> HIDE DEF f, b
  <2> QED
    BY <1>1, <1>4, <2>1, DistinctValues
<1> HIDE DEF b, f
<1>6. DOMAIN b \in SUBSET Nat
  BY <1>1, <1>3
<1>7. ASSUME NEW i \in DOMAIN L PROVE L[i][1] \in DOMAIN b /\ L[i][2] = b[L[i][1]]
  <2>1. L[i][1] \in DOMAIN b
    BY <1>3
  <2>2. (CHOOSE j \in DOMAIN L : L[j][1] = L[i][1]) = i
    BY <1>1, <1>2, Zenon
  <2> QED
    BY <1>3, <2>1, <2>2
<1>8. Describes(L, b)
  BY <1>3, <1>7, Zenon DEF Describes
<1> QED
  BY <1>3, <1>5, <1>6, <1>8 DEF IsBook, b

\* There is one way to list a book in order.
LEMMA ListingOfStrict ==
    ASSUME NEW L, Strict(L)
    PROVE  Listing(BookOf(L)) = L
<1> DEFINE b == BookOf(L)
           M == Listing(b)
<1>1. IsBook(b) /\ Describes(L, b) /\ Cardinality(DOMAIN b) = Len(L)
  BY BookOfStrict
<1> HIDE DEF b
<1>2. Strict(M) /\ Describes(M, b) /\ Len(M) = Len(L)
  BY <1>1, ListingOfBook
<1> HIDE DEF M
<1>3. /\ Len(L) \in Nat /\ DOMAIN L = 1 .. Len(L) /\ DOMAIN M = 1 .. Len(L)
  BY <1>2, SequenceDomain DEF Strict
<1>4. ASSUME NEW i \in 1 .. Len(L) PROVE M[i] = L[i]
  <2>1. /\ M[i][1] \in DOMAIN b /\ M[i][2] = b[M[i][1]]
        /\ L[i][1] \in DOMAIN b /\ L[i][2] = b[L[i][1]]
    BY <1>1, <1>2, <1>3 DEF Describes
  <2>2. Cardinality(Below(DOMAIN b, M[i][1])) = Cardinality(Below(DOMAIN b, L[i][1]))
    BY <1>1, <1>2, RankOfLevel
  <2>3. M[i][1] = L[i][1]
    <3>1. /\ DOMAIN b \in SUBSET Nat /\ IsFiniteSet(DOMAIN b)
      BY <1>1 DEF IsBook
    <3>2. /\ Cardinality(Below(DOMAIN b, M[i][1])) \in Int
          /\ M[i][1] < L[i][1]
               => Cardinality(Below(DOMAIN b, M[i][1])) < Cardinality(Below(DOMAIN b, L[i][1]))
          /\ L[i][1] < M[i][1]
               => Cardinality(Below(DOMAIN b, L[i][1])) < Cardinality(Below(DOMAIN b, M[i][1]))
      <4>1. Cardinality(Below(DOMAIN b, M[i][1])) \in 0 .. Cardinality(DOMAIN b) - 1
        BY <2>1, <3>1, Ranks
      <4> QED
        BY <2>1, <3>1, <4>1, Ranks
    <3>3. M[i][1] \in Nat /\ L[i][1] \in Nat
      BY <2>1, <3>1
    <3> QED
      BY <2>2, <3>2, <3>3
  <2>4. M[i][2] = L[i][2]
    BY <2>1, <2>3
  <2>5. M[i] = <<M[i][1], M[i][2]>> /\ L[i] = <<L[i][1], L[i][2]>>
    BY <1>2, <1>3, Zenon DEF Strict
  <2> QED
    BY <2>3, <2>4, <2>5, Zenon
<1> QED
  BY <1>2, <1>4, SameElements DEF Strict, M, b

\* The first levels of a listing, no more than Depth.
LEMMA CutOf ==
    ASSUME NEW L, IsSequence(L)
    PROVE  /\ IsSequence(Cut(L))
           /\ Len(Cut(L)) = IF Len(L) < Depth THEN Len(L) ELSE Depth
           /\ Len(Cut(L)) <= Depth
           /\ \A i \in 1 .. Len(Cut(L)) : i \in 1 .. Len(L) /\ Cut(L)[i] = L[i]
<1> DEFINE m == IF Len(L) < Depth THEN Len(L) ELSE Depth
<1>1. Len(L) \in Nat /\ Depth \in Nat /\ m \in Nat /\ m <= Len(L) /\ m <= Depth
  BY SequenceDomain, DepthAssumption
<1>2. \A i \in 1 .. m : L[i] \in Range(L)
  BY <1>1, SequenceDomain DEF Range
<1> HIDE DEF m
<1>3. /\ SubSeq(L, 1, m) \in Seq(Range(L))
      /\ Len(SubSeq(L, 1, m)) = IF 1 <= m THEN m - 1 + 1 ELSE 0
      /\ \A i \in 1 .. m - 1 + 1 : SubSeq(L, 1, m)[i] = L[1 + i - 1]
  BY <1>1, <1>2, SubSeqProperties
<1>4. Cut(L) = SubSeq(L, 1, m)
  BY DEF Cut, m
<1>5. Len(Cut(L)) = m /\ \A i \in 1 .. m : Cut(L)[i] = L[i]
  BY <1>1, <1>3, <1>4
<1>6. IsSequence(Cut(L))
  BY <1>3, <1>4, SeqOfRange DEF IsSequence
<1> QED
  BY <1>1, <1>5, <1>6 DEF m

\* Cutting twice is cutting once.
LEMMA CutTwice ==
    ASSUME NEW L, IsSequence(L)
    PROVE  Cut(Cut(L)) = Cut(L)
<1>1. /\ IsSequence(Cut(L)) /\ IsSequence(Cut(Cut(L)))
      /\ Len(Cut(Cut(L))) = Len(Cut(L))
      /\ \A i \in 1 .. Len(Cut(L)) : Cut(Cut(L))[i] = Cut(L)[i]
  BY CutOf, SequenceDomain, DepthAssumption
<1> QED
  BY <1>1, SameElements

LEMMA CutIsStrict ==
    ASSUME NEW L, Strict(L)
    PROVE  Strict(Cut(L))
  BY CutOf DEF Strict

-----------------------------------------------------------------------------
(* Updates applied to books *)

\* No level of the listing is a removal.
NoneGone(b) == \A p \in DOMAIN b : b[p] # 0

\* A snapshot replaces what was there (IncrementalBook.apply).
LEMMA AppliedToEmpty ==
    ASSUME NEW L, NEW b, BookOf(L) = b, b = [p \in DOMAIN b |-> b[p]], NoneGone(b)
    PROVE  Applied(EmptyBook, L) = b
<1>1. DOMAIN EmptyBook = {}
  BY DEF EmptyBook
<1>2. {p \in DOMAIN b : b[p] = 0} = {}
  BY DEF NoneGone
<1>3. Applied(EmptyBook, L)
        = [p \in DOMAIN b |-> IF p \in DOMAIN b THEN b[p] ELSE EmptyBook[p]]
  <2>1. (DOMAIN EmptyBook \cup DOMAIN b) \ {p \in DOMAIN b : b[p] = 0} = DOMAIN b
    BY <1>1, <1>2
  <2> QED
    BY <2>1, Zenon DEF Applied
<1>4. [p \in DOMAIN b |-> IF p \in DOMAIN b THEN b[p] ELSE EmptyBook[p]]
        = [p \in DOMAIN b |-> b[p]]
  OBVIOUS
<1> QED
  BY <1>3, <1>4, Zenon

\* A snapshot of the whole book gives the book.
LEMMA SnapshotApplied ==
    ASSUME NEW b, IsBook(b), NoneGone(b)
    PROVE  Applied(EmptyBook, Listing(b)) = b
<1>1. BookOf(Listing(b)) = b
  BY ListingOfBook, BookOfDescribed DEF IsBook
<1> QED
  BY <1>1, AppliedToEmpty DEF IsBook

\* A snapshot cut at the depth gives the same best levels.
LEMMA CutSnapshotApplied ==
    ASSUME NEW b, IsBook(b), NoneGone(b)
    PROVE  /\ IsBook(BookOf(Cut(Listing(b))))
           /\ Applied(EmptyBook, Cut(Listing(b))) = BookOf(Cut(Listing(b)))
           /\ DOMAIN BookOf(Cut(Listing(b))) \subseteq DOMAIN b
           /\ \A p \in DOMAIN BookOf(Cut(Listing(b))) : BookOf(Cut(Listing(b)))[p] = b[p]
           /\ Top(Applied(EmptyBook, Cut(Listing(b)))) = Top(b)
<1> DEFINE L == Listing(b)
           M == Cut(L)
           c == BookOf(M)
<1>1. Strict(L) /\ Describes(L, b)
  BY ListingOfBook
<1>2. /\ Strict(M) /\ DOMAIN M = 1 .. Len(M) /\ DOMAIN L = 1 .. Len(L)
      /\ \A i \in DOMAIN M : i \in DOMAIN L /\ M[i] = L[i]
  <2> HIDE DEF L
  <2>1. Strict(M) /\ IsSequence(L) /\ IsSequence(M)
    BY <1>1, CutIsStrict DEF Strict
  <2>2. \A i \in 1 .. Len(M) : i \in 1 .. Len(L) /\ M[i] = L[i]
    BY <2>1, CutOf
  <2> HIDE DEF M
  <2> QED
    BY <2>1, <2>2, SequenceDomain
<1> HIDE DEF L, M
<1>3. IsBook(c) /\ Describes(M, c) /\ Listing(c) = M
  BY <1>2, BookOfStrict, ListingOfStrict
<1> HIDE DEF c
<1>4. ASSUME NEW p \in DOMAIN c PROVE p \in DOMAIN b /\ c[p] = b[p]
  <2>1. PICK i \in DOMAIN M : M[i][1] = p
    BY <1>3, Zenon DEF Describes
  <2>2. c[p] = M[i][2]
    BY <1>3, <2>1, Zenon DEF Describes
  <2>3. i \in DOMAIN L /\ L[i][1] = p /\ L[i][2] = M[i][2]
    BY <1>2, <2>1
  <2> QED
    BY <1>1, <2>2, <2>3, Zenon DEF Describes
<1>5. NoneGone(c)
  BY <1>4 DEF NoneGone
<1>6. Applied(EmptyBook, M) = c
  BY <1>3, <1>5, AppliedToEmpty DEF IsBook, c
<1>7. Cut(Listing(c)) = Cut(L)
  BY <1>1, <1>3, CutTwice DEF Strict, M
<1> QED
  BY <1>3, <1>4, <1>6, <1>7 DEF Top, L, M, c

\* BingX's listing, worst asks first, gives the best levels once ordered and cut.
LEMMA ReversedOrdered ==
    ASSUME NEW b, IsBook(b)
    PROVE  Ordered(Reversed(Listing(b))) = Top(b)
<1> DEFINE L == Listing(b)
           M == Reversed(L)
<1>1. Strict(L) /\ Describes(L, b) /\ Len(L) \in Nat /\ DOMAIN L = 1 .. Len(L)
  BY ListingOfBook, SequenceDomain DEF Strict
<1> HIDE DEF L
<1>2. DOMAIN M = DOMAIN L /\ \A i \in DOMAIN L : M[i] = L[Len(L) + 1 - i]
  BY <1>1 DEF Reversed
<1> HIDE DEF M
<1>3. ASSUME NEW i \in DOMAIN M PROVE M[i][1] \in DOMAIN b /\ M[i][2] = b[M[i][1]]
  <2>1. Len(L) + 1 - i \in DOMAIN L
    BY <1>1, <1>2
  <2> QED
    BY <1>1, <1>2, <2>1 DEF Describes
<1>4. ASSUME NEW p \in DOMAIN b PROVE \E i \in DOMAIN M : M[i][1] = p
  <2>1. PICK j \in DOMAIN L : L[j][1] = p
    BY <1>1, Zenon DEF Describes
  <2>2. Len(L) + 1 - j \in DOMAIN L /\ Len(L) + 1 - (Len(L) + 1 - j) = j
    BY <1>1
  <2> QED
    BY <1>2, <2>1, <2>2
<1>5. BookOf(M) = b
  BY <1>3, <1>4, BookOfDescribed DEF Describes, IsBook
<1> QED
  BY <1>5 DEF Ordered, Sorted, Top, L, M

\* A delta between two books of the exchange, applied to the first, gives the second.
LEMMA DeltaApplied ==
    ASSUME NEW old \in Books, NEW new \in Books
    PROVE  /\ IsSequence(Delta(old, new))
           /\ Applied(old, Delta(old, new)) = new
           /\ Delta(old, new) = <<>> => old = new
<1> DEFINE Size(b, p) == IF p \in DOMAIN b THEN b[p] ELSE 0
           D == {q \in Prices : Size(old, q) # Size(new, q)}
           d == [p \in D |-> Size(new, p)]
<1>1. /\ DOMAIN old \subseteq Prices /\ DOMAIN new \subseteq Prices
      /\ old = [p \in DOMAIN old |-> old[p]] /\ new = [p \in DOMAIN new |-> new[p]]
      /\ \A p \in DOMAIN old : old[p] # 0
      /\ \A p \in DOMAIN new : new[p] # 0
  BY FeedAssumption DEF Books
<1>2. IsBook(d) /\ DOMAIN d = D
  <2>1. D \in SUBSET Prices
    OBVIOUS
  <2>2. IsFiniteSet(D) /\ D \in SUBSET Nat
    BY <2>1, FeedAssumption, FS_Subset
  <2> QED
    BY <2>2 DEF IsBook
<1>3. Delta(old, new) = Listing(d)
  BY DEF Delta
<1>4. BookOf(Listing(d)) = d /\ IsSequence(Listing(d))
  BY <1>2, ListingOfBook, BookOfDescribed DEF IsBook, Strict
<1>5. (DOMAIN old \cup D) \ {p \in D : d[p] = 0} = DOMAIN new
  BY <1>1, Zenon
<1>6. ASSUME NEW p \in DOMAIN new PROVE (IF p \in D THEN d[p] ELSE old[p]) = new[p]
  BY <1>1
<1>7. Applied(old, Listing(d)) = [p \in DOMAIN new |-> IF p \in D THEN d[p] ELSE old[p]]
  BY <1>2, <1>4, <1>5, Zenon DEF Applied
<1>8. Applied(old, Listing(d)) = new
  BY <1>1, <1>6, <1>7, Zenon
<1>9. ASSUME Listing(d) = <<>> PROVE old = new
  <2>1. D = {}
    <3>1. Len(Listing(d)) = 0 /\ Describes(Listing(d), d)
      BY <1>2, <1>9, ListingOfBook, EmptySeq
    <3>2. DOMAIN Listing(d) = {}
      BY <1>4, <3>1, SequenceDomain
    <3> QED
      BY <1>2, <3>1, <3>2 DEF Describes
  <2>2. DOMAIN old = DOMAIN new /\ \A p \in DOMAIN new : old[p] = new[p]
    BY <1>1, <2>1
  <2> QED
    BY <1>1, <2>2, Zenon
<1> QED
  BY <1>3, <1>4, <1>8, <1>9

-----------------------------------------------------------------------------
(* The invariant about books *)

\* The listing of a version of the book as the exchange sends it.
Listed(fd, b) == IF fd = "bingx" THEN Reversed(Listing(b)) ELSE Listing(b)

\* What a frame in flight says of the exchange's history, on feed fd.
BookFrameOK(f, fd, books) ==
    /\ f.kind \in (IF fd \in Chained \cup Unchained THEN {"snapshot", "delta"} ELSE {"top"})
    /\ f.seq = IF fd \in Fixed THEN NoSeq ELSE f.version
    /\ f.kind # "delta" => f.prev = NoSeq /\ f.levels = Listed(fd, books[f.version])
    /\ f.kind = "delta" =>
          /\ f.prev \in 1 .. f.version - 1
          /\ f.levels = Delta(books[f.prev], books[f.version])

FrameOK(f, fd, books) ==
    /\ f.version \in 1 .. Len(books)
    /\ f.kind # "trades" => BookFrameOK(f, fd, books)

\* Once the first n frames are handled, the local book is that of version v: the
\* last book frame among them is of that version or, without one, it is held.
Reached(frames, n, v, held) ==
    \/ \E j \in 1 .. n : /\ frames[j].kind # "trades" /\ frames[j].version = v
                         /\ \A k \in j + 1 .. n : frames[k].kind = "trades"
    \/ held /\ \A k \in 1 .. n : frames[k].kind = "trades"

Held(v) == based /\ inc = truth[v]

\* On a stream that numbers nothing and has lost nothing, every delta in flight
\* meets the book it was made from, and so will the next one.
NothingSkipped ==
    feed \in Unchained /\ link = "ws" /\ ~lossy =>
        /\ \A i \in 1 .. Len(wire) :
              wire[i].kind = "delta" => Reached(wire, i - 1, wire[i].prev, Held(wire[i].prev))
        /\ sent # 0 => Reached(wire, Len(wire), sent, Held(sent))

\* A snapshot was applied on the connection in use; a chain stands where the book
\* does.
Chain ==
    based => /\ link = "ws" /\ shown.at # 0
             /\ feed \in Chained => lastSeq = shown.at

BookShape ==
    /\ feed \in Followed
    /\ truth \in Seq(Books) /\ Len(truth) + Len(tape) <= MaxEvents + 1
    /\ IsSequence(tape)
    /\ \A i \in 1 .. Len(tape) : tape[i] \in [stamp : Stamps, taker : {"buy", "sell"}]
    /\ link \in {"down", "ws", "rest"}
    /\ sent \in 0 .. Version /\ told \in 0 .. Len(tape)
    /\ Len(wire) <= MaxWire
    /\ turn \in {"book", "trades"}
    /\ answer \in [of : {"book", "trades"}, at : Nat \ {0}] \cup {NoAnswer}
    /\ answer.of = "trades" => answer.at <= Len(tape)
    /\ inc \in Books
    /\ lastSeq \in {NoSeq} \cup 1 .. Version
    /\ Len(shown.levels) <= Depth /\ shown.sure \in BOOLEAN /\ shown.blank \in BOOLEAN

BookInv ==
    /\ ViewInv /\ BookShape
    /\ \A i \in 1 .. Len(wire) : FrameOK(wire[i], feed, truth)
    /\ Chain /\ NothingSkipped /\ LocalBookExact /\ ShownIsReal

-----------------------------------------------------------------------------
(* What the adapters make of the exchange's books *)

LEMMA BookFacts ==
    ASSUME NEW b \in Books
    PROVE  IsBook(b) /\ NoneGone(b) /\ IsSequence(Listing(b))
<1>1. /\ DOMAIN b \in SUBSET Prices /\ b = [p \in DOMAIN b |-> b[p]]
      /\ \A p \in DOMAIN b : b[p] \in Sizes
  BY DEF Books
<1>2. DOMAIN b \in SUBSET Nat /\ IsFiniteSet(DOMAIN b)
  BY <1>1, FeedAssumption, FS_Subset
<1>3. IsBook(b) /\ NoneGone(b)
  BY <1>1, <1>2, FeedAssumption DEF IsBook, NoneGone
<1> QED
  BY <1>3, ListingOfBook DEF Strict

\* Even a delta that meets the wrong book leaves a book.
LEMMA DeltaLeavesBook ==
    ASSUME NEW b \in Books, NEW old \in Books, NEW new \in Books
    PROVE  Applied(b, Delta(old, new)) \in Books
<1> DEFINE Size(c, p) == IF p \in DOMAIN c THEN c[p] ELSE 0
           D == {q \in Prices : Size(old, q) # Size(new, q)}
           d == [p \in D |-> Size(new, p)]
           N == (DOMAIN b \cup D) \ {p \in D : d[p] = 0}
<1>1. /\ DOMAIN b \in SUBSET Prices /\ \A p \in DOMAIN b : b[p] \in Sizes
      /\ \A p \in DOMAIN new : new[p] \in Sizes
  BY DEF Books
<1>2. IsBook(d) /\ DOMAIN d = D
  <2>1. D \in SUBSET Prices
    OBVIOUS
  <2>2. IsFiniteSet(D) /\ D \in SUBSET Nat
    BY <2>1, FeedAssumption, FS_Subset
  <2> QED
    BY <2>2 DEF IsBook
<1>3. Delta(old, new) = Listing(d)
  BY DEF Delta
<1>4. BookOf(Listing(d)) = d
  BY <1>2, ListingOfBook, BookOfDescribed DEF IsBook
<1>5. Applied(b, Listing(d)) = [p \in N |-> IF p \in D THEN d[p] ELSE b[p]]
  BY <1>2, <1>4, Zenon DEF Applied
<1>6. ASSUME NEW p \in N PROVE (IF p \in D THEN d[p] ELSE b[p]) \in Sizes
  BY <1>1
<1>7. N \in SUBSET Prices
  BY <1>1
<1> HIDE DEF D, N
<1>8. [p \in N |-> IF p \in D THEN d[p] ELSE b[p]] \in [N -> Sizes]
  BY <1>6
<1> QED
  BY <1>3, <1>5, <1>7, <1>8, Zenon DEF Books

\* A snapshot cut at the depth is a book.
LEMMA CutLeavesBook ==
    ASSUME NEW b \in Books
    PROVE  Applied(EmptyBook, Cut(Listing(b))) \in Books
<1> DEFINE c == BookOf(Cut(Listing(b)))
<1>1. /\ Applied(EmptyBook, Cut(Listing(b))) = c /\ c = [p \in DOMAIN c |-> c[p]]
      /\ DOMAIN c \subseteq DOMAIN b
      /\ \A p \in DOMAIN c : c[p] = b[p]
  BY BookFacts, CutSnapshotApplied DEF IsBook
<1> HIDE DEF c
<1>2. DOMAIN b \in SUBSET Prices /\ \A p \in DOMAIN b : b[p] \in Sizes
  BY DEF Books
<1>3. DOMAIN c \in SUBSET Prices /\ c \in [DOMAIN c -> Sizes]
  BY <1>1, <1>2
<1> QED
  BY <1>1, <1>3, Zenon DEF Books

\* What is asked of the update an adapter makes of a listing: best levels and all.
LEMMA PushedLevels ==
    ASSUME NEW b \in Books
    PROVE  /\ Cut(Cut(Listing(b))) = Top(b)
           /\ Ordered(Reversed(Listing(b))) = Top(b) /\ Cut(Top(b)) = Top(b)
           /\ IsSequence(Top(b))
<1>1. IsBook(b) /\ IsSequence(Listing(b))
  BY BookFacts
<1> QED
  BY <1>1, CutTwice, CutOf, ReversedOrdered DEF Top

\* parse() of every adapter: the levels reach _apply as they are where the book is
\* maintained, ordered and cut where it is pushed; a chain's numbers are handed on.
LEMMA ParseFacts ==
    ASSUME NEW fd \in Feeds, NEW books \in Seq(Books), NEW f,
           f.kind # "trades", FrameOK(f, fd, books), Parse(fd, f) # <<>>
    PROVE  LET upd == Parse(fd, f)[1]
               b == books[f.version]
           IN  /\ upd.seq \in {NoSeq, f.version}
               /\ upd.is_snapshot <=> f.kind # "delta"
               /\ fd \in Maintains => upd.levels = f.levels
               /\ fd \in Chained => upd.prev_seq = f.prev /\ upd.seq = f.version
               /\ fd \notin Chained => upd.prev_seq = NoSeq
               /\ fd \in Pushers => upd.is_snapshot /\ Cut(upd.levels) = Top(b)
<1> DEFINE b == books[f.version]
<1>1. b \in Books
  BY DEF FrameOK
<1>2. Cut(Cut(Listing(b))) = Top(b) /\ Ordered(Reversed(Listing(b))) = Top(b) /\ Cut(Top(b)) = Top(b)
  BY <1>1, PushedLevels
<1> HIDE DEF b
<1>3. CASE fd \in Chained
  BY <1>3 DEF OkxFeeds, Parse, FrameOK, BookFrameOK, OkxParse, BitgetParse, OnlyIf, OfBook, Update,
              Chained, Unchained, Fixed, Pushers, Maintains, NoSeq
<1>4. CASE fd \in Unchained
  BY <1>4 DEF OkxFeeds, Parse, FrameOK, BookFrameOK, BybitParse, CoinbaseParse, OnlyIf, OfBook, Update,
              Chained, Unchained, Fixed, Pushers, Maintains, NoSeq
<1>5. CASE fd \in Fixed
  BY <1>5 DEF OkxFeeds, Parse, FrameOK, BookFrameOK, OkxParse, BitgetParse, OnlyIf, OfBook, Update,
              Chained, Unchained, Fixed, Pushers, Maintains, NoSeq
<1>6. CASE fd \in Pushers
  BY <1>2, <1>6 DEF OkxFeeds, Parse, FrameOK, BookFrameOK, BinanceParse, KucoinParse, GateParse, HtxParse,
              BingxParse, MexcParse, Listed, OnlyIf, OfBook, Update,
              Chained, Unchained, Fixed, Pushers, Maintains, NoSeq, b
<1> QED
  BY <1>3, <1>4, <1>5, <1>6 DEF Feeds

\* rest_depth() of every adapter: a snapshot of the best levels.
LEMMA RestFacts ==
    ASSUME NEW fd \in Feeds, NEW b \in Books, NEW v
    PROVE  LET upd == RestDepth(fd, WithBook(Listed(fd, b), v))[1]
           IN  /\ upd.is_snapshot /\ upd.seq \in {NoSeq, v}
               /\ upd.levels = Top(b) /\ Top(b) = Cut(Listing(b))
<1>1. Ordered(Reversed(Listing(b))) = Top(b) /\ Cut(Listing(b)) = Top(b)
  BY PushedLevels DEF Top
<1> QED
  BY <1>1 DEF OkxFeeds, RestDepth, OkxDepth, BitgetDepth, BybitDepth, CoinbaseDepth, BinanceDepth,
              KucoinDepth, GateDepth, HtxDepth, BingxDepth, MexcDepth, Update, Listed,
              OnlyIf, WithBook, Feeds, Chained, Unchained, Fixed, Pushers

\* No levels make the empty book, and it lists none.
LEMMA NoLevels ==
    /\ EmptyBook \in Books /\ Applied(EmptyBook, <<>>) = EmptyBook
    /\ Top(EmptyBook) = <<>> /\ Cut(<<>>) = <<>> /\ Ordered(<<>>) = <<>>
<1>1. EmptyBook \in Books
  <2>1. EmptyBook \in [{} -> Sizes]
    BY DEF EmptyBook
  <2> QED
    BY <2>1, Zenon DEF Books
<1>2. Listing(EmptyBook) = <<>>
  <2>1. Describes(Listing(EmptyBook), EmptyBook) /\ DOMAIN EmptyBook = {}
    BY <1>1, BookFacts, ListingOfBook DEF EmptyBook
  <2>2. IsSequence(Listing(EmptyBook)) /\ DOMAIN Listing(EmptyBook) = {}
    BY <1>1, <2>1, BookFacts DEF Describes
  <2>3. Len(Listing(EmptyBook)) = 0
    BY <2>2, SequenceDomain
  <2> QED
    BY <2>2, <2>3, EmptySeq DEF IsSequence
<1>3. Reversed(<<>>) = <<>>
  <2>1. DOMAIN <<>> = {}
    OBVIOUS
  <2> QED
    BY <2>1 DEF Reversed
<1>4. Cut(<<>>) = <<>>
  <2>1. IsSequence(Cut(<<>>)) /\ Len(Cut(<<>>)) = 0
    BY EmptyIsSequence, CutOf, DepthAssumption
  <2> QED
    BY <2>1, EmptySeq DEF IsSequence
<1> QED
  BY <1>1, <1>2, <1>3, <1>4, BookFacts, SnapshotApplied, PushedLevels DEF Top

\* rest_depth() of an answer without a book: nothing on OKX, else an empty snapshot.
LEMMA BlankFacts ==
    ASSUME NEW fd \in Feeds
    PROVE  LET upds == RestDepth(fd, WithoutBook)
           IN  IF fd \in OkxFeeds THEN upds = <<>>
               ELSE /\ upds # <<>> /\ upds[1].is_snapshot
                    /\ upds[1].seq = NoSeq /\ upds[1].levels = <<>>
  BY NoLevels DEF OkxFeeds, RestDepth, OkxDepth, BitgetDepth, BybitDepth, CoinbaseDepth, BinanceDepth,
              KucoinDepth, GateDepth, HtxDepth, BingxDepth, MexcDepth, Update,
              OnlyIf, WithoutBook, Feeds, Chained, Unchained, Fixed, Pushers

-----------------------------------------------------------------------------
(* Every step preserves BookInv *)

\* A frame stays true to a history that grows.
LEMMA FrameStays ==
    ASSUME NEW f, NEW fd, NEW books \in Seq(Books), NEW more \in Seq(Books),
           Len(books) <= Len(more), \A i \in 1 .. Len(books) : more[i] = books[i],
           FrameOK(f, fd, books)
    PROVE  FrameOK(f, fd, more)
<1>1. Len(books) \in Nat /\ Len(more) \in Nat
  BY LenProperties
<1>2. f.version \in 1 .. Len(books) /\ f.version \in 1 .. Len(more)
  BY <1>1 DEF FrameOK
<1>3. more[f.version] = books[f.version]
  BY <1>2
<1>4. ASSUME f.prev \in 1 .. f.version - 1 PROVE more[f.prev] = books[f.prev]
  BY <1>1, <1>2, <1>4
<1> QED
  BY <1>2, <1>3, <1>4 DEF FrameOK, BookFrameOK

\* When the first frame is taken and handled, the next ones reach what they did.
LEMMA ReachedAfterTake ==
    ASSUME NEW w, IsSequence(w), w # <<>>, NEW n \in 1 .. Len(w), NEW v,
           NEW held, NEW then, Reached(w, n, v, held),
           w[1].kind = "trades" /\ held => then,
           w[1].kind # "trades" /\ w[1].version = v => then
    PROVE  Reached(Tail(w), n - 1, v, then)
<1>1. /\ Len(w) \in Nat \ {0}
      /\ Len(Tail(w)) = Len(w) - 1
      /\ \A i \in 1 .. Len(Tail(w)) : Tail(w)[i] = w[i + 1]
  BY TakeOne
<1>2. \A k \in 1 .. n - 1 : Tail(w)[k] = w[k + 1] /\ k + 1 \in 2 .. n
  BY <1>1
<1>3. CASE held /\ \A k \in 1 .. n : w[k].kind = "trades"
  <2>1. w[1].kind = "trades"
    BY <1>1, <1>3
  <2>2. \A k \in 1 .. n - 1 : Tail(w)[k].kind = "trades"
    BY <1>2, <1>3
  <2> QED
    BY <1>3, <2>1, <2>2 DEF Reached
<1>4. ASSUME NEW j \in 1 .. n, w[j].kind # "trades", w[j].version = v,
             \A k \in j + 1 .. n : w[k].kind = "trades"
      PROVE  Reached(Tail(w), n - 1, v, then)
  <2>1. CASE j = 1
    <3>1. then
      BY <1>4, <2>1
    <3>2. \A k \in 1 .. n - 1 : Tail(w)[k].kind = "trades"
      BY <1>2, <1>4, <2>1
    <3> QED
      BY <3>1, <3>2 DEF Reached
  <2>2. CASE j # 1
    <3>1. j - 1 \in 1 .. n - 1 /\ Tail(w)[j - 1] = w[j]
      BY <1>2, <2>2
    <3>2. \A k \in (j - 1) + 1 .. n - 1 : Tail(w)[k].kind = "trades"
      BY <1>2, <1>4, <2>2
    <3> QED
      BY <1>4, <3>1, <3>2 DEF Reached
  <2> QED
    BY <2>1, <2>2
<1> QED
  BY <1>3, <1>4 DEF Reached

\* A frame more on the wire changes nothing of what is reached before it; behind a
\* book frame its version is reached, behind trades what was.
LEMMA ReachedWithMore ==
    ASSUME NEW w, IsSequence(w), NEW e, NEW n \in 0 .. Len(w), NEW v, NEW held,
           Reached(w, n, v, held)
    PROVE  /\ Reached(Append(w, e), n, v, held)
           /\ n = Len(w) /\ e.kind = "trades" => Reached(Append(w, e), Len(w) + 1, v, held)
<1>1. /\ Len(w) \in Nat
      /\ \A i \in 1 .. Len(w) : Append(w, e)[i] = w[i]
      /\ Append(w, e)[Len(w) + 1] = e
  BY AppendOne
<1>2. \A k \in 1 .. n : Append(w, e)[k] = w[k]
  BY <1>1
<1>3. Reached(Append(w, e), n, v, held)
  <2>1. CASE held /\ \A k \in 1 .. n : w[k].kind = "trades"
    BY <1>2, <2>1 DEF Reached
  <2>2. ASSUME NEW j \in 1 .. n, w[j].kind # "trades", w[j].version = v,
               \A k \in j + 1 .. n : w[k].kind = "trades"
        PROVE  Reached(Append(w, e), n, v, held)
    <3>1. \A k \in j + 1 .. n : Append(w, e)[k].kind = "trades"
      BY <1>2, <2>2
    <3> QED
      BY <1>2, <2>2, <3>1 DEF Reached
  <2> QED
    BY <2>1, <2>2 DEF Reached
<1>4. ASSUME n = Len(w), e.kind = "trades"
      PROVE  Reached(Append(w, e), Len(w) + 1, v, held)
  <2>1. CASE held /\ \A k \in 1 .. n : w[k].kind = "trades"
    <3>1. \A k \in 1 .. Len(w) + 1 : Append(w, e)[k].kind = "trades"
      BY <1>1, <1>4, <2>1
    <3> QED
      BY <2>1, <3>1 DEF Reached
  <2>2. ASSUME NEW j \in 1 .. n, w[j].kind # "trades", w[j].version = v,
               \A k \in j + 1 .. n : w[k].kind = "trades"
        PROVE  Reached(Append(w, e), Len(w) + 1, v, held)
    <3>1. \A k \in j + 1 .. Len(w) + 1 : Append(w, e)[k].kind = "trades"
      BY <1>1, <1>4, <2>2
    <3>2. j \in 1 .. Len(w) + 1 /\ Append(w, e)[j] = w[j]
      BY <1>1, <1>4
    <3> QED
      BY <2>2, <3>1, <3>2 DEF Reached
  <2> QED
    BY <2>1, <2>2 DEF Reached
<1> QED
  BY <1>3, <1>4

WireOK == \A i \in 1 .. Len(wire) : FrameOK(wire[i], feed, truth)
TruthGrows ==
    /\ truth' \in Seq(Books) /\ Len(truth) <= Len(truth')
    /\ \A i \in 1 .. Len(truth) : truth'[i] = truth[i]

\* Steps that leave the stream and the local book alone.
LEMMA BookUntouched ==
    ASSUME BookInv, TruthGrows,
           UNCHANGED <<feed, wire, sent, lossy, book>>,
           link' = link \/ (link # "ws" /\ link' # "ws")
    PROVE  WireOK' /\ Chain' /\ NothingSkipped' /\ LocalBookExact' /\ ShownIsReal'
<1>1. truth \in Seq(Books) /\ Len(truth) \in Nat /\ shown.at \in 0 .. Len(truth)
  BY LenProperties DEF BookInv, BookShape, ViewInv, Version
<1>2. UNCHANGED <<inc, lastSeq, shown, based>>
  BY DEF book
<1>3. WireOK'
  BY <1>1, FrameStays DEF BookInv, WireOK, TruthGrows
<1>4. Chain'
  BY <1>2 DEF BookInv, Chain
<1>5. shown.at # 0 => truth'[shown.at] = truth[shown.at]
  BY <1>1 DEF TruthGrows
<1>6. LocalBookExact' /\ ShownIsReal'
  BY <1>2, <1>5 DEF BookInv, LocalBookExact, ShownIsReal, Chain
<1>7. NothingSkipped'
  <2> SUFFICES ASSUME feed \in Unchained, link = "ws", ~lossy, link' = link
               PROVE  NothingSkipped'
    BY DEF NothingSkipped
  <2>1. ASSUME NEW i \in 1 .. Len(wire), wire[i].kind = "delta"
        PROVE  Held(wire[i].prev) <=> based' /\ inc' = truth'[wire[i].prev]
    <3>1. FrameOK(wire[i], feed, truth)
      BY DEF BookInv
    <3>2. wire[i].prev \in 1 .. Len(truth)
      BY <1>1, <2>1, <3>1 DEF FrameOK, BookFrameOK
    <3> QED
      BY <1>2, <3>2 DEF Held, TruthGrows
  <2>2. sent # 0 => (Held(sent) <=> based' /\ inc' = truth'[sent])
    <3>1. sent # 0 => sent \in 1 .. Len(truth)
      BY <1>1 DEF BookInv, BookShape, Version
    <3> QED
      BY <1>2, <3>1 DEF Held, TruthGrows
  <2>3. /\ \A i \in 1 .. Len(wire) :
              wire[i].kind = "delta" => Reached(wire, i - 1, wire[i].prev, Held(wire[i].prev))
        /\ sent # 0 => Reached(wire, Len(wire), sent, Held(sent))
    BY DEF BookInv, NothingSkipped
  <2>4. /\ \A i \in 1 .. Len(wire) :
              wire[i].kind = "delta" =>
                 Reached(wire, i - 1, wire[i].prev, based' /\ inc' = truth'[wire[i].prev])
        /\ sent # 0 => Reached(wire, Len(wire), sent, based' /\ inc' = truth'[sent])
    BY <2>1, <2>2, <2>3, Zenon DEF Reached
  <2> QED
    BY <2>4 DEF NothingSkipped, Held
<1> QED
  BY <1>3, <1>4, <1>6, <1>7

\* A frame of the present version leaves the exchange, or is lost on the way.
LEMMA SendBook ==
    ASSUME BookInv, NEW frame, frame.kind # "trades", frame.version = Version,
           FrameOK(frame, feed, truth),
           frame.kind = "delta" => sent # 0 /\ frame.prev = sent,
           Send(frame)
    PROVE  WireOK' /\ Chain' /\ NothingSkipped' /\ LocalBookExact' /\ ShownIsReal'
<1>1. /\ UNCHANGED <<feed, truth, link, inc, lastSeq, shown, based>> /\ sent' = Version
      /\ link = "ws"
  BY DEF Send, exchange, book
<1>2. Chain' /\ ShownIsReal'
  BY <1>1 DEF BookInv, Chain, ShownIsReal
<1>3. CASE wire' = wire /\ lossy' = (feed \in Unchained)
  <2>1. WireOK'
    BY <1>1, <1>3 DEF BookInv, WireOK
  <2>2. NothingSkipped' /\ LocalBookExact'
    BY <1>1, <1>3 DEF BookInv, NothingSkipped, LocalBookExact
  <2> QED
    BY <1>2, <2>1, <2>2
<1>4. CASE wire' = Append(wire, frame) /\ lossy' = lossy
  <2> DEFINE n == Len(wire)
  <2>1. /\ IsSequence(wire) /\ n \in Nat /\ Len(wire') = n + 1
        /\ \A i \in 1 .. n : wire'[i] = wire[i]
        /\ wire'[n + 1] = frame
    BY <1>4, AppendOne DEF BookInv, ViewInv, WireInOrder
  <2> HIDE DEF n
  <2>2. WireOK'
    <3>1. ASSUME NEW i \in 1 .. n + 1 PROVE FrameOK(wire'[i], feed, truth)
      BY <2>1 DEF BookInv, n
    <3> QED
      BY <1>1, <2>1, <3>1 DEF WireOK
  <2>3. LocalBookExact'
    BY <1>1, <1>4 DEF BookInv, LocalBookExact
  <2>4. NothingSkipped'
    <3> SUFFICES ASSUME feed \in Unchained, ~lossy PROVE NothingSkipped'
      BY <1>1, <1>4 DEF NothingSkipped
    <3>1. /\ \A i \in 1 .. n :
                wire[i].kind = "delta" => Reached(wire, i - 1, wire[i].prev, Held(wire[i].prev))
          /\ sent # 0 => Reached(wire, n, sent, Held(sent))
      BY <1>1 DEF BookInv, NothingSkipped, n
    <3>2. \A v : Held(v)' = Held(v)
      BY <1>1 DEF Held
    <3>3. ASSUME NEW i \in 1 .. n + 1, wire'[i].kind = "delta"
          PROVE  Reached(wire', i - 1, wire'[i].prev, Held(wire'[i].prev))
      <4>1. CASE i = n + 1
        <5>1. Reached(wire, n, sent, Held(sent)) /\ wire'[i].prev = sent
          BY <2>1, <3>1, <3>3, <4>1
        <5>2. Reached(wire', n, sent, Held(sent))
          BY <1>4, <2>1, <5>1, ReachedWithMore DEF n
        <5> QED
          BY <2>1, <4>1, <5>1, <5>2
      <4>2. CASE i \in 1 .. n
        <5>1. wire'[i] = wire[i] /\ i - 1 \in 0 .. n
          BY <2>1, <4>2
        <5>2. Reached(wire, i - 1, wire[i].prev, Held(wire[i].prev))
          BY <3>1, <3>3, <4>2, <5>1
        <5> QED
          BY <1>4, <2>1, <5>1, <5>2, ReachedWithMore DEF n
      <4> QED
        BY <2>1, <4>1, <4>2
    <3>4. Reached(wire', n + 1, Version, Held(Version))
      <4>1. /\ n + 1 \in 1 .. n + 1 /\ wire'[n + 1].kind # "trades"
            /\ wire'[n + 1].version = Version
            /\ \A k \in (n + 1) + 1 .. n + 1 : wire'[k].kind = "trades"
        BY <2>1
      <4> QED
        BY <4>1, Zenon DEF Reached
    <3> QED
      BY <1>1, <2>1, <3>3, <3>4 DEF NothingSkipped, Held
  <2> QED
    BY <1>2, <2>2, <2>3, <2>4
<1> QED
  BY <1>3, <1>4 DEF Send

\* Trades on the wire leave the books alone.
LEMMA PushTradesBook ==
    ASSUME BookInv, PushTrades
    PROVE  WireOK' /\ Chain' /\ NothingSkipped' /\ LocalBookExact' /\ ShownIsReal'
<1> DEFINE frame == [Frame("trades", <<>>, NoSeq) EXCEPT !.fills = Fills(told)]
           n == Len(wire)
<1>1. frame.kind = "trades" /\ frame.version = Version
  BY DEF Frame
<1> HIDE DEF frame
<1>2. /\ UNCHANGED <<feed, truth, link, sent, inc, lastSeq, shown, based, lossy>>
      /\ link = "ws" /\ wire' = Append(wire, frame)
  BY DEF PushTrades, exchange, book, frame
<1>3. /\ IsSequence(wire) /\ n \in Nat /\ Len(wire') = n + 1
      /\ \A i \in 1 .. n : wire'[i] = wire[i]
      /\ wire'[n + 1] = frame
  BY <1>2, AppendOne DEF BookInv, ViewInv, WireInOrder
<1>4. WireOK'
  <2>1. FrameOK(frame, feed, truth)
    BY <1>1 DEF FrameOK, BookInv, ViewInv, Version
  <2> HIDE DEF n
  <2>2. ASSUME NEW i \in 1 .. n + 1 PROVE FrameOK(wire'[i], feed, truth)
    BY <1>3, <2>1 DEF BookInv, n
  <2> QED
    BY <1>2, <1>3, <2>2 DEF WireOK
<1>5. Chain' /\ LocalBookExact' /\ ShownIsReal'
  BY <1>2 DEF BookInv, Chain, LocalBookExact, ShownIsReal
<1>6. NothingSkipped'
  <2> SUFFICES ASSUME feed \in Unchained, ~lossy PROVE NothingSkipped'
    BY <1>2 DEF NothingSkipped
  <2>1. /\ \A i \in 1 .. n :
              wire[i].kind = "delta" => Reached(wire, i - 1, wire[i].prev, Held(wire[i].prev))
        /\ sent # 0 => Reached(wire, n, sent, Held(sent))
    BY <1>2 DEF BookInv, NothingSkipped
  <2>2. ASSUME NEW i \in 1 .. n + 1, wire'[i].kind = "delta"
        PROVE  Reached(wire', i - 1, wire'[i].prev, Held(wire'[i].prev))
    <3>1. i \in 1 .. n /\ wire'[i] = wire[i] /\ i - 1 \in 0 .. n
      BY <1>1, <1>3, <2>2
    <3>2. Reached(wire, i - 1, wire[i].prev, Held(wire[i].prev))
      BY <2>1, <2>2, <3>1
    <3> QED
      BY <1>2, <1>3, <3>1, <3>2, ReachedWithMore
  <2>3. ASSUME sent # 0 PROVE Reached(wire', n + 1, sent, Held(sent))
    <3>1. Reached(wire, n, sent, Held(sent)) /\ n \in 0 .. n
      BY <1>3, <2>1, <2>3
    <3> QED
      BY <1>1, <1>2, <1>3, <3>1, ReachedWithMore
  <2> HIDE DEF n
  <2> QED
    BY <1>2, <1>3, <2>2, <2>3 DEF NothingSkipped, Held
<1> QED
  BY <1>4, <1>5, <1>6

\* A frame is taken off the wire: what it does to the book is what the next frames
\* expect.
LEMMA TakeBook ==
    ASSUME BookInv, link = "ws", wire # <<>>, wire' = Tail(wire),
           UNCHANGED <<feed, truth, link, sent, lossy>>,
           wire[1].kind = "trades" => UNCHANGED <<based, inc>>,
           feed \in Unchained /\ ~lossy /\ wire[1].kind # "trades"
             => based' /\ inc' = truth[wire[1].version]
    PROVE  WireOK' /\ NothingSkipped'
<1>1. /\ IsSequence(wire) /\ Len(wire) \in Nat \ {0}
      /\ Len(wire') = Len(wire) - 1
      /\ \A i \in 1 .. Len(wire') : wire'[i] = wire[i + 1]
  BY TakeOne DEF BookInv, ViewInv, WireInOrder
<1>2. WireOK'
  BY <1>1 DEF BookInv, WireOK
<1>3. NothingSkipped'
  <2> SUFFICES ASSUME feed \in Unchained, ~lossy PROVE NothingSkipped'
    BY DEF NothingSkipped
  <2>1. /\ \A i \in 1 .. Len(wire) :
              wire[i].kind = "delta" => Reached(wire, i - 1, wire[i].prev, Held(wire[i].prev))
        /\ sent # 0 => Reached(wire, Len(wire), sent, Held(sent))
    BY DEF BookInv, NothingSkipped
  <2>2. ASSUME NEW n \in 1 .. Len(wire), NEW v, Reached(wire, n, v, Held(v))
        PROVE  Reached(wire', n - 1, v, based' /\ inc' = truth[v])
    <3>1. wire[1].kind = "trades" /\ Held(v) => based' /\ inc' = truth[v]
      BY DEF Held
    <3>2. wire[1].kind # "trades" /\ wire[1].version = v => based' /\ inc' = truth[v]
      OBVIOUS
    <3> QED
      BY <1>1, <2>2, <3>1, <3>2, ReachedAfterTake
  <2>3. ASSUME NEW i \in 1 .. Len(wire'), wire'[i].kind = "delta"
        PROVE  Reached(wire', i - 1, wire'[i].prev, based' /\ inc' = truth[wire'[i].prev])
    <3>1. i + 1 \in 1 .. Len(wire) /\ i \in 1 .. Len(wire) /\ wire'[i] = wire[i + 1]
          /\ (i + 1) - 1 = i
      BY <1>1
    <3>2. Reached(wire, i, wire[i + 1].prev, Held(wire[i + 1].prev))
      BY <2>1, <2>3, <3>1
    <3> QED
      BY <2>2, <3>1, <3>2
  <2>4. ASSUME sent # 0 PROVE Reached(wire', Len(wire'), sent, based' /\ inc' = truth[sent])
    BY <1>1, <2>1, <2>2, <2>4
  <2> QED
    BY <2>3, <2>4 DEF NothingSkipped, Held
<1> QED
  BY <1>2, <1>3

\* A connection begins or ends: no book is claimed.
LEMMA FreshBook ==
    ASSUME BookInv, wire' = <<>>, sent' = 0, based' = FALSE,
           UNCHANGED <<feed, truth, shown>>
    PROVE  WireOK' /\ Chain' /\ NothingSkipped' /\ LocalBookExact' /\ ShownIsReal'
<1>1. Len(wire') = 0
  BY EmptyIsSequence
<1>2. ShownIsReal'
  <2>1. ShownIsReal
    BY DEF BookInv
  <2>2. CASE shown.blank
    BY <2>1, <2>2, Zenon DEF ShownIsReal
  <2>3. CASE ~shown.blank
    BY <2>1, <2>3, Zenon DEF ShownIsReal
  <2> QED
    BY <2>2, <2>3
<1> QED
  BY <1>1, <1>2 DEF BookInv, WireOK, Chain, NothingSkipped, LocalBookExact

\* The exchange's book of a version, and feeds that are known.
LEMMA History ==
    ASSUME BookInv
    PROVE  /\ feed \in Feeds /\ truth \in Seq(Books) /\ Version \in Nat \ {0}
           /\ \A v \in 1 .. Version : truth[v] \in Books
           /\ \A i \in 1 .. Len(wire) : FrameOK(wire[i], feed, truth)
  BY FeedAssumption, LenProperties DEF BookInv, BookShape, ViewInv, Version

\* _handle_frame and _apply: after an update the book is that of the frame's version,
\* wherever the code can be sure of it.
LEMMA UpdateBook ==
    ASSUME BookInv, HandleUpdate
    PROVE  /\ WireOK' /\ Chain' /\ NothingSkipped' /\ LocalBookExact' /\ ShownIsReal'
           /\ inc' \in Books /\ lastSeq' \in {NoSeq} \cup 1 .. Version
           /\ Len(shown'.levels) <= Depth /\ shown'.sure \in BOOLEAN
           /\ shown'.blank \in BOOLEAN
<1> DEFINE f == wire[1]
           upd == Parse(feed, f)[1]
           v == f.version
           b == truth[v]
           newInc == Applied(IF upd.is_snapshot THEN EmptyBook ELSE inc, upd.levels)
<1>1. /\ link = "ws" /\ wire # <<>> /\ wire' = Tail(wire)
      /\ f.kind # "trades" /\ Parse(feed, f) # <<>> /\ ~Gap(upd)
      /\ Apply(upd, v, Sure(upd), FALSE) /\ based' = (based \/ upd.is_snapshot)
      /\ UNCHANGED <<feed, truth, link, sent, lossy>>
      /\ 1 \in 1 .. Len(wire)
  <2>1. /\ link = "ws" /\ wire # <<>> /\ wire' = Tail(wire)
        /\ UNCHANGED <<feed, truth, link, sent, lossy>>
    BY DEF HandleUpdate, TakeFrame, exchange
  <2>2. Arriving = f /\ 1 \in 1 .. Len(wire)
    BY <2>1, TakeOne DEF Arriving, BookInv, ViewInv, WireInOrder
  <2> HIDE DEF f
  <2>3. /\ f.kind # "trades" /\ Parse(feed, f) # <<>> /\ ~Gap(upd)
        /\ Apply(upd, v, Sure(upd), FALSE) /\ based' = (based \/ upd.is_snapshot)
    BY <2>2, Zenon DEF HandleUpdate
  <2> QED
    BY <2>1, <2>2, <2>3, Zenon
<1>2. /\ feed \in Feeds /\ truth \in Seq(Books) /\ v \in 1 .. Version /\ b \in Books
      /\ FrameOK(f, feed, truth) /\ Version \in Nat
  BY <1>1, History DEF FrameOK, Version
<1>3. /\ upd.seq \in {NoSeq, v}
      /\ upd.is_snapshot <=> f.kind # "delta"
      /\ feed \in Maintains => upd.levels = f.levels
      /\ feed \in Chained => upd.prev_seq = f.prev /\ upd.seq = v
      /\ feed \notin Chained => upd.prev_seq = NoSeq
      /\ feed \in Pushers => upd.is_snapshot /\ Cut(upd.levels) = Top(b)
  BY <1>1, <1>2, ParseFacts
<1>4. BookFrameOK(f, feed, truth)
  BY <1>1, <1>2 DEF FrameOK
<1> HIDE DEF f, upd
<1>5. /\ feed \in Maintains <=> feed \notin Pushers
      /\ feed \in Maintains => feed # "bingx"
  BY <1>2 DEF Feeds, Maintains, Chained, Unchained, Fixed, Pushers
<1>6. /\ lastSeq' = IF feed \in Maintains /\ upd.seq # NoSeq THEN upd.seq ELSE lastSeq
      /\ inc' = IF feed \in Maintains THEN newInc ELSE inc
      /\ shown'.levels = IF feed \in Maintains THEN Top(newInc) ELSE Cut(upd.levels)
      /\ shown'.at = v
      /\ shown'.sure = Sure(upd) /\ shown'.blank = FALSE
  BY <1>1 DEF Apply
<1>7. ASSUME feed \in Maintains, f.kind # "delta" PROVE newInc = b
  <2>1. upd.levels = Listing(b)
    BY <1>3, <1>4, <1>5, <1>7 DEF BookFrameOK, Listed
  <2> QED
    BY <1>2, <1>3, <1>7, <2>1, BookFacts, SnapshotApplied
<1>8. ASSUME feed \in Maintains, f.kind = "delta"
      PROVE  /\ f.prev \in 1 .. Version /\ f.prev # 0 /\ truth[f.prev] \in Books
             /\ upd.levels = Delta(truth[f.prev], b)
             /\ newInc = Applied(inc, upd.levels)
             /\ newInc \in Books
             /\ feed \in Chained \cup Unchained
  <2>1. /\ f.prev \in 1 .. Version /\ f.prev # 0 /\ upd.levels = Delta(truth[f.prev], b)
    BY <1>2, <1>3, <1>4, <1>8 DEF BookFrameOK
  <2>2. truth[f.prev] \in Books /\ inc \in Books
    BY <2>1, History DEF BookInv, BookShape
  <2>3. newInc = Applied(inc, upd.levels)
    BY <1>3, <1>8
  <2>4. feed \in Chained \cup Unchained
    BY <1>4, <1>8 DEF BookFrameOK
  <2> QED
    BY <1>2, <2>1, <2>2, <2>3, <2>4, DeltaLeavesBook
<1>9. ASSUME feed \in Maintains, f.kind = "delta", inc = truth[f.prev] PROVE newInc = b
  BY <1>2, <1>8, <1>9, DeltaApplied
<1>10. ASSUME feed \in Chained, f.kind = "delta", based PROVE newInc = b
  <2>1. lastSeq = shown.at /\ shown.at # 0 /\ inc = truth[shown.at]
    BY <1>1, <1>10 DEF BookInv, Chain, LocalBookExact
  <2>2. feed \in Maintains /\ upd.prev_seq = f.prev /\ ~upd.is_snapshot
    BY <1>3, <1>10 DEF Maintains
  <2>3. f.prev = lastSeq
    BY <1>1, <1>8, <1>10, <2>1, <2>2 DEF Gap, NoSeq
  <2> QED
    BY <1>9, <1>10, <2>1, <2>2, <2>3
<1>11. ASSUME feed \in Unchained, f.kind = "delta", ~lossy PROVE based /\ newInc = b
  <2>1. Reached(wire, 0, f.prev, Held(f.prev))
    <3>1. Reached(wire, 1 - 1, f.prev, Held(f.prev))
      BY <1>1, <1>11 DEF BookInv, NothingSkipped, f
    <3> QED
      BY <3>1
  <2>2. Held(f.prev)
    BY <2>1 DEF Reached
  <2>3. feed \in Maintains
    BY <1>11 DEF Maintains
  <2> QED
    BY <1>9, <1>11, <2>2, <2>3 DEF Held
<1> HIDE DEF newInc, b, v
<1>12. newInc \in Books \/ feed \notin Maintains
  BY <1>2, <1>7, <1>8
<1>13. inc' \in Books /\ lastSeq' \in {NoSeq} \cup 1 .. Version
  BY <1>2, <1>3, <1>6, <1>12 DEF BookInv, BookShape
<1>22. shown'.sure \in BOOLEAN /\ shown'.blank \in BOOLEAN
  BY <1>6 DEF Sure
<1>14. Len(shown'.levels) <= Depth
  <2>1. CASE feed \in Maintains
    BY <1>6, <1>12, <2>1, BookFacts, CutOf DEF Top
  <2>2. CASE feed \notin Maintains
    BY <1>2, <1>3, <1>5, <1>6, <2>2, BookFacts, CutOf DEF Top
  <2> QED
    BY <2>1, <2>2
<1>15. ASSUME feed \in Maintains, Sure(upd) PROVE newInc = b
  <2>1. CASE f.kind # "delta"
    BY <1>7, <1>15, <2>1
  <2>2. CASE f.kind = "delta"
    <3>1. based /\ (feed \in Chained \/ ~lossy)
      BY <1>3, <1>15, <2>2 DEF Sure
    <3>2. feed \in Chained \/ feed \in Unchained
      BY <1>8, <1>15, <2>2
    <3> QED
      BY <1>10, <1>11, <2>2, <3>1, <3>2
  <2> QED
    BY <2>1, <2>2
<1>16. ShownIsReal'
  <2> SUFFICES ASSUME Sure(upd) PROVE shown'.levels = Top(b)
    BY <1>1, <1>6 DEF ShownIsReal, b
  <2> QED
    BY <1>3, <1>5, <1>6, <1>15
<1>17. based' => Sure(upd) \/ (feed \in Unchained /\ lossy) \/ feed \in Fixed \cup Pushers
  BY <1>1, <1>2 DEF Sure, Feeds
<1>18. LocalBookExact'
  <2> SUFFICES ASSUME based', feed \in Chained \/ (feed \in Unchained /\ ~lossy)
               PROVE  inc' = b
    BY <1>1, <1>6 DEF LocalBookExact, b
  <2>1. feed \in Maintains
    BY DEF Maintains
  <2>2. Sure(upd)
    BY <1>1, <1>3 DEF Sure
  <2> QED
    BY <1>6, <1>15, <2>1, <2>2
<1>19. Chain'
  <2>1. v # 0
    BY <1>2
  <2>2. feed \in Chained => lastSeq' = v
    BY <1>3, <1>6, <2>1 DEF Maintains, NoSeq
  <2> QED
    BY <1>1, <1>6, <2>1, <2>2 DEF Chain
<1>20. feed \in Unchained /\ ~lossy => based' /\ inc' = b
  <2> SUFFICES ASSUME feed \in Unchained, ~lossy PROVE based' /\ inc' = b
    OBVIOUS
  <2>1. feed \in Maintains
    BY DEF Maintains
  <2> QED
    BY <1>1, <1>3, <1>6, <1>7, <1>11, <2>1
<1>21. WireOK' /\ NothingSkipped'
  BY <1>1, <1>20, TakeBook DEF f, b, v
<1> QED
  BY <1>13, <1>14, <1>16, <1>18, <1>19, <1>21, <1>22

\* A frame without an update: a delta of Coinbase that changes nothing.
LEMMA NothingBook ==
    ASSUME BookInv, HandleNothing
    PROVE  WireOK' /\ Chain' /\ NothingSkipped' /\ LocalBookExact' /\ ShownIsReal'
<1> DEFINE f == wire[1]
<1>1. /\ link = "ws" /\ wire # <<>> /\ wire' = Tail(wire)
      /\ f.kind # "trades" /\ Parse(feed, f) = <<>>
      /\ UNCHANGED <<feed, truth, link, sent, lossy, inc, lastSeq, shown, based>>
      /\ 1 \in 1 .. Len(wire)
  BY TakeOne DEF HandleNothing, TakeFrame, Arriving, exchange, book, BookInv, ViewInv, WireInOrder
<1>2. Chain' /\ LocalBookExact' /\ ShownIsReal'
  BY <1>1 DEF BookInv, Chain, LocalBookExact, ShownIsReal
<1>3. ASSUME feed \in Unchained, ~lossy PROVE based /\ inc = truth[f.version]
  <2>1. FrameOK(f, feed, truth)
    BY <1>1, History
  <2>2. BookFrameOK(f, feed, truth) /\ f.version \in 1 .. Version /\ Version \in Nat
    BY <1>1, <2>1, History DEF FrameOK, Version
  <2>3. f.kind = "delta" /\ f.levels = <<>>
    BY <1>1, <1>3, <2>2 DEF OkxFeeds, Parse, BookFrameOK, BybitParse, CoinbaseParse, OnlyIf, OfBook,
                            Unchained
  <2>4. f.prev \in 1 .. Version /\ Delta(truth[f.prev], truth[f.version]) = <<>>
    BY <2>2, <2>3 DEF BookFrameOK
  <2>5. truth[f.prev] = truth[f.version]
    BY <2>2, <2>4, History, DeltaApplied
  <2>6. Reached(wire, 1 - 1, f.prev, Held(f.prev))
    BY <1>1, <1>3, <2>3 DEF BookInv, NothingSkipped
  <2>7. Held(f.prev)
    BY <2>6 DEF Reached
  <2> QED
    BY <2>5, <2>7 DEF Held
<1>4. WireOK' /\ NothingSkipped'
  BY <1>1, <1>3, TakeBook
<1> QED
  BY <1>2, <1>4

\* Trades leave the books alone.
LEMMA TradesBook ==
    ASSUME BookInv, HandleTrades
    PROVE  WireOK' /\ Chain' /\ NothingSkipped' /\ LocalBookExact' /\ ShownIsReal'
<1>1. /\ link = "ws" /\ wire # <<>> /\ wire' = Tail(wire)
      /\ wire[1].kind = "trades"
      /\ UNCHANGED <<feed, truth, link, sent, lossy, inc, lastSeq, shown, based>>
  BY TakeOne DEF HandleTrades, TakeFrame, Arriving, exchange, book, BookInv, ViewInv, WireInOrder
<1>2. Chain' /\ LocalBookExact' /\ ShownIsReal'
  BY <1>1 DEF BookInv, Chain, LocalBookExact, ShownIsReal
<1>3. WireOK' /\ NothingSkipped'
  BY <1>1, TakeBook
<1> QED
  BY <1>2, <1>3

\* run_rest: an answer is a snapshot of the version that was asked for.
LEMMA PollBookBook ==
    ASSUME BookInv, PollBook
    PROVE  /\ WireOK' /\ Chain' /\ NothingSkipped' /\ LocalBookExact' /\ ShownIsReal'
           /\ inc' \in Books /\ lastSeq' \in {NoSeq} \cup 1 .. Version
           /\ Len(shown'.levels) <= Depth /\ shown'.sure \in BOOLEAN
           /\ shown'.blank \in BOOLEAN
<1> DEFINE v == answer.at
           b == truth[v]
           upd == RestDepth(feed, WithBook(Listed(feed, b), v))[1]
<1>1. /\ link = "rest" /\ link' = link /\ wire = <<>> /\ wire' = wire
      /\ UNCHANGED <<feed, truth, sent, lossy, based>>
      /\ Apply(upd, v, TRUE, FALSE)
  <2>1. answer.of = "book"
    BY DEF PollBook
  <2>2. link = "rest" /\ wire = <<>>
    BY <2>1 DEF BookInv, ViewInv, OneOnTheWay, NoAnswer
  <2>3. UNCHANGED <<feed, truth, link, sent, wire, lossy, based>>
    BY DEF PollBook, exchange, channel
  <2>4. Apply(upd, v, TRUE, FALSE)
    BY Zenon DEF PollBook, Listed
  <2> QED
    BY <2>2, <2>3, <2>4
<1>2. feed \in Feeds /\ v \in 1 .. Version /\ Version \in Nat /\ b \in Books
  <2>1. v \in Nat \ {0} /\ v \in shown.at .. Version
    BY DEF PollBook, BookInv, BookShape, ViewInv, NoAnswer
  <2>2. v \in 1 .. Version
    BY <2>1, History
  <2> QED
    BY <2>2, History
<1>3. /\ upd.is_snapshot /\ upd.seq \in {NoSeq, v}
      /\ upd.levels = Top(b) /\ Top(b) = Cut(Listing(b))
  BY <1>2, RestFacts
<1> HIDE DEF upd, b
<1>4. /\ Applied(EmptyBook, upd.levels) \in Books
      /\ Top(Applied(EmptyBook, upd.levels)) = Top(b)
      /\ Cut(upd.levels) = Top(b)
      /\ Len(Top(b)) <= Depth
  <2>1. Applied(EmptyBook, Cut(Listing(b))) \in Books
    BY <1>2, CutLeavesBook
  <2>2. Top(Applied(EmptyBook, Cut(Listing(b)))) = Top(b)
    BY <1>2, BookFacts, CutSnapshotApplied
  <2>3. Cut(Cut(Listing(b))) = Top(b) /\ Len(Cut(Listing(b))) <= Depth
    BY <1>2, BookFacts, PushedLevels, CutOf
  <2> QED
    BY <1>3, <2>1, <2>2, <2>3
<1>5. /\ lastSeq' = IF feed \in Maintains /\ upd.seq # NoSeq THEN upd.seq ELSE lastSeq
      /\ inc' = IF feed \in Maintains THEN Applied(EmptyBook, upd.levels) ELSE inc
      /\ shown'.levels = Top(b)
      /\ shown'.at = v /\ shown'.sure = TRUE /\ shown'.blank = FALSE
  BY <1>1, <1>3, <1>4 DEF Apply
<1>6. inc' \in Books /\ lastSeq' \in {NoSeq} \cup 1 .. Version /\ Len(shown'.levels) <= Depth
  BY <1>2, <1>3, <1>4, <1>5 DEF BookInv, BookShape
<1>7. ShownIsReal'
  BY <1>1, <1>5 DEF ShownIsReal, b
<1>8. ~based' /\ WireOK' /\ NothingSkipped'
  BY <1>1, EmptyIsSequence DEF BookInv, Chain, WireOK, NothingSkipped
<1>9. Chain' /\ LocalBookExact'
  BY <1>8 DEF Chain, LocalBookExact
<1> QED
  BY <1>5, <1>6, <1>7, <1>8, <1>9

\* An answer without a book empties what is shown, and the local book with it.
LEMMA PollBlankBook ==
    ASSUME BookInv, PollBlank, feed \notin OkxFeeds
    PROVE  /\ WireOK' /\ Chain' /\ NothingSkipped' /\ LocalBookExact' /\ ShownIsReal'
           /\ inc' \in Books /\ lastSeq' \in {NoSeq} \cup 1 .. Version
           /\ Len(shown'.levels) <= Depth /\ shown'.sure \in BOOLEAN
           /\ shown'.blank \in BOOLEAN
<1> DEFINE upd == RestDepth(feed, WithoutBook)[1]
<1>1. /\ RestDepth(feed, WithoutBook) # <<>> /\ upd.is_snapshot
      /\ upd.seq = NoSeq /\ upd.levels = <<>>
  BY History, BlankFacts
<1>2. /\ link = "rest" /\ link' = link /\ wire = <<>> /\ wire' = wire
      /\ UNCHANGED <<feed, truth, sent, lossy, based>>
      /\ Apply(upd, shown.at, TRUE, TRUE)
  <2>1. link = "rest" /\ wire = <<>>
    <3>1. answer.of = "book"
      BY Zenon DEF PollBlank
    <3> QED
      BY <3>1 DEF BookInv, ViewInv, OneOnTheWay, NoAnswer
  <2>2. UNCHANGED <<feed, truth, link, sent, wire, lossy>>
    BY DEF PollBlank, exchange, channel
  <2>3. UNCHANGED based /\ Apply(upd, shown.at, TRUE, TRUE)
    BY <1>1, Zenon DEF PollBlank
  <2> QED
    BY <2>1, <2>2, <2>3, Zenon
<1> HIDE DEF upd
<1>3. /\ lastSeq' = lastSeq
      /\ inc' = IF feed \in Maintains THEN EmptyBook ELSE inc
      /\ shown'.levels = <<>> /\ shown'.at = shown.at
      /\ shown'.sure = TRUE /\ shown'.blank = TRUE
  BY <1>1, <1>2, NoLevels DEF Apply
<1>4. Len(shown'.levels) <= Depth
  <2>1. Len(shown'.levels) = 0
    BY <1>3, EmptyIsSequence, Zenon
  <2> QED
    BY <2>1, DepthAssumption
<1>5. inc' \in Books /\ lastSeq' \in {NoSeq} \cup 1 .. Version
  BY <1>3, NoLevels DEF BookInv, BookShape
<1>6. ~based' /\ WireOK' /\ NothingSkipped'
  BY <1>2, EmptyIsSequence DEF BookInv, Chain, WireOK, NothingSkipped
<1>7. Chain' /\ LocalBookExact' /\ ShownIsReal'
  BY <1>2, <1>3, <1>6 DEF Chain, LocalBookExact, ShownIsReal
<1> QED
  BY <1>3, <1>4, <1>5, <1>6, <1>7

-----------------------------------------------------------------------------
\* What the exchange puts on the wire is true of its history.
LEMMA FramesFit ==
    ASSUME BookInv
    PROVE  /\ feed \in Chained \cup Unchained =>
                FrameOK(Frame("snapshot", Listing(truth[Version]), NoSeq), feed, truth)
           /\ feed \in Chained \cup Unchained /\ sent \in 1 .. Version - 1 =>
                FrameOK(Frame("delta", Delta(truth[sent], truth[Version]), sent), feed, truth)
           /\ feed \in Pushers \cup Fixed =>
                FrameOK(Frame("top", Listing(truth[Version]), NoSeq), feed, truth)
<1>1. Version \in 1 .. Len(truth) /\ Version = Len(truth)
  BY History DEF Version
<1>2. CASE feed \in Chained \cup Unchained
  BY <1>1, <1>2 DEF Frame, FrameOK, BookFrameOK, Listed, Chained, Unchained, Fixed, Pushers
<1>3. CASE feed \in Pushers \cup Fixed
  BY <1>1, <1>3 DEF Frame, FrameOK, BookFrameOK, Listed, Chained, Unchained, Fixed, Pushers
<1> QED
  BY <1>2, <1>3

\* A book frame sent leaves the shape of the state.
LEMMA SendShape ==
    ASSUME BookInv, NEW frame, Send(frame)
    PROVE  BookShape'
<1>1. /\ IsSequence(wire) /\ Len(wire) \in Nat /\ Len(wire) < MaxWire /\ Version \in Nat
      /\ UNCHANGED <<feed, truth, tape, link, told, turn, answer, inc, lastSeq, shown>>
      /\ sent' = Version /\ MaxWire \in Nat
  BY AppendOne, History, FeedAssumption
     DEF Send, BookInv, ViewInv, WireInOrder, exchange, poll, book
<1>2. Len(wire') <= MaxWire
  BY <1>1, AppendOne DEF Send
<1> QED
  BY <1>1, <1>2 DEF BookInv, BookShape, Version

\* The exchange's steps.
LEMMA ExchangeKeepsBooks ==
    ASSUME BookInv, \/ \E b \in Books : Quote(b)
                    \/ \E stamp \in Stamps, taker \in {"buy", "sell"} : Match(stamp, taker)
                    \/ PushSnapshot \/ PushDelta \/ PushTop \/ PushTrades
    PROVE  BookInv'
<1>1. ViewInv'
  BY ExchangeKeepsInv DEF BookInv
<1>2. /\ truth \in Seq(Books) /\ Version \in Nat \ {0} /\ Len(tape) \in Nat
      /\ IsSequence(tape) /\ MaxEvents \in Nat /\ Version = Len(truth)
  BY History, FeedAssumption, AppendOne DEF BookInv, BookShape, Version
<1>3. ASSUME NEW b \in Books, Quote(b)
      PROVE  BookShape' /\ WireOK' /\ Chain' /\ NothingSkipped' /\ LocalBookExact' /\ ShownIsReal'
  <2>1. /\ truth' \in Seq(Books) /\ Len(truth') = Len(truth) + 1
        /\ \A i \in 1 .. Len(truth) : truth'[i] = truth[i]
    BY <1>2, <1>3, AppendProperties DEF Quote
  <2>2. /\ UNCHANGED <<feed, tape, link, sent, told, wire, turn, answer, inc, lastSeq, shown,
                       based, lossy>>
        /\ Len(truth) + Len(tape) <= MaxEvents
    BY <1>3 DEF Quote, Quiet, channel, poll, book
  <2>3. TruthGrows
    BY <1>2, <2>1 DEF TruthGrows
  <2>4. WireOK' /\ Chain' /\ NothingSkipped' /\ LocalBookExact' /\ ShownIsReal'
    BY <2>2, <2>3, BookUntouched DEF book
  <2>5. Len(truth') + Len(tape') <= MaxEvents + 1
    BY <1>2, <2>1, <2>2
  <2>6. sent' \in 0 .. Version' /\ lastSeq' \in {NoSeq} \cup 1 .. Version'
    BY <1>2, <2>1, <2>2 DEF BookInv, BookShape, Version
  <2> QED
    BY <2>1, <2>2, <2>4, <2>5, <2>6 DEF BookInv, BookShape
<1>4. ASSUME NEW stamp \in Stamps, NEW taker \in {"buy", "sell"}, Match(stamp, taker)
      PROVE  BookShape' /\ WireOK' /\ Chain' /\ NothingSkipped' /\ LocalBookExact' /\ ShownIsReal'
  <2>1. /\ UNCHANGED <<feed, truth, link, sent, told, wire, turn, answer, inc, lastSeq, shown,
                       based, lossy>>
        /\ Len(truth) + Len(tape) <= MaxEvents
        /\ tape' = Append(tape, [stamp |-> stamp, taker |-> taker])
    BY <1>4 DEF Match, Quiet, channel, poll, book
  <2>2. /\ IsSequence(tape') /\ Len(tape') = Len(tape) + 1
        /\ \A i \in 1 .. Len(tape) : tape'[i] = tape[i]
        /\ tape'[Len(tape) + 1] = [stamp |-> stamp, taker |-> taker]
    BY <1>2, <2>1, AppendOne
  <2>3. TruthGrows
    BY <1>2, <2>1 DEF TruthGrows
  <2>4. WireOK' /\ Chain' /\ NothingSkipped' /\ LocalBookExact' /\ ShownIsReal'
    BY <2>1, <2>3, BookUntouched DEF book
  <2>5. ASSUME NEW i \in 1 .. Len(tape')
        PROVE  tape'[i] \in [stamp : Stamps, taker : {"buy", "sell"}]
    <3>1. CASE i = Len(tape) + 1
      BY <2>2, <3>1
    <3>2. CASE i \in 1 .. Len(tape)
      BY <2>2, <3>2 DEF BookInv, BookShape
    <3> QED
      BY <1>2, <2>2, <3>1, <3>2
  <2>6. Len(truth') + Len(tape') <= MaxEvents + 1 /\ told' \in 0 .. Len(tape')
    BY <1>2, <2>1, <2>2 DEF BookInv, BookShape
  <2>7. answer'.of = "trades" => answer'.at <= Len(tape')
    BY <1>2, <2>1, <2>2 DEF BookInv, BookShape, NoAnswer
  <2> QED
    BY <2>1, <2>2, <2>4, <2>5, <2>6, <2>7 DEF BookInv, BookShape, Version
<1>5. CASE PushSnapshot
  <2> DEFINE frame == Frame("snapshot", Listing(truth[Version]), NoSeq)
  <2>1. Send(frame) /\ FrameOK(frame, feed, truth)
    BY <1>5, FramesFit DEF PushSnapshot
  <2>2. frame.kind = "snapshot" /\ frame.version = Version
    BY DEF Frame
  <2> HIDE DEF frame
  <2> QED
    BY <1>1, <2>1, <2>2, SendBook, SendShape DEF BookInv, WireOK
<1>6. CASE PushDelta
  <2> DEFINE frame == Frame("delta", Delta(truth[sent], truth[Version]), sent)
  <2>1. Send(frame) /\ FrameOK(frame, feed, truth) /\ sent \in 1 .. Version - 1
    BY <1>6, FramesFit DEF PushDelta
  <2>2. frame.kind = "delta" /\ frame.version = Version /\ frame.prev = sent
    BY DEF Frame
  <2> HIDE DEF frame
  <2>3. sent # 0
    BY <2>1
  <2> QED
    BY <1>1, <2>1, <2>2, <2>3, SendBook, SendShape DEF BookInv, WireOK
<1>7. CASE PushTop
  <2> DEFINE frame == Frame("top", Listing(truth[Version]), NoSeq)
  <2>1. Send(frame) /\ FrameOK(frame, feed, truth)
    BY <1>7, FramesFit DEF PushTop
  <2>2. frame.kind = "top" /\ frame.version = Version
    BY DEF Frame
  <2> HIDE DEF frame
  <2> QED
    BY <1>1, <2>1, <2>2, SendBook, SendShape DEF BookInv, WireOK
<1>8. CASE PushTrades
  <2>1. /\ UNCHANGED <<feed, truth, tape, link, sent, turn, answer, inc, lastSeq, shown>>
        /\ told' = Len(tape) /\ Len(wire) < MaxWire /\ MaxWire \in Nat
    BY <1>8, FeedAssumption DEF PushTrades, exchange, poll, book
  <2>2. Len(wire') <= MaxWire
    BY <1>8, <2>1, AppendOne DEF PushTrades, BookInv, ViewInv, WireInOrder
  <2>3. BookShape'
    BY <1>2, <2>1, <2>2 DEF BookInv, BookShape, Version
  <2> QED
    BY <1>1, <1>8, <2>3, PushTradesBook DEF BookInv, WireOK
<1>9. CASE \E b \in Books : Quote(b)
  BY <1>1, <1>3, <1>9 DEF BookInv, WireOK
<1>10. CASE \E stamp \in Stamps, taker \in {"buy", "sell"} : Match(stamp, taker)
  BY <1>1, <1>4, <1>10 DEF BookInv, WireOK
<1> QED
  BY <1>5, <1>6, <1>7, <1>8, <1>9, <1>10

\* The scraper's steps.
LEMMA ScraperKeepsBooks ==
    ASSUME BookInv, \/ Connect \/ Drop
                    \/ HandleUpdate \/ HandleGap \/ HandleNothing \/ HandleTrades
                    \/ StartRest \/ Answer \/ PollBook \/ PollBlank \/ PollTrades \/ PollFails
                    \/ StopRest
    PROVE  BookInv'
<1>1. ViewInv' /\ truth' = truth
  BY ScraperKeepsInv DEF BookInv
<1> SUFFICES /\ BookShape' /\ WireOK' /\ Chain' /\ NothingSkipped'
             /\ LocalBookExact' /\ ShownIsReal'
  BY <1>1 DEF BookInv, WireOK
<1>2. /\ Version \in Nat \ {0} /\ Len(tape) \in Nat /\ Version = Len(truth)
      /\ MaxWire \in Nat /\ Version' = Version /\ truth \in Seq(Books)
  BY <1>1, History, FeedAssumption, AppendOne DEF BookInv, BookShape, Version
<1>3. TruthGrows
  BY <1>1, <1>2 DEF TruthGrows
<1>4. EmptyBook \in Books
  <2>1. EmptyBook \in [{} -> Sizes]
    BY DEF EmptyBook
  <2> QED
    BY <2>1, Zenon DEF Books
<1>5. CASE Connect
  <2>1. told' \in 0 .. Len(tape)
    <3>1. tape # <<>> => Len(tape) # 0
      BY EmptySeq DEF BookInv, BookShape, IsSequence
    <3> QED
      BY <1>2, <1>5, <3>1 DEF Connect
  <2>2. /\ UNCHANGED <<feed, truth, tape, turn, answer, shown>>
        /\ link' = "ws" /\ sent' = 0 /\ wire' = <<>> /\ inc' = EmptyBook /\ lastSeq' = NoSeq
        /\ based' = FALSE
    BY <1>5 DEF Connect, exchange, poll
  <2>3. BookShape'
    BY <1>2, <1>4, <2>1, <2>2, EmptyIsSequence DEF BookInv, BookShape, Version
  <2> QED
    BY <2>2, <2>3, FreshBook
<1>6. CASE Drop \/ HandleGap
  <2>1. /\ UNCHANGED <<feed, truth, tape, turn, answer, inc, lastSeq, shown>>
        /\ link' = "down" /\ sent' = 0 /\ told' = 0 /\ wire' = <<>> /\ based' = FALSE
    BY <1>6 DEF Drop, HandleGap, Down, exchange, poll
  <2>2. BookShape'
    BY <1>2, <2>1, EmptyIsSequence DEF BookInv, BookShape, Version
  <2> QED
    BY <2>1, <2>2, FreshBook
<1>7. CASE HandleUpdate
  <2>1. /\ UNCHANGED <<feed, truth, tape, link, sent, told, turn, answer>>
        /\ wire' = Tail(wire) /\ wire # <<>>
    BY <1>7 DEF HandleUpdate, TakeFrame, exchange, poll
  <2>2. Len(wire') <= MaxWire
    BY <1>2, <2>1, TakeOne DEF BookInv, BookShape, ViewInv, WireInOrder
  <2>3. BookShape'
    BY <1>2, <1>7, <2>1, <2>2, UpdateBook DEF BookInv, BookShape, Version
  <2> QED
    BY <1>7, <2>3, UpdateBook
<1>8. CASE HandleNothing \/ HandleTrades
  <2>1. /\ UNCHANGED <<feed, truth, tape, link, sent, told, turn, answer, inc, lastSeq, shown>>
        /\ wire' = Tail(wire) /\ wire # <<>>
    BY <1>8 DEF HandleNothing, HandleTrades, TakeFrame, exchange, poll, book
  <2>2. Len(wire') <= MaxWire
    BY <1>2, <2>1, TakeOne DEF BookInv, BookShape, ViewInv, WireInOrder
  <2>3. BookShape'
    BY <1>2, <2>1, <2>2 DEF BookInv, BookShape, Version
  <2> QED
    BY <1>8, <2>3, NothingBook, TradesBook
<1>9. CASE StartRest \/ StopRest \/ PollTrades \/ PollFails
  <2>1. /\ UNCHANGED <<feed, truth, tape, sent, told, wire, inc, lastSeq, shown, based, lossy>>
        /\ link' \in {"down", "rest"} /\ link # "ws"
        /\ turn' \in {"book", "trades"} /\ answer' \in {answer, NoAnswer}
    <3>1. CASE StartRest \/ StopRest \/ PollFails
      BY <3>1 DEF StartRest, StopRest, PollFails, exchange, channel, poll, book,
                  BookInv, BookShape, ViewInv, OneOnTheWay, NoAnswer
    <3>2. CASE PollTrades
      BY <3>2 DEF PollTrades, exchange, channel, book,
                  BookInv, BookShape, ViewInv, OneOnTheWay, NoAnswer
    <3> QED
      BY <1>9, <3>1, <3>2
  <2>2. BookShape'
    BY <1>2, <2>1 DEF BookInv, BookShape, Version, NoAnswer
  <2>3. UNCHANGED <<feed, wire, sent, lossy, book>>
        /\ (link' = link \/ (link # "ws" /\ link' # "ws"))
    BY <2>1 DEF book
  <2> QED
    BY <1>3, <2>2, <2>3, BookUntouched
<1>10. CASE Answer
  <2>1. /\ UNCHANGED <<feed, truth, tape, link, sent, told, wire, turn, inc, lastSeq, shown,
                       based, lossy>>
    BY <1>10 DEF Answer, exchange, channel, book
  <2>2. turn = "trades" => Len(tape) # 0
    <3>1. tape # <<>> => Len(tape) # 0
      BY EmptySeq DEF BookInv, BookShape, IsSequence
    <3> QED
      BY <1>10, <3>1 DEF Answer
  <2>3. /\ answer' \in [of : {"book", "trades"}, at : Nat \ {0}] \cup {NoAnswer}
        /\ answer'.of = "trades" => answer'.at <= Len(tape)
    BY <1>2, <1>10, <2>2 DEF Answer, BookInv, BookShape
  <2>4. BookShape'
    BY <1>2, <2>1, <2>3 DEF BookInv, BookShape, Version
  <2>5. UNCHANGED <<feed, wire, sent, lossy, book>> /\ link' = link
    BY <2>1 DEF book
  <2> QED
    BY <1>3, <2>4, <2>5, BookUntouched
<1>11. CASE PollBook
  <2>1. /\ UNCHANGED <<feed, truth, tape, link, sent, told, wire>>
        /\ turn' = "trades" /\ answer' = NoAnswer
    BY <1>11 DEF PollBook, exchange, channel
  <2>2. BookShape'
    BY <1>2, <1>11, <2>1, PollBookBook DEF BookInv, BookShape, Version, NoAnswer
  <2> QED
    BY <1>11, <2>2, PollBookBook
<1>12. CASE PollBlank
  <2>1. /\ UNCHANGED <<feed, truth, tape, link, sent, told, wire, lossy>>
        /\ turn' = "trades" /\ answer' = NoAnswer
    BY <1>12 DEF PollBlank, exchange, channel
  <2>2. CASE feed \in OkxFeeds
    <3>1. UNCHANGED book
      BY <1>12, <2>2, History, BlankFacts DEF PollBlank
    <3>2. BookShape'
      BY <1>2, <2>1, <3>1 DEF BookInv, BookShape, Version, NoAnswer, book
    <3> QED
      BY <1>3, <2>1, <3>1, <3>2, BookUntouched
  <2>3. CASE feed \notin OkxFeeds
    <3>1. BookShape'
      BY <1>2, <1>12, <2>1, <2>3, PollBlankBook DEF BookInv, BookShape, Version, NoAnswer
    <3> QED
      BY <1>12, <2>3, <3>1, PollBlankBook
  <2> QED
    BY <2>2, <2>3
<1> QED
  BY <1>5, <1>6, <1>7, <1>8, <1>9, <1>10, <1>11, <1>12

\* The books of the exchange, the stream and the scraper fit together at all times.
THEOREM BookInvHolds == Spec => []BookInv
<1>1. Init => BookInv
  <2> SUFFICES ASSUME Init PROVE BookInv
    OBVIOUS
  <2>1. truth \in Seq(Books) /\ Len(truth) = 1
    BY FirstBookAssumption DEF Init
  <2>2. ViewInv
    BY ViewInvStarts
  <2>3. EmptyBook \in Books
    <3>1. EmptyBook \in [{} -> Sizes]
      BY DEF EmptyBook
    <3> QED
      BY <3>1, Zenon DEF Books
  <2>4. BookShape
    BY <2>1, <2>3, EmptyIsSequence, FeedAssumption, DepthAssumption
       DEF Init, BookShape, NoAnswer, NoBook, Version
  <2> QED
    BY <2>2, <2>4, EmptyIsSequence
       DEF Init, BookInv, Chain, NothingSkipped, LocalBookExact, ShownIsReal, NoBook
<1>2. BookInv /\ [Next]_vars => BookInv'
  <2>1. ASSUME BookInv, UNCHANGED vars PROVE BookInv'
    <3>1. TruthGrows
      BY <2>1, History DEF TruthGrows, vars, exchange, Version
    <3>2. WireOK' /\ Chain' /\ NothingSkipped' /\ LocalBookExact' /\ ShownIsReal'
      BY <2>1, <3>1, BookUntouched DEF vars, channel
    <3>3. ViewInv'
      BY <2>1 DEF BookInv, ViewInv, WireInOrder, OneOnTheWay, vars, exchange, channel, poll, book,
                  Version
    <3>4. BookShape'
      BY <2>1 DEF BookInv, BookShape, vars, exchange, channel, poll, book, Version
    <3> QED
      BY <3>2, <3>3, <3>4 DEF BookInv, WireOK
  <2> QED
    BY <2>1, ExchangeKeepsBooks, ScraperKeepsBooks DEF Next
<1> QED
  BY <1>1, <1>2, PTL DEF Spec

\* IncrementalBook: the local book maintained from a snapshot and deltas is the exchange's
\* book of the version shown, whatever prices, quantities and losses.
THEOREM LocalBookIsExact == Spec => []LocalBookExact
<1>1. BookInv => LocalBookExact
  BY DEF BookInv
<1> QED
  BY <1>1, BookInvHolds, PTL

\* _apply and rest_depth: a book shown that the scraper can be sure of is the best levels
\* of one version of the exchange's book, on every adapter and transport; after an answer
\* of status 200 without a book (get_json, base.py:374) it is empty, never part of another
\* version, not on OKX, and not once a stream has given its snapshot.
THEOREM BooksShownAreReal == Spec => []ShownIsReal
<1>1. BookInv => ShownIsReal
  BY DEF BookInv
<1> QED
  BY <1>1, BookInvHolds, PTL

-----------------------------------------------------------------------------
(* The trades table *)

\* An id is in the table once.
KeysDiffer(rows) ==
    \A i, j \in 1 .. Len(rows) :
        rows[i].trade_id # NoId /\ rows[i].trade_id = rows[j].trade_id => i = j

\* The ids a trade can have: the one asked for first or, where the adapter has one, the
\* second name; on MEXC that is made of the trade.
KeysOf(k, fd, tp) ==
    {<<"id", k>>} \cup (IF fd \in {"kucoin", "htx"} THEN {<<"other", k>>} ELSE {})
                  \cup (IF fd = "mexc" THEN {<<"syn", tp[k].stamp, tp[k].taker>>} ELSE {})

\* A row tells the truth about a trade of the tape.
RowTrue(r, fd, tp) ==
    /\ r = [trade_id |-> r.trade_id, side |-> r.side, no |-> r.no]
    /\ r.no \in 1 .. Len(tp)
    /\ r.trade_id \in KeysOf(r.no, fd, tp)
    /\ r.side = IF fd = "bingx" THEN NoSide ELSE tp[r.no].taker

\* Fills on the wire are those of trades on the tape.
FillsTrue(fills, tp) ==
    /\ IsSequence(fills)
    /\ \A i \in 1 .. Len(fills) :
          fills[i].id \in 1 .. Len(tp) /\ fills[i] = FillOf(fills[i].id, tp[fills[i].id])

\* An element of a frame or of an answer tells the trade of number k; it may lack the
\* name the adapter asks for first.
FillFits(e, k, trade) ==
    /\ e.id = k /\ e.named \in BOOLEAN
    /\ e.stamp = trade.stamp /\ e.taker = trade.taker /\ e.maker = Opposite(trade.taker)
    /\ e.buyer_is_maker = (trade.taker = "sell")
    /\ e.trade_type = IF trade.taker = "buy" THEN 1 ELSE 2

\* The table: a row for every trade handed on, no id twice.
TableOK(rows, out, fd, tp) ==
    /\ IsSequence(rows) /\ KeysDiffer(rows)
    /\ \A i \in 1 .. Len(rows) : RowTrue(rows[i], fd, tp)
    /\ out \subseteq 1 .. Len(tp)
    /\ \A k \in out : \E i \in 1 .. Len(rows) : rows[i].trade_id \in KeysOf(k, fd, tp)

TradesOnWire ==
    \A i \in 1 .. Len(wire) : wire[i].kind = "trades" => FillsTrue(wire[i].fills, tape)

TapeInv == TableOK(table, emitted, feed, tape) /\ TradesOnWire

\* What the table is after new rows: those it had and those of the new ones whose id
\* it did not have.
Takes(after, rows, new, n) ==
    /\ IsSequence(after)
    /\ \A i \in 1 .. Len(after) : \/ \E j \in 1 .. Len(rows) : after[i] = rows[j]
                                  \/ \E j \in 1 .. n : after[i] = new[j]
    /\ \A j \in 1 .. Len(rows) : \E i \in 1 .. Len(after) : after[i] = rows[j]
    /\ \A j \in 1 .. n : \E i \in 1 .. Len(after) : after[i].trade_id = new[j].trade_id
    /\ KeysDiffer(rows) => KeysDiffer(after)

\* The recursive function in AllStored exists, up to every length.
IsAfter(f, rows, new, n) ==
    f = [i \in 0 .. n |-> IF i = 0 THEN rows ELSE Stored(f[i - 1], new[i])]

LEMMA AfterExists ==
    ASSUME NEW rows, NEW new, NEW n \in Nat
    PROVE  \E f : IsAfter(f, rows, new, n)
<1> USE DEF IsAfter
<1> DEFINE Exists(k) ==
             \E f : f = [i \in 0 .. k |-> IF i = 0 THEN rows ELSE Stored(f[i - 1], new[i])]
           S == {k \in Nat : ~Exists(k)}
<1>1. SUFFICES ASSUME S # {} PROVE FALSE
  BY <1>1
<1>2. PICK m \in S : \A k \in S : m <= k
  <2>1. S \in SUBSET Nat
    OBVIOUS
  <2> HIDE DEF S
  <2> QED
    BY <1>1, <2>1, LeastNat
<1>3. m # 0
  <2>1. 0 .. 0 = {0}
    OBVIOUS
  <2> DEFINE f == [i \in 0 .. 0 |-> rows]
  <2>2. f = [i \in 0 .. 0 |-> IF i = 0 THEN rows ELSE Stored(f[i - 1], new[i])]
    BY <2>1
  <2>3. Exists(0)
    BY <2>2, Zenon
  <2> QED
    BY <1>2, <2>3
<1>4. m - 1 \in Nat /\ Exists(m - 1)
  <2> HIDE DEF Exists
  <2>1. m \in Nat /\ m - 1 \in Nat /\ ~(m <= m - 1)
    BY <1>2, <1>3
  <2>2. m - 1 \notin S
    BY <1>2, <2>1
  <2> QED
    BY <2>1, <2>2
<1>5. PICK f : f = [i \in 0 .. m - 1 |-> IF i = 0 THEN rows ELSE Stored(f[i - 1], new[i])]
  BY <1>4, Zenon
<1> DEFINE g == [i \in 0 .. m |-> IF i = m THEN Stored(f[m - 1], new[m]) ELSE f[i]]
<1>6. ASSUME NEW i \in 0 .. m
      PROVE  g[i] = IF i = 0 THEN rows ELSE Stored(g[i - 1], new[i])
  <2>1. CASE i = 0
    <3>1. f[0] = rows
      BY <1>4, <1>5
    <3> QED
      BY <1>3, <2>1, <3>1
  <2>2. CASE i \in 1 .. m - 1
    <3>1. f[i] = Stored(f[i - 1], new[i])
      BY <1>4, <1>5, <2>2
    <3>2. g[i] = f[i] /\ g[i - 1] = f[i - 1] /\ i # 0
      BY <1>4, <2>2
    <3> QED
      BY <3>1, <3>2
  <2>3. CASE i = m
    <3>1. g[i] = Stored(f[m - 1], new[m]) /\ g[i - 1] = f[m - 1]
      BY <1>4, <2>3
    <3> QED
      BY <1>3, <2>3, <3>1
  <2> QED
    BY <1>4, <2>1, <2>2, <2>3
<1>7. g = [i \in 0 .. m |-> g[i]]
  OBVIOUS
<1> HIDE DEF g
<1>8. g = [i \in 0 .. m |-> IF i = 0 THEN rows ELSE Stored(g[i - 1], new[i])]
  <2>1. [i \in 0 .. m |-> g[i]] = [i \in 0 .. m |-> IF i = 0 THEN rows ELSE Stored(g[i - 1], new[i])]
    BY <1>6, Zenon
  <2> QED
    BY <1>7, <2>1, Zenon
<1>9. Exists(m)
  BY <1>8, Zenon
<1> QED
  BY <1>2, <1>9

\* AllStored goes through the rows one by one.
LEMMA AllStoredSteps ==
    ASSUME NEW rows, NEW new, Len(new) \in Nat
    PROVE  \E f : /\ f[0] = rows
                  /\ \A i \in 1 .. Len(new) : f[i] = Stored(f[i - 1], new[i])
                  /\ AllStored(rows, new) = f[Len(new)]
<1> DEFINE n == Len(new)
           After[i \in 0 .. n] == IF i = 0 THEN rows ELSE Stored(After[i - 1], new[i])
<1>1. After = [i \in 0 .. n |-> IF i = 0 THEN rows ELSE Stored(After[i - 1], new[i])]
  <2>1. After = CHOOSE f : IsAfter(f, rows, new, n)
    BY Zenon DEF IsAfter
  <2> HIDE DEF After
  <2>2. \E f : IsAfter(f, rows, new, n)
    BY AfterExists
  <2>3. IsAfter(CHOOSE f : IsAfter(f, rows, new, n), rows, new, n)
    BY <2>2, Zenon
  <2>4. IsAfter(After, rows, new, n)
    BY <2>1, <2>3, Zenon
  <2> QED
    BY <2>4, Zenon DEF IsAfter
<1>2. AllStored(rows, new) = After[n]
  BY Zenon DEF AllStored
<1> HIDE DEF After
<1>3. After[0] = rows
  BY <1>1
<1>4. ASSUME NEW i \in 1 .. n PROVE After[i] = Stored(After[i - 1], new[i])
  BY <1>1
<1> QED
  BY <1>2, <1>3, <1>4

\* One row: ux_trade.
LEMMA StoredTakes ==
    ASSUME NEW rows, NEW new, NEW n \in Nat, NEW before, Takes(before, rows, new, n)
    PROVE  Takes(Stored(before, new[n + 1]), rows, new, n + 1)
<1> DEFINE row == new[n + 1]
           after == Stored(before, row)
<1>1. /\ IsSequence(Append(before, row)) /\ Len(before) \in Nat
      /\ DOMAIN before = 1 .. Len(before)
      /\ Len(Append(before, row)) = Len(before) + 1
      /\ \A i \in 1 .. Len(before) : Append(before, row)[i] = before[i]
      /\ Append(before, row)[Len(before) + 1] = row
  BY AppendOne, SequenceDomain DEF Takes
<1>2. CASE row.trade_id # NoId /\ \E i \in DOMAIN before : before[i].trade_id = row.trade_id
  <2>1. after = before
    BY <1>2, Zenon DEF Stored
  <2>2. \A j \in 1 .. n + 1 : \E i \in 1 .. Len(before) : before[i].trade_id = new[j].trade_id
    <3>1. \E i \in 1 .. Len(before) : before[i].trade_id = row.trade_id
      BY <1>1, <1>2
    <3>2. \A j \in 1 .. n : \E i \in 1 .. Len(before) : before[i].trade_id = new[j].trade_id
      BY DEF Takes
    <3>3. \A j \in 1 .. n + 1 : j \in 1 .. n \/ j = n + 1
      OBVIOUS
    <3> QED
      BY <3>1, <3>2, <3>3, Zenon
  <2>3. \A i \in 1 .. Len(before) : \/ \E j \in 1 .. Len(rows) : before[i] = rows[j]
                                    \/ \E j \in 1 .. n + 1 : before[i] = new[j]
    BY DEF Takes
  <2> HIDE DEF after
  <2> QED
    BY <2>1, <2>2, <2>3 DEF Takes, after
<1>3. CASE ~(row.trade_id # NoId /\ \E i \in DOMAIN before : before[i].trade_id = row.trade_id)
  <2>1. after = Append(before, row)
    BY <1>3, Zenon DEF Stored
  <2> HIDE DEF after
  <2>2. /\ IsSequence(after) /\ Len(after) = Len(before) + 1
        /\ \A i \in 1 .. Len(before) : after[i] = before[i]
        /\ after[Len(before) + 1] = row
    BY <1>1, <2>1
  <2>3. ASSUME NEW i \in 1 .. Len(after)
        PROVE  \/ \E j \in 1 .. Len(rows) : after[i] = rows[j]
               \/ \E j \in 1 .. n + 1 : after[i] = new[j]
    <3>1. CASE i = Len(before) + 1
      BY <2>2, <3>1
    <3>2. CASE i \in 1 .. Len(before)
      <4>1. \/ \E j \in 1 .. Len(rows) : before[i] = rows[j]
            \/ \E j \in 1 .. n : before[i] = new[j]
        BY <3>2, Zenon DEF Takes
      <4>2. after[i] = before[i] /\ \A j \in 1 .. n : j \in 1 .. n + 1
        BY <2>2, <3>2
      <4> QED
        BY <4>1, <4>2, Zenon
    <3> QED
      BY <1>1, <2>2, <3>1, <3>2
  <2>4. ASSUME NEW j \in 1 .. Len(rows)
        PROVE  \E i \in 1 .. Len(after) : after[i] = rows[j]
    <3>1. PICK i \in 1 .. Len(before) : before[i] = rows[j]
      BY DEF Takes
    <3> QED
      BY <1>1, <2>2, <3>1
  <2>5. ASSUME NEW j \in 1 .. n + 1
        PROVE  \E i \in 1 .. Len(after) : after[i].trade_id = new[j].trade_id
    <3>1. CASE j = n + 1
      BY <1>1, <2>2, <3>1
    <3>2. CASE j \in 1 .. n
      <4>1. PICK i \in 1 .. Len(before) : before[i].trade_id = new[j].trade_id
        BY <3>2 DEF Takes
      <4> QED
        BY <1>1, <2>2, <4>1
    <3> QED
      BY <3>1, <3>2
  <2>6. ASSUME KeysDiffer(rows), NEW i \in 1 .. Len(after), NEW j \in 1 .. Len(after),
               after[i].trade_id # NoId, after[i].trade_id = after[j].trade_id
        PROVE  i = j
    <3>1. KeysDiffer(before)
      BY <2>6 DEF Takes
    <3>2. CASE i \in 1 .. Len(before) /\ j \in 1 .. Len(before)
      BY <2>2, <2>6, <3>1, <3>2 DEF KeysDiffer
    <3>3. CASE i = Len(before) + 1 /\ j \in 1 .. Len(before)
      BY <1>1, <1>3, <2>2, <2>6, <3>3
    <3>4. CASE i \in 1 .. Len(before) /\ j = Len(before) + 1
      BY <1>1, <1>3, <2>2, <2>6, <3>4
    <3> QED
      BY <1>1, <2>2, <3>2, <3>3, <3>4
  <2> QED
    BY <2>2, <2>3, <2>4, <2>5, <2>6 DEF Takes, KeysDiffer, after
<1> QED
  BY <1>2, <1>3

\* All of them.
LEMMA AllStoredTakes ==
    ASSUME NEW rows, IsSequence(rows), NEW new, Len(new) \in Nat
    PROVE  Takes(AllStored(rows, new), rows, new, Len(new))
<1>1. PICK f : /\ f[0] = rows
               /\ \A i \in 1 .. Len(new) : f[i] = Stored(f[i - 1], new[i])
               /\ AllStored(rows, new) = f[Len(new)]
  BY AllStoredSteps, Zenon
<1> DEFINE S == {k \in Nat : k <= Len(new) /\ ~Takes(f[k], rows, new, k)}
<1>2. CASE S = {}
  BY <1>1, <1>2
<1>3. CASE S # {}
  <2>1. PICK m \in S : \A k \in S : m <= k
    <3>1. S \in SUBSET Nat
      OBVIOUS
    <3> HIDE DEF S
    <3> QED
      BY <1>3, <3>1, LeastNat
  <2>2. m # 0
    <3>1. Takes(rows, rows, new, 0)
      BY DEF Takes
    <3> QED
      BY <1>1, <2>1, <3>1
  <2>3. m - 1 \in Nat /\ m \in 1 .. Len(new) /\ Takes(f[m - 1], rows, new, m - 1)
    BY <2>1, <2>2
  <2>4. Takes(Stored(f[m - 1], new[(m - 1) + 1]), rows, new, (m - 1) + 1)
    BY <2>3, StoredTakes
  <2>5. (m - 1) + 1 = m /\ f[m] = Stored(f[m - 1], new[m])
    BY <1>1, <2>3
  <2> QED
    BY <2>1, <2>4, <2>5
<1> QED
  BY <1>2, <1>3

-----------------------------------------------------------------------------
\* What an adapter makes of a fill: the taker's side, and one of the trade's ids.
LEMMA TradeFacts ==
    ASSUME NEW fd \in Feeds, NEW tp, NEW k \in 1 .. Len(tp),
           tp[k] \in [stamp : Stamps, taker : {"buy", "sell"}],
           NEW e, FillFits(e, k, tp[k])
    PROVE  LET side == IF fd = "bingx" THEN NoSide ELSE tp[k].taker
           IN  /\ StreamTrade(fd, e).trade_id \in KeysOf(k, fd, tp)
               /\ StreamTrade(fd, e).side = side
               /\ RestTrade(fd, e).trade_id \in KeysOf(k, fd, tp)
               /\ RestTrade(fd, e).side = side
<1> DEFINE side == IF fd = "bingx" THEN NoSide ELSE tp[k].taker
<1>1. /\ e.id = k /\ e.named \in BOOLEAN
      /\ e.stamp = tp[k].stamp /\ e.taker = tp[k].taker
      /\ e.maker = Opposite(tp[k].taker)
      /\ e.buyer_is_maker = (tp[k].taker = "sell")
      /\ e.trade_type = IF tp[k].taker = "buy" THEN 1 ELSE 2
      /\ tp[k].taker \in {"buy", "sell"}
  BY DEF FillFits
<1>2. StreamTrade(fd, e).trade_id \in KeysOf(k, fd, tp) /\ StreamTrade(fd, e).side = side
  <2>1. CASE fd \in Chained \cup Fixed \cup {"bybit", "kucoin", "gate", "htx"}
    <3>1. /\ StreamTrade(fd, e).side = NormaliseSide(e.taker)
          /\ StreamTrade(fd, e).trade_id =
                 IF fd \in {"kucoin", "htx"} THEN IdElse(e) ELSE <<"id", e.id>>
      BY <2>1 DEF OkxFeeds, StreamTrade, OkxTrade, BitgetTrade, BybitTrade, KucoinTrade, GateTrade, HtxTrade,
                  Chained, Fixed
    <3>2. NormaliseSide(e.taker) = tp[k].taker
      BY <1>1 DEF NormaliseSide
    <3>3. fd # "bingx"
      BY <2>1 DEF Chained, Fixed
    <3>4. StreamTrade(fd, e).trade_id \in KeysOf(k, fd, tp)
      BY <1>1, <3>1 DEF IdElse, KeysOf
    <3> QED
      BY <3>1, <3>2, <3>3, <3>4
  <2>2. CASE fd = "coinbase"
    <3>1. NormaliseSide(e.maker) = e.maker /\ e.maker # NoSide /\ InvertSide(e.maker) = e.taker
      BY <1>1 DEF NormaliseSide, InvertSide, Opposite, NoSide
    <3>2. StreamTrade(fd, e) = CoinbaseTrade(e)
      BY <2>2 DEF StreamTrade
    <3> QED
      BY <1>1, <2>2, <3>1, <3>2 DEF CoinbaseTrade, KeysOf
  <2>3. CASE fd = "binance"
    BY <1>1, <2>3 DEF OkxFeeds, StreamTrade, BinanceTrade, TakerFromBuyerMaker, KeysOf
  <2>4. CASE fd = "bingx"
    BY <1>1, <2>4 DEF OkxFeeds, StreamTrade, BingxTrade, KeysOf
  <2>5. CASE fd = "mexc"
    BY <1>1, <2>5 DEF OkxFeeds, StreamTrade, MexcTrade, SideFromTradeType, KeysOf
  <2> QED
    BY <2>1, <2>2, <2>3, <2>4, <2>5 DEF Feeds, Chained, Unchained, Fixed, Pushers
<1>3. CASE fd \notin {"bybit", "bingx", "mexc"}
  BY <1>2, <1>3 DEF RestTrade
<1>4. CASE fd \in {"bybit", "bingx"}
  <2>1. RestTrade(fd, e) = IF fd = "bybit" THEN BybitRestTrade(e) ELSE BingxRestTrade(e)
    BY <1>4 DEF RestTrade
  <2>2. <<"id", k>> \in KeysOf(k, fd, tp)
    BY DEF KeysOf
  <2> QED
    BY <1>1, <1>2, <1>4, <2>1, <2>2 DEF BybitRestTrade, BingxRestTrade, NormaliseSide
<1>5. CASE fd = "mexc"
  <2>1. RestTrade(fd, e) = MexcRestTrade(e)
    BY <1>5 DEF RestTrade
  <2> DEFINE ofTaker == IF e.buyer_is_maker THEN "sell" ELSE "buy"
  <2>2. ofTaker = tp[k].taker
    BY <1>1
  <2>3. /\ MexcRestTrade(e).side = ofTaker
        /\ MexcRestTrade(e).trade_id = IF e.named THEN <<"id", e.id>> ELSE <<"syn", e.stamp, ofTaker>>
    BY Zenon DEF MexcRestTrade
  <2> HIDE DEF ofTaker
  <2>4. RestTrade(fd, e).side = side
    BY <1>5, <2>1, <2>2, <2>3
  <2>5. RestTrade(fd, e).trade_id \in {<<"id", k>>, <<"syn", tp[k].stamp, tp[k].taker>>}
    BY <1>1, <2>1, <2>2, <2>3
  <2> QED
    BY <1>2, <1>5, <2>4, <2>5 DEF KeysOf
<1> QED
  BY <1>2, <1>3, <1>4, <1>5

\* What is true of the tape stays true when it grows.
LEMMA TapeGrows ==
    ASSUME NEW tp, NEW more, Len(tp) \in Nat, Len(more) \in Nat, Len(tp) <= Len(more),
           \A i \in 1 .. Len(tp) : more[i] = tp[i]
    PROVE  /\ \A rows, out, fd : TableOK(rows, out, fd, tp) => TableOK(rows, out, fd, more)
           /\ \A fills : FillsTrue(fills, tp) => FillsTrue(fills, more)
<1>1. ASSUME NEW k \in 1 .. Len(tp), NEW fd
      PROVE  k \in 1 .. Len(more) /\ KeysOf(k, fd, more) = KeysOf(k, fd, tp) /\ more[k] = tp[k]
  BY <1>1 DEF KeysOf
<1>2. ASSUME NEW rows, NEW out, NEW fd, TableOK(rows, out, fd, tp)
      PROVE  TableOK(rows, out, fd, more)
  <2>1. ASSUME NEW i \in 1 .. Len(rows) PROVE RowTrue(rows[i], fd, more)
    <3>1. RowTrue(rows[i], fd, tp)
      BY <1>2 DEF TableOK
    <3> QED
      BY <1>1, <3>1, Zenon DEF RowTrue
  <2>2. out \subseteq 1 .. Len(more)
    BY <1>1, <1>2 DEF TableOK
  <2>3. \A k \in out : \E i \in 1 .. Len(rows) : rows[i].trade_id \in KeysOf(k, fd, more)
    BY <1>1, <1>2, Zenon DEF TableOK
  <2> QED
    BY <1>2, <2>1, <2>2, <2>3, Zenon DEF TableOK
<1>3. ASSUME NEW fills, FillsTrue(fills, tp) PROVE FillsTrue(fills, more)
  BY <1>1, <1>3, Zenon DEF FillsTrue
<1> QED
  BY <1>2, <1>3, Zenon

\* _emit_trade and the index: the table stays as it should be.
LEMMA EmitKeepsTable ==
    ASSUME TableOK(table, emitted, feed, tape),
           NEW found, NEW fills, NEW n \in Nat, DOMAIN found = 1 .. n, DOMAIN fills = 1 .. n,
           \A i \in 1 .. n :
              /\ fills[i].id \in 1 .. Len(tape)
              /\ found[i].trade_id \in KeysOf(fills[i].id, feed, tape)
              /\ found[i].side = IF feed = "bingx" THEN NoSide ELSE tape[fills[i].id].taker,
           Emit(found, fills)
    PROVE  TableOK(table', emitted', feed, tape)
<1> DEFINE new == [i \in 1 .. n |-> [trade_id |-> found[i].trade_id, side |-> found[i].side,
                                      no |-> fills[i].id]]
<1>1. table' = AllStored(table, new) /\ emitted' = emitted \cup {fills[i].id : i \in 1 .. n}
  BY DEF Emit
<1>2. Len(new) = n
  BY FunctionIsSequence
<1>3. ASSUME NEW i \in 1 .. n
      PROVE  /\ new[i] = [trade_id |-> new[i].trade_id, side |-> new[i].side, no |-> new[i].no]
             /\ new[i].no = fills[i].id
             /\ new[i].trade_id = found[i].trade_id
             /\ RowTrue(new[i], feed, tape)
  BY DEF RowTrue
<1> HIDE DEF new
<1>4. Takes(table', table, new, n)
  BY <1>1, <1>2, AllStoredTakes DEF TableOK
<1>5. IsSequence(table') /\ KeysDiffer(table')
  BY <1>4, Zenon DEF Takes, TableOK
<1>6. ASSUME NEW i \in 1 .. Len(table') PROVE RowTrue(table'[i], feed, tape)
  <2>1. \/ \E j \in 1 .. Len(table) : table'[i] = table[j]
        \/ \E j \in 1 .. n : table'[i] = new[j]
    BY <1>4, Zenon DEF Takes
  <2> QED
    BY <1>3, <2>1, Zenon DEF TableOK
<1>7. ASSUME NEW k \in emitted'
      PROVE  /\ k \in 1 .. Len(tape)
             /\ \E i \in 1 .. Len(table') : table'[i].trade_id \in KeysOf(k, feed, tape)
  <2>1. CASE k \in emitted
    <3>1. k \in 1 .. Len(tape)
      BY <2>1 DEF TableOK
    <3>2. PICK j \in 1 .. Len(table) : table[j].trade_id \in KeysOf(k, feed, tape)
      BY <2>1, Zenon DEF TableOK
    <3>3. \E i \in 1 .. Len(table') : table'[i] = table[j]
      BY <1>4, Zenon DEF Takes
    <3> QED
      BY <3>1, <3>2, <3>3, Zenon
  <2>2. ASSUME NEW j \in 1 .. n, k = fills[j].id
        PROVE  /\ k \in 1 .. Len(tape)
               /\ \E i \in 1 .. Len(table') : table'[i].trade_id \in KeysOf(k, feed, tape)
    <3>1. \E i \in 1 .. Len(table') : table'[i].trade_id = new[j].trade_id
      BY <1>4, Zenon DEF Takes
    <3> QED
      BY <1>3, <2>2, <3>1, Zenon
  <2> QED
    BY <1>1, <2>1, <2>2, Zenon
<1> QED
  BY <1>5, <1>6, <1>7, Zenon DEF TableOK

\* Frames that go, and frames about the book that come, leave the trades in flight.
LEMMA TradesStay ==
    ASSUME TradesOnWire, IsSequence(wire), tape' = tape,
           \/ wire' = wire \/ wire' = <<>>
           \/ wire # <<>> /\ wire' = Tail(wire)
           \/ \E frame : frame.kind # "trades" /\ wire' = Append(wire, frame)
    PROVE  TradesOnWire'
<1>1. CASE wire' = wire
  BY <1>1 DEF TradesOnWire
<1>2. CASE wire' = <<>>
  BY <1>2, EmptyIsSequence DEF TradesOnWire
<1>3. CASE wire # <<>> /\ wire' = Tail(wire)
  <2>1. ASSUME NEW i \in 1 .. Len(wire'), wire'[i].kind = "trades"
        PROVE  FillsTrue(wire'[i].fills, tape)
    <3>1. wire'[i] = wire[i + 1] /\ i + 1 \in 1 .. Len(wire)
      BY <1>3, TakeOne
    <3> QED
      BY <2>1, <3>1 DEF TradesOnWire
  <2> QED
    BY <2>1 DEF TradesOnWire
<1>4. ASSUME NEW frame, frame.kind # "trades", wire' = Append(wire, frame)
      PROVE  TradesOnWire'
  <2>1. ASSUME NEW i \in 1 .. Len(wire'), wire'[i].kind = "trades"
        PROVE  FillsTrue(wire'[i].fills, tape)
    <3>1. wire'[i] = wire[i] /\ i \in 1 .. Len(wire)
      <4>1. /\ Len(wire') = Len(wire) + 1 /\ Len(wire) \in Nat
            /\ wire'[Len(wire) + 1] = frame
            /\ \A k \in 1 .. Len(wire) : wire'[k] = wire[k]
        BY <1>4, AppendOne
      <4>2. i # Len(wire) + 1
        BY <1>4, <2>1, <4>1
      <4> QED
        BY <2>1, <4>1, <4>2
    <3> QED
      BY <2>1, <3>1 DEF TradesOnWire
  <2> QED
    BY <2>1 DEF TradesOnWire
<1> QED
  BY <1>1, <1>2, <1>3, <1>4

\* Trades that leave the exchange are those of the tape.
LEMMA PushTradesTape ==
    ASSUME BookInv, TradesOnWire, PushTrades
    PROVE  TradesOnWire'
<1> DEFINE n == Len(tape) - told
           fills == Fills(told)
           frame == [Frame("trades", <<>>, NoSeq) EXCEPT !.fills = fills]
<1>1. /\ n \in Nat /\ told \in Nat /\ Len(tape) \in Nat
      /\ wire' = Append(wire, frame) /\ IsSequence(wire) /\ tape' = tape
  BY AppendOne DEF PushTrades, exchange, BookInv, BookShape, ViewInv, WireInOrder
<1>2. frame.fills = fills
  BY DEF Frame
<1>3. fills = [i \in 1 .. n |-> FillOf(told + i, tape[told + i])]
  BY DEF Fills, Fill
<1> HIDE DEF frame, fills
<1>4. IsSequence(fills) /\ Len(fills) = n
  <2>1. fills = [i \in 1 .. n |-> fills[i]]
    BY <1>3
  <2> QED
    BY <1>1, <2>1, FunctionIsSequence
<1>5. ASSUME NEW i \in 1 .. n
      PROVE  fills[i].id \in 1 .. Len(tape) /\ fills[i] = FillOf(fills[i].id, tape[fills[i].id])
  <2>1. fills[i] = FillOf(told + i, tape[told + i]) /\ told + i \in 1 .. Len(tape)
    BY <1>1, <1>3
  <2>2. fills[i].id = told + i
    BY <2>1 DEF FillOf
  <2> QED
    BY <2>1, <2>2
<1>6. FillsTrue(fills, tape)
  BY <1>4, <1>5 DEF FillsTrue
<1>7. /\ Len(wire') = Len(wire) + 1 /\ Len(wire) \in Nat
      /\ wire'[Len(wire) + 1] = frame
      /\ \A k \in 1 .. Len(wire) : wire'[k] = wire[k]
  BY <1>1, AppendOne
<1>8. ASSUME NEW i \in 1 .. Len(wire'), wire'[i].kind = "trades"
      PROVE  FillsTrue(wire'[i].fills, tape)
  <2>1. CASE i = Len(wire) + 1
    BY <1>2, <1>6, <1>7, <2>1
  <2>2. CASE i \in 1 .. Len(wire)
    BY <1>7, <1>8, <2>2 DEF TradesOnWire
  <2> QED
    BY <1>7, <2>1, <2>2
<1> QED
  BY <1>1, <1>8 DEF TradesOnWire

\* Trades of a frame, and of an answer to a poll.
LEMMA HandleTradesTape ==
    ASSUME BookInv, TapeInv, HandleTrades
    PROVE  TableOK(table', emitted', feed, tape)
<1> DEFINE fills == wire[1].fills
           found == [i \in DOMAIN fills |-> StreamTrade(feed, fills[i])]
           n == Len(fills)
<1>1. /\ 1 \in 1 .. Len(wire) /\ wire[1].kind = "trades" /\ Emit(found, fills)
  BY TakeOne DEF HandleTrades, TakeFrame, Arriving, BookInv, ViewInv, WireInOrder
<1>2. FillsTrue(fills, tape)
  BY <1>1 DEF TapeInv, TradesOnWire
<1> HIDE DEF fills
<1>3. n \in Nat /\ DOMAIN fills = 1 .. n /\ DOMAIN found = 1 .. n
  BY <1>2, SequenceDomain DEF FillsTrue
<1>4. ASSUME NEW i \in 1 .. n
      PROVE  /\ fills[i].id \in 1 .. Len(tape)
             /\ found[i].trade_id \in KeysOf(fills[i].id, feed, tape)
             /\ found[i].side = IF feed = "bingx" THEN NoSide ELSE tape[fills[i].id].taker
  <2>1. fills[i].id \in 1 .. Len(tape) /\ fills[i] = FillOf(fills[i].id, tape[fills[i].id])
    BY <1>2, Zenon DEF FillsTrue
  <2>2. found[i] = StreamTrade(feed, fills[i])
    BY <1>3
  <2>3. /\ feed \in Feeds
        /\ tape[fills[i].id] \in [stamp : Stamps, taker : {"buy", "sell"}]
    BY <2>1, History DEF BookInv, BookShape
  <2>4. FillFits(fills[i], fills[i].id, tape[fills[i].id])
    <3> DEFINE k == fills[i].id
    <3>1. fills[i] = FillOf(k, tape[k])
      BY <2>1
    <3> HIDE DEF k
    <3>2. FillFits(FillOf(k, tape[k]), k, tape[k])
      BY DEF FillFits, FillOf
    <3> QED
      BY <3>1, <3>2 DEF k
  <2> QED
    BY <2>1, <2>2, <2>3, <2>4, TradeFacts
<1> HIDE DEF found, n
<1> QED
  BY <1>1, <1>3, <1>4, EmitKeepsTable DEF TapeInv

LEMMA PollTradesTape ==
    ASSUME BookInv, TapeInv, PollTrades
    PROVE  TableOK(table', emitted', feed, tape)
<1>1. PICK named \in BOOLEAN :
        /\ answer.of = "trades"
        /\ Emit([i \in 1 .. answer.at |-> RestTrade(feed, Polled(i, named))],
                [i \in 1 .. answer.at |-> Polled(i, named)])
  BY DEF PollTrades
<1> DEFINE n == answer.at
           fills == [i \in 1 .. n |-> Polled(i, named)]
           found == [i \in 1 .. n |-> RestTrade(feed, Polled(i, named))]
<1>2. n \in Nat /\ n <= Len(tape) /\ Len(tape) \in Nat
  BY <1>1, AppendOne DEF BookInv, BookShape, NoAnswer
<1>3. Emit(found, fills)
  BY <1>1
<1> HIDE DEF n
<1>4. DOMAIN fills = 1 .. n /\ DOMAIN found = 1 .. n
  OBVIOUS
<1>5. ASSUME NEW i \in 1 .. n
      PROVE  /\ fills[i].id \in 1 .. Len(tape)
             /\ found[i].trade_id \in KeysOf(fills[i].id, feed, tape)
             /\ found[i].side = IF feed = "bingx" THEN NoSide ELSE tape[fills[i].id].taker
  <2>1. i \in 1 .. Len(tape) /\ FillFits(fills[i], i, tape[i])
    BY <1>2 DEF Polled, Fill, FillOf, FillFits
  <2>2. found[i] = RestTrade(feed, fills[i]) /\ fills[i].id = i
    BY <2>1 DEF FillFits
  <2>3. /\ feed \in Feeds
        /\ tape[i] \in [stamp : Stamps, taker : {"buy", "sell"}]
    BY <2>1, History DEF BookInv, BookShape
  <2> HIDE DEF found, fills
  <2> QED
    BY <2>1, <2>2, <2>3, TradeFacts
<1> HIDE DEF found, fills
<1> QED
  BY <1>2, <1>3, <1>4, <1>5, EmitKeepsTable DEF TapeInv

\* Every step.
LEMMA StepKeepsTape ==
    ASSUME BookInv, TapeInv, [Next]_vars
    PROVE  TapeInv'
<1>1. IsSequence(wire) /\ Len(tape) \in Nat /\ IsSequence(tape)
  BY AppendOne DEF BookInv, BookShape, ViewInv, WireInOrder
<1>2. ASSUME feed' = feed, tape' = tape, UNCHANGED trades, TradesOnWire' PROVE TapeInv'
  BY <1>2 DEF TapeInv, trades
<1>3. CASE UNCHANGED vars
  BY <1>1, <1>2, <1>3, TradesStay DEF vars, exchange, channel, TapeInv
<1>4. CASE \E b \in Books : Quote(b)
  BY <1>1, <1>2, <1>4, TradesStay DEF Quote, channel, TapeInv
<1>5. ASSUME NEW stamp \in Stamps, NEW taker \in {"buy", "sell"}, Match(stamp, taker)
      PROVE  TapeInv'
  <2>1. /\ tape' = Append(tape, [stamp |-> stamp, taker |-> taker])
        /\ UNCHANGED <<feed, wire, table, emitted>>
    BY <1>5 DEF Match, channel, trades
  <2>2. Len(tape') \in Nat /\ Len(tape) <= Len(tape') /\ \A i \in 1 .. Len(tape) : tape'[i] = tape[i]
    BY <1>1, <2>1, AppendOne
  <2>3. TableOK(table, emitted, feed, tape') /\ \A fills : FillsTrue(fills, tape) => FillsTrue(fills, tape')
    BY <1>1, <2>2, TapeGrows, Zenon DEF TapeInv
  <2> QED
    BY <2>1, <2>3 DEF TapeInv, TradesOnWire
<1>6. ASSUME NEW kind, kind # "trades", NEW levels, NEW prev, Send(Frame(kind, levels, prev))
      PROVE  TapeInv'
  <2> DEFINE frame == Frame(kind, levels, prev)
  <2>1. frame.kind # "trades"
    BY <1>6 DEF Frame
  <2>2. /\ UNCHANGED <<feed, tape>> /\ UNCHANGED trades
        /\ wire' = wire \/ wire' = Append(wire, frame)
    BY <1>6 DEF Send, exchange
  <2> HIDE DEF frame
  <2>3. TradesOnWire'
    BY <1>1, <2>1, <2>2, TradesStay DEF TapeInv
  <2> QED
    BY <1>2, <2>2, <2>3
<1>7. CASE PushSnapshot \/ PushDelta \/ PushTop
  BY <1>6, <1>7 DEF PushSnapshot, PushDelta, PushTop
<1>8. CASE PushTrades
  BY <1>2, <1>8, PushTradesTape DEF PushTrades, exchange, TapeInv
<1>9. CASE Connect \/ Drop \/ HandleGap
  BY <1>1, <1>2, <1>9, TradesStay DEF Connect, Drop, HandleGap, Down, exchange, TapeInv
<1>10. CASE HandleUpdate \/ HandleNothing
  BY <1>1, <1>2, <1>10, TradesStay DEF HandleUpdate, HandleNothing, TakeFrame, exchange, TapeInv
<1>11. CASE StartRest \/ Answer \/ PollBook \/ PollBlank \/ PollFails \/ StopRest
  BY <1>1, <1>2, <1>11, TradesStay
     DEF StartRest, Answer, PollBook, PollBlank, PollFails, StopRest, exchange, channel,
         TapeInv
<1>12. CASE HandleTrades
  <2>1. UNCHANGED <<feed, tape>> /\ TradesOnWire'
    BY <1>1, <1>12, TradesStay DEF HandleTrades, TakeFrame, exchange, TapeInv
  <2> QED
    BY <1>12, <2>1, HandleTradesTape DEF TapeInv
<1>13. CASE PollTrades
  <2>1. UNCHANGED <<feed, tape>> /\ TradesOnWire'
    BY <1>1, <1>13, TradesStay DEF PollTrades, exchange, channel, TapeInv
  <2> QED
    BY <1>13, <2>1, PollTradesTape DEF TapeInv
<1> QED
  BY <1>3, <1>4, <1>5, <1>7, <1>8, <1>9, <1>10, <1>11, <1>12, <1>13 DEF Next

\* Rows and trades handed on fit the exchange's tape at all times.
THEOREM TapeInvHolds == Spec => []TapeInv
<1>1. Init => TapeInv
  <2> SUFFICES ASSUME Init PROVE TapeInv
    OBVIOUS
  <2>1. wire = <<>> /\ table = <<>> /\ emitted = {} /\ Len(<<>>) = 0
    BY EmptyIsSequence DEF Init
  <2> QED
    BY <2>1, EmptyIsSequence DEF TapeInv, TableOK, TradesOnWire, KeysDiffer
<1>2. BookInv /\ TapeInv /\ [Next]_vars => TapeInv'
  BY StepKeepsTape
<1> QED
  BY <1>1, <1>2, BookInvHolds, PTL DEF Spec

\* README.md:100 and the index ux_trade: a trade is one row, however often stream, replay
\* and overlapping polls deliver it; on KuCoin, HTX and MEXC, where the code has a second
\* name of a trade, one row per kind of name.
THEOREM TradesStoredOnce == Spec => []OncePerTrade
<1>1. TapeInv => OncePerTrade
  <2> SUFFICES ASSUME TapeInv, NEW i \in DOMAIN table, NEW j \in DOMAIN table,
                      table[i].no = table[j].no,
                      feed \in Substitutes => table[i].trade_id[1] = table[j].trade_id[1]
               PROVE  i = j
    BY DEF OncePerTrade
  <2>1. i \in 1 .. Len(table) /\ j \in 1 .. Len(table)
    BY SequenceDomain DEF TapeInv, TableOK
  <2>2. /\ table[i].trade_id \in KeysOf(table[i].no, feed, tape)
        /\ table[j].trade_id \in KeysOf(table[i].no, feed, tape)
    BY <2>1 DEF TapeInv, TableOK, RowTrue
  <2>3. table[i].trade_id # NoId /\ table[i].trade_id = table[j].trade_id
    BY <2>2 DEF KeysOf, Substitutes, NoId
  <2> QED
    BY <2>1, <2>3 DEF TapeInv, TableOK, KeysDiffer
<1> QED
  BY <1>1, TapeInvHolds, PTL

\* README.md:101: every trade handed to the writer has its row, or on MEXC the row of
\* a fill of the same stamp and side.
THEOREM NoTradeDropped == Spec => []EveryTradeKept
<1>1. TapeInv => EveryTradeKept
  <2> SUFFICES ASSUME TapeInv, NEW k \in emitted
               PROVE  \E i \in DOMAIN table :
                         \/ table[i].no = k
                         \/ /\ feed = "mexc"
                            /\ table[i].trade_id = <<"syn", tape[k].stamp, tape[k].taker>>
    BY DEF EveryTradeKept
  <2>1. PICK i \in 1 .. Len(table) : table[i].trade_id \in KeysOf(k, feed, tape)
    BY DEF TapeInv, TableOK
  <2>2. i \in DOMAIN table
    BY SequenceDomain DEF TapeInv, TableOK
  <2>3. RowTrue(table[i], feed, tape)
    BY DEF TapeInv, TableOK
  <2>4. CASE table[i].trade_id \in {<<"id", k>>, <<"other", k>>}
    <3>1. table[i].no = k
      BY <2>3, <2>4 DEF RowTrue, KeysOf
    <3> QED
      BY <2>2, <3>1
  <2>5. CASE feed = "mexc" /\ table[i].trade_id = <<"syn", tape[k].stamp, tape[k].taker>>
    BY <2>2, <2>5
  <2> QED
    BY <2>1, <2>4, <2>5 DEF KeysOf
<1> QED
  BY <1>1, TapeInvHolds, PTL

\* The side of every row is the taker's, on every adapter and transport; BingX leaves it
\* open.
THEOREM SidesAreTakers == Spec => []SideIsTakers
<1>1. TapeInv => SideIsTakers
  <2> SUFFICES ASSUME TapeInv, NEW i \in DOMAIN table
               PROVE  table[i].side = IF feed = "bingx" THEN NoSide ELSE tape[table[i].no].taker
    BY DEF SideIsTakers
  <2>1. i \in 1 .. Len(table)
    BY SequenceDomain DEF TapeInv, TableOK
  <2>2. RowTrue(table[i], feed, tape)
    BY <2>1 DEF TapeInv, TableOK
  <2> QED
    BY <2>2 DEF RowTrue
<1> QED
  BY <1>1, TapeInvHolds, PTL

\* Feed's state keeps its type.
THEOREM FeedTypeCorrect == Spec => []TypeOK
<1>1. BookInv /\ TapeInv => TypeOK
  <2> SUFFICES ASSUME BookInv, TapeInv PROVE TypeOK
    OBVIOUS
  <2>1. /\ Len(truth) \in Nat \ {0} /\ Len(tape) \in Nat /\ MaxEvents \in Nat
        /\ Len(truth) + Len(tape) <= MaxEvents + 1
        /\ DOMAIN tape = 1 .. Len(tape) /\ DOMAIN table = 1 .. Len(table)
    BY AppendOne, SequenceDomain, FeedAssumption
       DEF BookInv, ViewInv, BookShape, TapeInv, TableOK
  <2>2. Len(truth) \in 1 .. MaxEvents + 1 /\ Len(tape) <= MaxEvents
    BY <2>1
  <2>3. ASSUME NEW i \in DOMAIN table PROVE table[i] \in Rows
    <3>1. RowTrue(table[i], feed, tape)
      BY <2>1 DEF TapeInv, TableOK
    <3>2. /\ table[i].no \in 1 .. MaxEvents
          /\ tape[table[i].no].stamp \in Stamps /\ tape[table[i].no].taker \in {"buy", "sell"}
      BY <2>1, <2>2, <3>1 DEF RowTrue, BookInv, BookShape
    <3>3. table[i].side \in {"buy", "sell", NoSide}
      BY <3>1, <3>2 DEF RowTrue
    <3>4. table[i].trade_id \in {<<kind, k>> : kind \in {"id", "other"}, k \in 1 .. MaxEvents}
             \cup {<<"syn", stamp, side>> : stamp \in Stamps, side \in {"buy", "sell"}}
      BY <3>1, <3>2 DEF RowTrue, KeysOf
    <3> QED
      BY <3>1, <3>2, <3>3, <3>4 DEF RowTrue, Rows
  <2>4. /\ \A i \in DOMAIN tape : tape[i] \in [stamp : Stamps, taker : {"buy", "sell"}]
        /\ answer \in [of : {"book", "trades"}, at : Nat] \cup {NoAnswer}
        /\ answer # NoAnswer => link = "rest"
        /\ shown.at \in 0 .. Version
        /\ emitted \subseteq 1 .. Len(tape)
    BY <2>1 DEF BookInv, BookShape, ViewInv, OneOnTheWay, TapeInv, TableOK
  <2> QED
    BY <2>2, <2>3, <2>4 DEF TypeOK, BookInv, BookShape
<1> QED
  BY <1>1, BookInvHolds, TapeInvHolds, PTL
=============================================================================
