---------------------------- MODULE ClientProofs ----------------------------
(***************************************************************************)
(* What the parts of the clients promise, for any servers, chats, folders, *)
(* turns and faults; and what reaches them of the orchestrator: the fill   *)
(* of the context that the desktop shows, for any texts, and the calls of  *)
(* the model whose answers they print, for any conversation and endpoints. *)
(* Each part has an inductive invariant, kept by each of its actions, from *)
(* which its theorem follows.                                              *)
(***************************************************************************)
EXTENDS McpHosts, ClientFolders, CliTurns, ChatWindow, TurnView,
        ContextFill, ModelCalls, WellFoundedInduction,
        FiniteSetTheorems, SequenceTheorems, TLAPS

\* A set of natural numbers has a least one.
LEMMA LeastNatural ==
  ASSUME NEW S, S \subseteq Nat, S # {}
  PROVE  \E m \in S : \A k \in S : m <= k
<1>1. PICK m \in S : \A k \in S : ~ (<<k, m>> \in OpToRel(<, Nat))
  BY NatLessThanWellFounded, WFMin
<1>2. \A k \in S : ~(k < m)
  BY <1>1 DEF OpToRel
<1> QED BY <1>2

\* The element a fold takes next.
Taken(s) == CHOOSE x \in s : TRUE

\* The parts of a finite set lose one element when one is taken.
LEMMA TakenCounts ==
  ASSUME NEW D, IsFiniteSet(D), NEW s \in SUBSET D, s # {}
  PROVE  /\ Taken(s) \in s /\ s \ {Taken(s)} \in SUBSET D
         /\ Cardinality(s) \in Nat /\ Cardinality(s \ {Taken(s)}) \in Nat
         /\ Cardinality(s \ {Taken(s)}) = Cardinality(s) - 1
<1>1. Taken(s) \in s
  BY DEF Taken
<1>2. IsFiniteSet(s) /\ Cardinality(s) \in Nat
  BY FS_Subset, FS_CardinalityType
<1>3. IsFiniteSet(s \ {Taken(s)}) /\ Cardinality(s \ {Taken(s)}) = Cardinality(s) - 1
  BY <1>1, <1>2, FS_RemoveElement
<1> QED BY <1>1, <1>2, <1>3, FS_CardinalityType

\* The sum of the lengths at each of the places in a part of D.
AreSums(sum, D, text) ==
    sum = [s \in SUBSET D |-> IF s = {} THEN 0 ELSE text[Taken(s)] + sum[s \ {Taken(s)}]]

\* The sums over the parts of a finite set exist: they are built from the smaller parts.
LEMMA SumsExist ==
  ASSUME NEW D, IsFiniteSet(D), NEW text
  PROVE  \E sum : AreSums(sum, D, text)
<1> DEFINE small(n) == {s \in SUBSET D : Cardinality(s) <= n}
           sums(n, sum) == sum = [s \in small(n) |-> IF s = {} THEN 0
                                      ELSE text[Taken(s)] + sum[s \ {Taken(s)}]]
           without == {n \in Nat : ~ \E sum : sums(n, sum)}
<1>1. \A s \in SUBSET D : Cardinality(s) \in Nat /\ (Cardinality(s) = 0 <=> s = {})
  BY FS_Subset, FS_CardinalityType, FS_EmptySet
<1>2. \A s \in SUBSET D : s # {} =>
        s \ {Taken(s)} \in SUBSET D /\ Cardinality(s \ {Taken(s)}) = Cardinality(s) - 1
  BY TakenCounts
<1>3. ASSUME without # {} PROVE FALSE
  <2>1. PICK m \in without : \A k \in without : m <= k
    BY <1>3, LeastNatural
  <2> m \in Nat
    BY <2>1
  <2>2. m # 0
    <3>1. small(0) = {{}}
      BY <1>1
    <3>2. sums(0, [s \in small(0) |-> 0])
      BY <3>1
    <3> QED BY <3>2
  <2>3. m - 1 \in Nat /\ ~(m <= m - 1)
    BY <2>2
  <2>4. PICK sum : sums(m - 1, sum)
    <3>1. m - 1 \notin without
      <4> HIDE DEF without
      <4> QED BY <2>1, <2>3
    <3> QED BY <2>3, <3>1
  <2> DEFINE next == [s \in small(m) |-> IF s = {} THEN 0
                                         ELSE text[Taken(s)] + sum[s \ {Taken(s)}]]
  <2>5. \A s \in small(m - 1) : next[s] = sum[s]
    <3>1. small(m - 1) \subseteq small(m)
      BY <1>1, <2>1
    <3> QED BY <2>4, <3>1
  <2>6. \A s \in small(m) : s # {} => s \ {Taken(s)} \in small(m - 1)
    BY <1>1, <1>2, <2>1
  <2>7. sums(m, next)
    BY <2>5, <2>6
  <2> QED BY <2>1, <2>7
<1>4. PICK sum : sums(Cardinality(D), sum)
  BY <1>1, <1>3
<1>5. small(Cardinality(D)) = SUBSET D
  BY FS_Subset
<1> QED BY <1>4, <1>5 DEF AreSums

\* The tokens of a text are as many as a fold over its lines adds up.
LEMMA TokenCountSums ==
  ASSUME NEW text \in Seq(Nat)
  PROVE  \E sum : AreSums(sum, DOMAIN text, text) /\ TokenCount(text) = sum[DOMAIN text]
<1>1. TokenCount(text) =
        LET iter[s \in SUBSET DOMAIN text] ==
              IF s = {} THEN 0 ELSE text[Taken(s)] + iter[s \ {Taken(s)}]
        IN iter[DOMAIN text]
  BY DEF TokenCount, FoldSeq, FoldFunction, FoldFunctionOnSet, MapThenFoldSet, Taken
<1>2. DOMAIN text = 1 .. Len(text) /\ Len(text) \in Nat
  BY LenProperties
<1>3. IsFiniteSet(DOMAIN text)
  BY <1>2, FS_Interval
<1>4. \E sum : AreSums(sum, DOMAIN text, text)
  BY <1>3, SumsExist
<1> QED BY <1>1, <1>4 DEF AreSums

\* The sums are natural numbers, and not 0 when something that is not 0 is added.
LEMMA SumsAreNatural ==
  ASSUME NEW text \in Seq(Nat), NEW sum, AreSums(sum, DOMAIN text, text)
  PROVE  /\ \A s \in SUBSET DOMAIN text : sum[s] \in Nat
         /\ text \in Seq(Nat \ {0}) /\ text # <<>> => sum[DOMAIN text] > 0
<1>1. sum = [s \in SUBSET DOMAIN text |->
                 IF s = {} THEN 0 ELSE text[Taken(s)] + sum[s \ {Taken(s)}]]
  BY DEF AreSums
<1>2. DOMAIN text = 1 .. Len(text) /\ Len(text) \in Nat /\ \A i \in DOMAIN text : text[i] \in Nat
  BY LenProperties, ElementOfSeq
<1>3. IsFiniteSet(DOMAIN text)
  BY <1>2, FS_Interval
<1> DEFINE wrong == {n \in Nat : \E s \in SUBSET DOMAIN text :
                                     Cardinality(s) = n /\ sum[s] \notin Nat}
<1>4. ASSUME wrong # {} PROVE FALSE
  <2>1. PICK m \in wrong : \A k \in wrong : m <= k
    BY <1>4, LeastNatural
  <2>2. PICK s \in SUBSET DOMAIN text : Cardinality(s) = m /\ sum[s] \notin Nat
    BY <2>1
  <2>3. s # {}
    BY <1>1, <2>2
  <2>4. /\ Taken(s) \in s /\ s \ {Taken(s)} \in SUBSET DOMAIN text
        /\ Cardinality(s \ {Taken(s)}) \in Nat /\ Cardinality(s \ {Taken(s)}) = m - 1
    BY <1>3, <2>2, <2>3, TakenCounts
  <2>5. m - 1 \notin wrong
    BY <2>1
  <2>6. sum[s \ {Taken(s)}] \in Nat
    BY <2>4, <2>5
  <2>7. sum[s] = text[Taken(s)] + sum[s \ {Taken(s)}]
    BY <1>1, <2>3
  <2> QED BY <1>2, <2>2, <2>4, <2>6, <2>7
<1>5. \A s \in SUBSET DOMAIN text : sum[s] \in Nat
  <2>1. \A s \in SUBSET DOMAIN text : Cardinality(s) \in Nat
    BY <1>3, FS_Subset, FS_CardinalityType
  <2> QED BY <1>4, <2>1
<1>6. ASSUME text \in Seq(Nat \ {0}), text # <<>> PROVE sum[DOMAIN text] > 0
  <2>1. DOMAIN text # {} /\ \A i \in DOMAIN text : text[i] \in Nat \ {0}
    BY <1>6, LenProperties, ElementOfSeq, EmptySeq
  <2>2. Taken(DOMAIN text) \in DOMAIN text
    BY <2>1 DEF Taken
  <2>3. /\ sum[DOMAIN text] =
             text[Taken(DOMAIN text)] + sum[DOMAIN text \ {Taken(DOMAIN text)}]
        /\ sum[DOMAIN text \ {Taken(DOMAIN text)}] \in Nat
    BY <1>1, <1>5, <2>1
  <2> QED BY <2>1, <2>2, <2>3
<1> QED BY <1>5, <1>6

\* A text has a number of tokens: none when it is empty, some when its lines have.
LEMMA TokensCounted ==
  ASSUME NEW text \in Seq(Nat)
  PROVE  /\ TokenCount(text) \in Nat /\ (text = <<>> => TokenCount(text) = 0)
         /\ text \in Seq(Nat \ {0}) /\ TokenCount(text) = 0 => text = <<>>
<1>1. PICK sum : AreSums(sum, DOMAIN text, text) /\ TokenCount(text) = sum[DOMAIN text]
  BY TokenCountSums
<1>2. text = <<>> => DOMAIN text = {}
  OBVIOUS
<1>3. text = <<>> => TokenCount(text) = 0
  BY <1>1, <1>2 DEF AreSums
<1> QED BY <1>1, <1>3, SumsAreNatural

LEMMA NothingCounts == TokenCount(<<>>) = 0
<1>1. <<>> \in Seq(Nat)
  OBVIOUS
<1> QED BY <1>1, TokensCounted

-----------------------------------------------------------------------------
(* ContextFill: what a strip may still show is carried.                    *)

FillInv ==
    /\ FillTypeOK
    /\ lastStrip <= carry /\ lastStrip <= WindowSize
    /\ fillAt # "idle" => filledTurns < MaxFilled
    /\ fillAt # "running" => peak = 0
    /\ fillAt = "running" => lastStrip <= carriedIn
    /\ FillIsTrue

\* Min and Max of sets of natural numbers.
LEMMA LeastIsMin ==
  ASSUME NEW S, S \subseteq Nat, S # {}
  PROVE  Min(S) \in S /\ \A k \in S : Min(S) <= k
<1>1. \E m \in S : \A k \in S : m <= k
  BY LeastNatural
<1> QED BY <1>1 DEF Min

LEMMA GreatestIsMax ==
  ASSUME NEW S, S \subseteq Nat, S # {}, NEW n \in Nat, \A k \in S : k <= n
  PROVE  Max(S) \in S /\ \A k \in S : Max(S) >= k
<1> DEFINE below == {n - k : k \in S}
<1>1. \A k \in S : n - k \in Nat
  OBVIOUS
<1>2. below \subseteq Nat /\ below # {}
  BY <1>1
<1>3. PICK b \in below : \A k \in below : b <= k
  BY <1>2, LeastNatural
<1>4. PICK m \in S : b = n - m
  BY <1>3
<1>5. ASSUME NEW k \in S PROVE m >= k
  <2>1. n - k \in below
    OBVIOUS
  <2>2. n - m <= n - k
    BY <1>3, <1>4, <2>1
  <2> QED BY <2>2
<1> QED BY <1>5 DEF Max

\* Min and Max of two numbers.
LEMMA MinMaxOfTwo ==
  ASSUME NEW a \in Int, NEW b \in Int
  PROVE  /\ Min({a, b}) = IF a <= b THEN a ELSE b
         /\ Max({a, b}) = IF a >= b THEN a ELSE b
<1>1. \E x \in {a, b} : \A y \in {a, b} : x <= y
  OBVIOUS
<1>2. Min({a, b}) \in {a, b} /\ \A y \in {a, b} : Min({a, b}) <= y
  BY <1>1 DEF Min
<1>3. \E x \in {a, b} : \A y \in {a, b} : x >= y
  OBVIOUS
<1>4. Max({a, b}) \in {a, b} /\ \A y \in {a, b} : Max({a, b}) >= y
  BY <1>3 DEF Max
<1> QED BY <1>2, <1>4

\* A slot is never larger than what is left.
LEMMA SlotsFit ==
  ASSUME NEW slot \in Nat, NEW remaining \in Int
  PROVE  /\ SlotRoom(slot, remaining) \in Nat
         /\ remaining >= 0 => SlotRoom(slot, remaining) <= remaining
         /\ remaining <= 0 => SlotRoom(slot, remaining) = 0
<1>1. Max({0, remaining}) = IF 0 >= remaining THEN 0 ELSE remaining
  BY MinMaxOfTwo
<1>2. Max({0, remaining}) \in Nat
  BY <1>1
<1>3. SlotRoom(slot, remaining) =
        IF slot <= Max({0, remaining}) THEN slot ELSE Max({0, remaining})
  BY <1>2, MinMaxOfTwo DEF SlotRoom
<1> QED BY <1>1, <1>3

\* What is trimmed fits its room, whatever the text.
LEMMA TrimmedFits ==
  ASSUME NEW text \in Seq(Nat \ {0}), NEW room \in Nat
  PROVE  /\ TrimToBudget(text, room) \in Seq(Nat \ {0})
         /\ TokenCount(TrimToBudget(text, room)) \in 0 .. room
<1> DEFINE From(i) == SubSeq(text, i, Len(text))
           fit == {i \in 1 .. (Len(text) + 1) : TokenCount(From(i)) <= room}
<1>1. Len(text) \in Nat
  OBVIOUS
<1>2. \A i \in 1 .. (Len(text) + 1) : From(i) \in Seq(Nat \ {0}) /\ From(i) \in Seq(Nat)
  BY <1>1
<1>3. Len(text) + 1 \in fit
  <2>1. From(Len(text) + 1) = <<>>
    BY <1>1
  <2>2. TokenCount(From(Len(text) + 1)) = 0
    BY <2>1, NothingCounts
  <2>3. Len(text) + 1 \in 1 .. (Len(text) + 1)
    BY <1>1
  <2> HIDE DEF From
  <2> QED BY <2>2, <2>3
<1>4. fit \subseteq Nat /\ fit # {}
  BY <1>1, <1>3
<1> HIDE DEF fit
<1>5. Min(fit) \in fit
  BY <1>4, LeastIsMin
<1>6. TrimToBudget(text, room) = From(Min(fit))
  BY DEF TrimToBudget, fit
<1>7. Min(fit) \in 1 .. (Len(text) + 1) /\ TokenCount(From(Min(fit))) <= room
  BY <1>5 DEF fit
<1>8. From(Min(fit)) \in Seq(Nat \ {0}) /\ From(Min(fit)) \in Seq(Nat)
  BY <1>2, <1>7
<1> HIDE DEF From
<1>9. TokenCount(From(Min(fit))) \in Nat
  BY <1>8, TokensCounted
<1> QED BY <1>6, <1>7, <1>8, <1>9

\* So does what is packed.
LEMMA PackedFits ==
  ASSUME NEW chunks \in Seq(Nat \ {0}), NEW room \in Nat
  PROVE  /\ PackChunks(chunks, room) \in Seq(Nat \ {0})
         /\ TokenCount(PackChunks(chunks, room)) \in 0 .. room
<1> DEFINE To(i) == SubSeq(chunks, 1, i)
           top == Min({FinalK, Len(chunks)})
           fit == {i \in 0 .. top : TokenCount(To(i)) <= room}
<1>1. Len(chunks) \in Nat /\ FinalK \in Nat
  BY FillAssumption
<1>2. top \in Nat /\ top <= Len(chunks)
  BY <1>1, MinMaxOfTwo
<1> HIDE DEF top
<1>3. \A i \in 0 .. top : To(i) \in Seq(Nat \ {0}) /\ To(i) \in Seq(Nat)
  BY <1>1, <1>2
<1>4. 0 \in fit
  <2>1. To(0) = <<>>
    OBVIOUS
  <2>2. TokenCount(To(0)) = 0
    BY <2>1, NothingCounts
  <2> HIDE DEF To
  <2> QED BY <1>2, <2>2
<1>5. fit \subseteq Nat /\ fit # {} /\ \A k \in fit : k <= top
  BY <1>2, <1>4
<1>6. PackChunks(chunks, room) = To(Max(fit))
  BY DEF PackChunks, top
<1> HIDE DEF fit
<1>7. Max(fit) \in fit
  BY <1>2, <1>5, GreatestIsMax
<1>8. Max(fit) \in 0 .. top /\ TokenCount(To(Max(fit))) <= room
  BY <1>7 DEF fit
<1>9. To(Max(fit)) \in Seq(Nat \ {0}) /\ To(Max(fit)) \in Seq(Nat)
  BY <1>3, <1>8
<1> HIDE DEF To
<1>10. TokenCount(To(Max(fit))) \in Nat
  BY <1>9, TokensCounted
<1> QED BY <1>6, <1>8, <1>9, <1>10

LEMMA MaxOfThree ==
  ASSUME NEW a \in Nat, NEW b \in Nat, NEW c \in Nat
  PROVE  LET most == Max({a, b, c}) IN most \in Nat /\ most >= a /\ most >= b /\ most >= c
<1>1. \E x \in {a, b, c} : \A y \in {a, b, c} : x >= y
  OBVIOUS
<1>2. Max({a, b, c}) \in {a, b, c} /\ \A y \in {a, b, c} : Max({a, b, c}) >= y
  BY <1>1 DEF Max
<1> QED BY <1>2

\* What stands between texts has a number of tokens.
LEMMA SeparatorsCounted == ASSUME NEW n \in Nat PROVE Separators(n) \in Nat
<1>1. CASE n = 0
  BY <1>1 DEF Separators
<1>2. CASE n # 0
  <2>1. n - 1 \in Nat /\ SeparatorLength \in Nat
    BY <1>2, FillAssumption
  <2>2. \A a, b \in Nat : a * b \in Nat
    OBVIOUS
  <2> QED BY <1>2, <2>1, <2>2 DEF Separators
<1> QED BY <1>1, <1>2

LEMMA PartsCounted ==
  ASSUME NEW context, context.pinned \in Seq(Nat)
  PROVE  PromptParts(context) \in Nat
<1> DEFINE kept == {part \in TrimmedParts : context[part] # <<>>}
<1>1. IsFiniteSet(TrimmedParts)
  <2>1. /\ IsFiniteSet({"rag"}) /\ IsFiniteSet({"summary"})
        /\ IsFiniteSet({"anchor"}) /\ IsFiniteSet({"turns"})
    BY FS_Singleton
  <2>2. IsFiniteSet({"rag"} \union {"summary"}) /\ IsFiniteSet({"anchor"} \union {"turns"})
    BY <2>1, FS_Union
  <2>3. TrimmedParts = ({"rag"} \union {"summary"}) \union ({"anchor"} \union {"turns"})
    BY DEF TrimmedParts
  <2> QED BY <2>2, <2>3, FS_Union
<1>2. IsFiniteSet(kept)
  BY <1>1, FS_Subset
<1>3. Cardinality(kept) \in Nat /\ Len(context.pinned) \in Nat
  BY <1>2, FS_CardinalityType
<1> QED BY <1>3 DEF PromptParts

\* Where nothing was put together, it fits.
FitsEmpty(context) ==
    /\ \A part \in TrimmedParts : context[part] = <<>>
    /\ TotalTokens(context) <= EffectiveBudget + Separators(PromptParts(context)) +
           IF context.anchor = <<>> THEN Separators(Len(context.rag)) ELSE HeaderLength

LEMMA EmptyContext == FitsEmpty(NoContext)
<1>1. \A part \in TrimmedParts : NoContext[part] = <<>>
  BY DEF NoContext, TrimmedParts
<1>2. /\ NoContext.pinned = <<>> /\ NoContext.rag = <<>> /\ NoContext.summary = <<>>
      /\ NoContext.anchor = <<>> /\ NoContext.turns = <<>>
  BY DEF NoContext
<1>3. /\ Separators(Len(NoContext.rag)) = 0 /\ AnchorTokens(NoContext.anchor) = 0
      /\ RagTokens(NoContext.rag) = 0
  BY <1>2, NothingCounts DEF Separators, AnchorTokens, RagTokens
<1>4. Separators(PromptParts(NoContext)) \in Nat
  <2>1. NoContext.pinned \in Seq(Nat)
    BY <1>2
  <2> QED BY <2>1, PartsCounted, SeparatorsCounted
<1>5. TotalTokens(NoContext) = Separators(PromptParts(NoContext))
  BY <1>2, <1>3, <1>4, NothingCounts DEF TotalTokens
<1>6. EffectiveBudget \in Nat
  BY FillAssumption
<1> QED BY <1>1, <1>2, <1>3, <1>4, <1>5, <1>6 DEF FitsEmpty

\* What stands between texts, and how many tokens the packed passages are with it.
LEMMA JoinedCounts ==
  ASSUME NEW chunks \in Seq(Nat \ {0})
  PROVE  /\ Separators(Len(chunks)) \in Nat
         /\ RagTokens(chunks) = TokenCount(chunks) + Separators(Len(chunks))
         /\ RagTokens(chunks) \in Nat
         /\ chunks = <<>> => RagTokens(chunks) = 0
<1>1. Separators(Len(chunks)) \in Nat
  BY SeparatorsCounted
<1>2. chunks \in Seq(Nat)
  OBVIOUS
<1>3. TokenCount(chunks) \in Nat /\ (chunks = <<>> => TokenCount(chunks) = 0)
  BY <1>2, TokensCounted
<1>4. chunks = <<>> => Separators(Len(chunks)) = 0
  BY DEF Separators
<1> QED BY <1>1, <1>3, <1>4 DEF RagTokens

\* A text that takes no more than what is left, which may be nothing or less.
KeepsTo(kept, room) ==
    /\ kept \in Seq(Nat \ {0}) /\ kept \in Seq(Nat) /\ TokenCount(kept) \in Nat
    /\ room >= 0 => TokenCount(kept) <= room
    /\ room <= 0 => TokenCount(kept) = 0 /\ kept = <<>>

\* What is trimmed to a slot is one.
LEMMA TrimmedKeeps ==
  ASSUME NEW text \in Seq(Nat \ {0}), NEW slot \in Nat, NEW room \in Int
  PROVE  KeepsTo(TrimToBudget(text, SlotRoom(slot, room)), room)
<1> DEFINE kept == TrimToBudget(text, SlotRoom(slot, room))
<1>1. /\ SlotRoom(slot, room) \in Nat
      /\ room >= 0 => SlotRoom(slot, room) <= room
      /\ room <= 0 => SlotRoom(slot, room) = 0
  BY SlotsFit
<1>2. kept \in Seq(Nat \ {0}) /\ TokenCount(kept) \in 0 .. SlotRoom(slot, room)
  BY <1>1, TrimmedFits
<1> HIDE DEF kept
<1>3. kept \in Seq(Nat)
  BY <1>2
<1>4. /\ TokenCount(kept) \in Nat
      /\ room >= 0 => TokenCount(kept) <= room
      /\ room <= 0 => TokenCount(kept) = 0
  BY <1>1, <1>2
<1>5. room <= 0 => kept = <<>>
  BY <1>2, <1>4, TokensCounted
<1>6. KeepsTo(kept, room)
  BY <1>2, <1>3, <1>4, <1>5 DEF KeepsTo
<1> QED BY <1>6 DEF kept

\* The parts are texts that exceed the budget at most by what joins them and by an anchor's header,
\* if what is pinned does not; if that takes it all there are no others.
KeepsToBudget(context, pinned) ==
    /\ context.pinned = pinned
    /\ context.rag \in Seq(Nat) /\ context.summary \in Seq(Nat)
    /\ context.anchor \in Seq(Nat) /\ context.turns \in Seq(Nat)
    /\ TotalTokens(context) \in Nat
    /\ TokenCount(pinned) <= EffectiveBudget =>
          TotalTokens(context) <= EffectiveBudget + Separators(PromptParts(context)) +
              IF context.anchor = <<>> THEN Separators(Len(context.rag)) ELSE HeaderLength
    /\ TokenCount(pinned) >= EffectiveBudget =>
          /\ context.rag = <<>> /\ context.summary = <<>>
          /\ context.anchor = <<>> /\ context.turns = <<>>

\* What build_context keeps fits the budget but for what joins it and an anchor's header, and is
\* nothing but what is pinned when that takes it all.
LEMMA ContextFits ==
  ASSUME NEW pinned \in PinnedTexts, NEW differs \in BOOLEAN,
         NEW chunks \in SomeTexts, NEW old \in SomeTexts, NEW kept \in SomeTexts,
         NEW turns \in SomeTexts
  PROVE  KeepsToBudget(BuildContext(pinned, chunks, old, kept, turns, differs), pinned)
<1> DEFINE left == EffectiveBudget - TokenCount(pinned)
           rag == PackChunks(chunks, SlotRoom(RagSlot, left))
           room == left - RagTokens(rag)
           summary == TrimToBudget(old, SlotRoom(SummarySlot, room))
           less == room - TokenCount(summary)
           anchor == IF summary = <<>> \/ differs
                     THEN TrimToBudget(kept, SlotRoom(AnchorSlot, less)) ELSE <<>>
           rest == less - AnchorTokens(anchor)
           recent == KeepRecent(turns, rest)
           context == BuildContext(pinned, chunks, old, kept, turns, differs)
<1>1. context = [pinned |-> pinned, rag |-> rag, summary |-> summary, anchor |-> anchor,
                 turns |-> recent]
  BY DEF BuildContext
<1> HIDE DEF context
<1>2. /\ EffectiveBudget \in Nat /\ RagSlot \in Nat /\ SummarySlot \in Nat
      /\ AnchorSlot \in Nat /\ TurnsSlot \in Nat /\ HeaderLength \in Nat
  BY FillAssumption, SMTT(30)
<1>3. /\ chunks \in Seq(Nat \ {0}) /\ old \in Seq(Nat \ {0}) /\ kept \in Seq(Nat \ {0})
      /\ turns \in Seq(Nat \ {0}) /\ pinned \in Seq(Nat \ {0}) /\ pinned \in Seq(Nat)
  BY FillAssumption, SMTT(30)
<1>4. TokenCount(pinned) \in Nat
  BY <1>3, TokensCounted
<1>5. left \in Int /\ left = EffectiveBudget - TokenCount(pinned)
  BY <1>2, <1>4
<1> HIDE DEF left
<1>6. /\ rag \in Seq(Nat \ {0}) /\ TokenCount(rag) \in Nat
      /\ left >= 0 => TokenCount(rag) <= left
      /\ left <= 0 => TokenCount(rag) = 0
  <2>1. /\ SlotRoom(RagSlot, left) \in Nat
        /\ left >= 0 => SlotRoom(RagSlot, left) <= left
        /\ left <= 0 => SlotRoom(RagSlot, left) = 0
    BY <1>2, <1>5, SlotsFit
  <2>2. rag \in Seq(Nat \ {0}) /\ TokenCount(rag) \in 0 .. SlotRoom(RagSlot, left)
    BY <1>3, <2>1, PackedFits
  <2> HIDE DEF rag
  <2> QED BY <1>5, <2>1, <2>2
<1> HIDE DEF rag
<1>7. TokenCount(rag) \in Nat /\ (left >= 0 => TokenCount(rag) <= left)
  BY <1>6
<1>8. /\ Separators(Len(rag)) \in Nat /\ RagTokens(rag) \in Nat
      /\ RagTokens(rag) = TokenCount(rag) + Separators(Len(rag))
  BY <1>6, JoinedCounts
<1>9. left <= 0 => rag = <<>>
  BY <1>6, TokensCounted
<1>10. left <= 0 => RagTokens(rag) = 0
  BY <1>6, <1>9, JoinedCounts
<1>11. room \in Int /\ room = left - RagTokens(rag) /\ (left <= 0 => room <= 0)
  BY <1>5, <1>8, <1>10
<1> HIDE DEF room
<1>12. /\ summary \in Seq(Nat \ {0}) /\ summary \in Seq(Nat) /\ TokenCount(summary) \in Nat
       /\ room >= 0 => TokenCount(summary) <= room
       /\ room <= 0 => TokenCount(summary) = 0 /\ summary = <<>>
  <2>1. old \in Seq(Nat \ {0}) /\ SummarySlot \in Nat /\ room \in Int
    BY <1>2, <1>3, <1>11
  <2>2. KeepsTo(summary, room)
    BY <2>1, TrimmedKeeps
  <2> HIDE DEF summary
  <2> QED BY <2>2 DEF KeepsTo
<1> HIDE DEF summary
<1>13. /\ TokenCount(summary) \in Nat /\ (room >= 0 => TokenCount(summary) <= room)
       /\ (room <= 0 => TokenCount(summary) = 0)
  BY <1>12
<1>14. /\ less \in Int /\ less = room - TokenCount(summary)
       /\ (room >= 0 => less >= 0) /\ (room <= 0 => less <= 0)
  BY <1>11, <1>13
<1> HIDE DEF less
<1>15. /\ anchor \in Seq(Nat \ {0}) /\ anchor \in Seq(Nat) /\ TokenCount(anchor) \in Nat
       /\ less >= 0 => TokenCount(anchor) <= less
       /\ less <= 0 => anchor = <<>>
  <2> DEFINE trimmed == TrimToBudget(kept, SlotRoom(AnchorSlot, less))
  <2>1. anchor = trimmed \/ anchor = <<>>
    OBVIOUS
  <2> HIDE DEF anchor
  <2>2. CASE anchor = trimmed
    <3>1. kept \in Seq(Nat \ {0}) /\ AnchorSlot \in Nat /\ less \in Int
      BY <1>2, <1>3, <1>14
    <3>2. KeepsTo(trimmed, less)
      BY <3>1, TrimmedKeeps
    <3> HIDE DEF trimmed
    <3>3. KeepsTo(anchor, less)
      BY <2>2, <3>2
    <3> QED BY <3>3 DEF KeepsTo
  <2>3. CASE anchor = <<>>
    BY <1>14, <2>3, NothingCounts
  <2> QED BY <2>1, <2>2, <2>3
<1> HIDE DEF anchor
<1>16. TokenCount(anchor) \in Nat /\ (less >= 0 => TokenCount(anchor) <= less)
  BY <1>15
<1>17. less <= 0 => anchor = <<>>
  BY <1>15
<1>18. AnchorTokens(anchor) = IF anchor = <<>> THEN 0 ELSE HeaderLength + TokenCount(anchor)
  BY DEF AnchorTokens
<1>19. anchor = <<>> => AnchorTokens(anchor) = 0
  BY <1>18
<1>20. anchor # <<>> => AnchorTokens(anchor) = HeaderLength + TokenCount(anchor)
  BY <1>18
<1>21. AnchorTokens(anchor) \in Nat
  BY <1>2, <1>16, <1>19, <1>20
<1>22. rest \in Int /\ rest <= less /\ rest = less - AnchorTokens(anchor)
  BY <1>14, <1>21
<1> HIDE DEF rest
<1>23. /\ recent \in Seq(Nat \ {0}) /\ recent \in Seq(Nat) /\ TokenCount(recent) \in Nat
       /\ rest >= 0 => TokenCount(recent) <= rest
       /\ rest <= 0 => TokenCount(recent) = 0 /\ recent = <<>>
  <2>1. turns \in Seq(Nat \ {0}) /\ TurnsSlot \in Nat /\ rest \in Int
    BY <1>2, <1>3, <1>22
  <2>2. KeepsTo(TrimToBudget(turns, SlotRoom(TurnsSlot, rest)), rest)
    BY <2>1, TrimmedKeeps
  <2>3. KeepsTo(recent, rest)
    BY <2>2 DEF KeepRecent
  <2> HIDE DEF recent
  <2> QED BY <2>3 DEF KeepsTo
<1> HIDE DEF recent
<1>24. /\ TokenCount(recent) \in Nat /\ (rest >= 0 => TokenCount(recent) <= rest)
       /\ (rest <= 0 => TokenCount(recent) = 0)
  BY <1>23
<1>25. /\ context.pinned = pinned /\ context.rag = rag /\ context.summary = summary
       /\ context.anchor = anchor /\ context.turns = recent
  BY <1>1
<1>26. rag \in Seq(Nat) /\ summary \in Seq(Nat) /\ anchor \in Seq(Nat) /\ recent \in Seq(Nat)
  <2>1. rag \in Seq(Nat)
    BY <1>6
  <2> QED BY <1>12, <1>15, <1>23, <2>1
<1> DEFINE joins == Separators(PromptParts(context))
<1>27. joins \in Nat
  BY <1>25, <1>3, PartsCounted, SeparatorsCounted
<1>28. TotalTokens(context) = TokenCount(pinned) + RagTokens(rag) + TokenCount(summary)
                                  + AnchorTokens(anchor) + TokenCount(recent) + joins
  BY <1>25 DEF TotalTokens
<1> HIDE DEF joins
<1>29. TotalTokens(context) \in Nat
  BY <1>4, <1>8, <1>13, <1>21, <1>24, <1>28, <1>27
<1>30. ASSUME TokenCount(pinned) <= EffectiveBudget
       PROVE  TotalTokens(context) <= EffectiveBudget + joins +
                  IF anchor = <<>> THEN Separators(Len(rag)) ELSE HeaderLength
  <2>1. left >= 0
    BY <1>2, <1>4, <1>5, <1>30
  <2> DEFINE first == TokenCount(pinned) + RagTokens(rag) + TokenCount(summary)
             last  == AnchorTokens(anchor) + TokenCount(recent)
  <2>2. first \in Nat /\ first = TokenCount(pinned) + RagTokens(rag) + TokenCount(summary)
    BY <1>4, <1>8, <1>13
  <2>3. last \in Nat /\ last = AnchorTokens(anchor) + TokenCount(recent)
    BY <1>21, <1>24
  <2>4. TotalTokens(context) = first + last + joins
    BY <1>4, <1>8, <1>13, <1>21, <1>24, <1>28, <1>27
  <2> HIDE DEF first, last
  <2>5. TokenCount(pinned) + RagTokens(rag) + room = EffectiveBudget
    BY <1>2, <1>4, <1>5, <1>8, <1>11
  <2>6. room = TokenCount(summary) + less /\ room \in Int /\ less \in Int
    BY <1>11, <1>13, <1>14
  <2>7. first + less = EffectiveBudget
    BY <1>4, <1>8, <1>13, <2>2, <2>5, <2>6
  <2>8. CASE room >= 0 /\ anchor = <<>>
    <3>1. AnchorTokens(anchor) = 0
      BY <1>19, <2>8
    <3>2. TokenCount(recent) <= less
      BY <1>14, <1>22, <1>24, <2>8, <3>1
    <3>3. last <= less
      BY <1>24, <2>3, <3>1, <3>2
    <3>4. TotalTokens(context) <= EffectiveBudget + joins
      BY <1>2, <1>14, <1>27, <2>2, <2>3, <2>4, <2>7, <3>3
    <3>5. TotalTokens(context) <= EffectiveBudget + joins + Separators(Len(rag))
      BY <1>2, <1>29, <1>8, <1>27, <3>4
    <3> QED BY <2>8, <3>5
  <2>9. CASE room >= 0 /\ anchor # <<>>
    <3>1. TokenCount(anchor) <= less /\ AnchorTokens(anchor) = HeaderLength + TokenCount(anchor)
      BY <1>14, <1>16, <1>20, <2>9
    <3>2. last <= less + HeaderLength
      BY <1>2, <1>14, <1>16, <1>21, <1>22, <1>24, <2>3, <3>1
    <3>3. TotalTokens(context) <= EffectiveBudget + joins + HeaderLength
      BY <1>2, <1>14, <1>27, <2>2, <2>3, <2>4, <2>7, <3>2
    <3> QED BY <2>9, <3>3
  <2>10. CASE room <= 0
    <3>1. TokenCount(summary) = 0 /\ less <= 0
      BY <1>13, <1>14, <2>10
    <3>2. anchor = <<>>
      BY <1>17, <3>1
    <3>3. AnchorTokens(anchor) = 0
      BY <1>19, <3>2
    <3>4. TokenCount(recent) = 0
      BY <1>14, <1>22, <1>24, <3>1
    <3>5. TokenCount(pinned) + TokenCount(rag) <= EffectiveBudget
      BY <1>2, <1>4, <1>5, <1>7, <2>1
    <3>6. TotalTokens(context) <= EffectiveBudget + joins + Separators(Len(rag))
      <4>1. first = TokenCount(pinned) + TokenCount(rag) + Separators(Len(rag)) /\ last = 0
        BY <1>4, <1>7, <1>8, <2>2, <2>3, <3>1, <3>3, <3>4
      <4> QED BY <1>2, <1>4, <1>7, <1>8, <1>27, <2>4, <3>5, <4>1
    <3> QED BY <3>2, <3>6
  <2> QED BY <1>11, <2>8, <2>9, <2>10
<1>31. ASSUME TokenCount(pinned) >= EffectiveBudget
       PROVE  rag = <<>> /\ summary = <<>> /\ anchor = <<>> /\ recent = <<>>
  <2>1. left <= 0
    BY <1>2, <1>4, <1>5, <1>31
  <2>2. rag = <<>> /\ room <= 0
    BY <1>9, <1>11, <2>1
  <2>3. less <= 0
    BY <1>13, <1>14, <1>11, <1>10, <2>1
  <2>4. rest <= 0
    BY <1>14, <1>21, <1>22, <2>3
  <2> QED BY <1>12, <1>17, <1>23, <2>2, <2>3, <2>4
<1>32. KeepsToBudget(context, pinned)
  BY <1>29, <1>30, <1>31, <1>25, <1>26 DEF KeepsToBudget, joins
<1> QED BY <1>32 DEF context

\* The number the strip shows.
LEMMA StripShown ==
  ASSUME NEW top \in Nat, NEW fallback \in Nat, NEW least \in Nat, WindowSize \in Nat,
         NEW used, used = ContextWindowUsed(top, fallback, least)
  PROVE  /\ used \in Nat /\ used <= WindowSize
         /\ used >= Min({least, WindowSize})
         /\ used >= WindowSize \/ used >= IF top > 0 THEN top ELSE fallback
         /\ used <= least \/ used <= IF top > 0 THEN top ELSE fallback
<1> DEFINE known == IF top > 0 THEN top ELSE fallback
<1>1. known \in Nat
  OBVIOUS
<1>2. ContextWindowUsed(top, fallback, least) = Min({Max({known, least}), WindowSize})
  BY DEF ContextWindowUsed
<1> HIDE DEF known
<1>3. Max({known, least}) = IF known >= least THEN known ELSE least
  <2>1. known \in Int /\ least \in Int
    BY <1>1
  <2> QED BY <2>1, MinMaxOfTwo
<1>4. Max({known, least}) \in Nat
  BY <1>1, <1>3
<1>5. Min({Max({known, least}), WindowSize}) =
        IF Max({known, least}) <= WindowSize THEN Max({known, least}) ELSE WindowSize
  BY <1>4, MinMaxOfTwo
<1>6. Min({least, WindowSize}) = IF least <= WindowSize THEN least ELSE WindowSize
  BY MinMaxOfTwo
<1>7. /\ used \in Nat /\ used <= WindowSize
      /\ used >= Min({least, WindowSize})
      /\ used >= WindowSize \/ used >= known
      /\ used <= known \/ used <= least
  BY <1>1, <1>2, <1>3, <1>4, <1>5, <1>6
<1> QED BY <1>7 DEF known

\* Every action of a turn keeps what is carried at least as large as what was shown.
LEMMA FillStep == FillInv /\ [FillNext]_fillVars => FillInv'
<1> SUFFICES ASSUME FillInv, [FillNext]_fillVars PROVE FillInv'
  OBVIOUS
<1>1. WindowSize \in Nat /\ MaxFilled \in Nat
  BY FillAssumption
<1>2. /\ filledTurns \in 0 .. MaxFilled /\ floor \in Nat /\ carriedIn \in Nat /\ carry \in Nat
      /\ peak \in Nat /\ strip \in Nat /\ lastStrip \in Nat
  BY DEF FillInv, FillTypeOK
<1>3. fillAt \in {"idle", "measured", "running"}
  BY DEF FillInv, FillTypeOK
<1>4. /\ measured.pinned \in {<<>>} \union PinnedTexts
      /\ measured.rag \in Seq(Nat) /\ measured.summary \in Seq(Nat)
      /\ measured.anchor \in Seq(Nat) /\ measured.turns \in Seq(Nat)
  BY DEF FillInv, FillTypeOK, TrimmedParts
<1>5. CASE MeasureContext
  <2>1. CASE /\ \E pinned \in PinnedTexts, chunks, old, kept, turns \in SomeTexts,
                   differs \in BOOLEAN :
                   measured' = BuildContext(pinned, chunks, old, kept, turns, differs)
             /\ floor' = TotalTokens(measured')
    <3>1. PICK pinned \in PinnedTexts, chunks \in SomeTexts, old \in SomeTexts,
               kept \in SomeTexts, turns \in SomeTexts, differs \in BOOLEAN :
                   measured' = BuildContext(pinned, chunks, old, kept, turns, differs)
      BY <2>1
    <3>2. KeepsToBudget(measured', pinned)
      BY <3>1, ContextFits
    <3>3. FillTypeOK'
      BY <1>2, <1>3, <1>5, <2>1, <3>2 DEF MeasureContext, FillTypeOK, KeepsToBudget,
         TrimmedParts
    <3>4. FillIsTrue'
      BY <1>5, <3>2 DEF MeasureContext, FillIsTrue, KeepsToBudget, TrimmedParts
    <3> QED BY <1>5, <3>3, <3>4 DEF MeasureContext, FillInv
  <2>2. CASE UNCHANGED <<measured, floor>>
    <3>1. FillTypeOK'
      BY <1>2, <1>3, <1>4, <1>5, <2>2 DEF MeasureContext, FillTypeOK, TrimmedParts
    <3>2. FillIsTrue'
      BY <1>5, <2>2 DEF MeasureContext, FillIsTrue, FillInv, TotalTokens
    <3> QED BY <1>5, <3>1, <3>2 DEF MeasureContext, FillInv
  <2> QED BY <1>5, <2>1, <2>2 DEF MeasureContext
<1>6. CASE ShowCarriedFill
  <2>1. strip' = ContextWindowUsed(peak, carry, floor)
    BY <1>6 DEF ShowCarriedFill
  <2>2. /\ strip' \in Nat /\ strip' >= Min({floor, WindowSize})
        /\ peak = 0 => strip' >= WindowSize \/ strip' >= carry
    BY <1>1, <1>2, <2>1, StripShown
  <2>3. carry' = IF carry >= floor THEN carry ELSE floor
    <3>1. carry \in Int /\ floor \in Int
      BY <1>2
    <3>2. Max({carry, floor}) = IF carry >= floor THEN carry ELSE floor
      BY <3>1, MinMaxOfTwo
    <3> QED BY <1>6, <3>2 DEF ShowCarriedFill
  <2>4. lastStrip <= carry /\ lastStrip <= WindowSize
    BY DEF FillInv
  <2>5. FillTypeOK'
    BY <1>2, <1>6, <2>2, <2>3 DEF ShowCarriedFill, FillTypeOK, NoContext, TrimmedParts
  <2>6. FillIsTrue'
    <3>1. peak = 0 => strip' >= lastStrip
      BY <1>1, <1>2, <2>2, <2>4
    <3>2. measured' = NoContext
      BY <1>6 DEF ShowCarriedFill
    <3>3. FitsEmpty(measured')
      BY <3>2, EmptyContext
    <3>4. peak' = peak /\ floor' = floor /\ lastStrip' = lastStrip
      BY <1>6 DEF ShowCarriedFill
    <3> QED BY <2>2, <3>1, <3>3, <3>4 DEF FillIsTrue, FitsEmpty
  <2> QED BY <1>2, <1>6, <2>3, <2>4, <2>5, <2>6 DEF ShowCarriedFill, FillInv
<1>7. CASE ObservePromptTokens
  <2>1. peak' \in Nat /\ peak' > 0
    BY <1>1, <1>2, <1>7 DEF ObservePromptTokens
  <2>2. FillTypeOK'
    BY <1>2, <1>3, <1>4, <1>7, <2>1 DEF ObservePromptTokens, FillTypeOK, TrimmedParts
  <2>3. FillIsTrue'
    BY <1>7, <2>1 DEF ObservePromptTokens, FillIsTrue, FillInv, TotalTokens
  <2> QED BY <1>7, <2>2, <2>3 DEF ObservePromptTokens, FillInv
<1>8. CASE RefreshStrip
  <2>1. strip' = ContextWindowUsed(peak, carriedIn, floor)
    BY <1>8 DEF RefreshStrip
  <2>2. /\ strip' \in Nat /\ strip' >= Min({floor, WindowSize})
        /\ peak = 0 => strip' >= WindowSize \/ strip' >= carriedIn
    BY <1>1, <1>2, <2>1, StripShown
  <2>3. lastStrip <= carriedIn /\ lastStrip <= WindowSize
    BY <1>8 DEF FillInv, RefreshStrip
  <2>4. FillTypeOK'
    BY <1>2, <1>3, <1>4, <1>8, <2>2 DEF RefreshStrip, FillTypeOK, TrimmedParts
  <2>5. FillIsTrue'
    BY <1>1, <1>2, <1>8, <2>2, <2>3 DEF RefreshStrip, FillIsTrue, FillInv, TotalTokens
  <2> QED BY <1>8, <2>4, <2>5 DEF RefreshStrip, FillInv
<1>9. CASE EndFill
  <2>1. strip' = ContextWindowUsed(peak, peak, floor)
    BY <1>9 DEF EndFill
  <2>2. /\ strip' \in Nat /\ strip' <= WindowSize
        /\ strip' <= peak \/ strip' <= floor
    BY <1>1, <1>2, <2>1, StripShown
  <2>3. carry' \in Nat /\ carry' >= peak /\ carry' >= floor
    BY <1>2, <1>9, MaxOfThree DEF EndFill
  <2>4. filledTurns' \in 0 .. MaxFilled
    BY <1>1, <1>2, <1>9 DEF EndFill, FillInv
  <2>5. FillTypeOK'
    BY <1>2, <1>3, <1>4, <1>9, <2>2, <2>3, <2>4 DEF EndFill, FillTypeOK, TrimmedParts
  <2>6. FillIsTrue'
    BY <1>9 DEF EndFill, FillIsTrue, FillInv, TotalTokens
  <2> QED BY <1>2, <1>9, <2>2, <2>3, <2>5, <2>6 DEF EndFill, FillInv
<1>10. CASE UNCHANGED fillVars
  BY <1>10 DEF fillVars, FillInv, FillTypeOK, FillIsTrue, TotalTokens
<1> QED BY <1>5, <1>6, <1>7, <1>8, <1>9, <1>10 DEF FillNext

\* Nothing is measured, carried or shown.
LEMMA FillInitInv == FillInit => FillInv
<1>1. 0 \in 0 .. MaxFilled /\ EffectiveBudget \in Nat /\ HeaderLength \in Nat /\ WindowSize \in Nat
  BY FillAssumption
<1>2. FillInit => FillTypeOK
  BY <1>1 DEF FillInit, FillTypeOK, NoContext, TrimmedParts
<1>3. FillInit => FillIsTrue
  <2> SUFFICES ASSUME FillInit PROVE FillIsTrue
    OBVIOUS
  <2>1. FitsEmpty(measured)
    BY EmptyContext DEF FillInit
  <2> QED BY <1>1, <2>1 DEF FillInit, FillIsTrue, FitsEmpty
<1> QED BY <1>1, <1>2, <1>3 DEF FillInit, FillInv

\* The invariant holds at every point of a turn.
LEMMA FillInvariant == FillSpec => []FillInv
<1> QED BY FillInitInv, FillStep, PTL DEF FillSpec

\* What build_context puts together keeps to the budget however the parts compete, and the strip
\* of the client never falls below the turn before or the measured floor, for any texts, slots
\* and window (context_manager.py, main.py).
THEOREM FillMeasured == FillSpec => [](FillTypeOK /\ FillIsTrue)
<1>1. FillInv => FillTypeOK /\ FillIsTrue
  BY DEF FillInv
<1> QED BY <1>1, FillInvariant, PTL

-----------------------------------------------------------------------------
(* McpHosts: the built-in servers come first, and a name leads to whoever  *)
(* runs under it.                                                          *)

BuiltinsFirst ==
    \A i, j \in DOMAIN toStart : i < j /\ toStart[j].from = "labmate" => toStart[i].from = "labmate"

\* Where startAll is, and what it may rely on there.
StartingInv ==
    /\ startingAt \in {"connecting", "listing"} => toStart # <<>>
    /\ startingAt = "connecting" /\ Head(toStart).from = "user" =>
          mcpHosts[Head(toStart).name] = NoSpec
    /\ toStart # <<>> /\ Head(toStart).from = "labmate" =>
          \A s \in mcpLive \union mcpTools : s.from = "labmate"

\* A server that runs is reached by its name, even while the application quits.
LiveReached == \A s \in mcpLive : mcpHosts[s.name] = s

McpInv == McpTypeOK /\ BuiltinsFirst /\ StartingInv /\ LiveReached /\ McpServersAgree

\* The specs of a sequence of names.
SpecsOf(names, origin) == [i \in DOMAIN names |-> [name |-> names[i], from |-> origin]]

LEMMA SpecsOfNames ==
  ASSUME NEW names \in Seq(ServerNames), NEW origin \in {"labmate", "user"}
  PROVE  /\ SpecsOf(names, origin) \in Seq(ServerSpecs)
         /\ \A i \in DOMAIN SpecsOf(names, origin) : SpecsOf(names, origin)[i].from = origin
<1>1. /\ DOMAIN names = 1 .. Len(names) /\ Len(names) \in Nat
      /\ \A i \in 1 .. Len(names) : names[i] \in ServerNames
  BY LenProperties, ElementOfSeq
<1>2. \A i \in 1 .. Len(names) : [name |-> names[i], from |-> origin] \in ServerSpecs
  BY <1>1 DEF ServerSpecs
<1>3. SpecsOf(names, origin) \in [1 .. Len(names) -> ServerSpecs]
  BY <1>1, <1>2 DEF SpecsOf
<1>4. SpecsOf(names, origin) \in Seq(ServerSpecs)
  BY <1>1, <1>3, SeqDef
<1> QED BY <1>1, <1>3, <1>4 DEF SpecsOf

\* The names of the user's file are a sequence.
LEMMA FileIsSequence == ConfigFiles \subseteq Seq(ServerNames)
<1> SUFFICES ASSUME NEW file \in ConfigFiles PROVE file \in Seq(ServerNames)
  OBVIOUS
<1>1. ConfigNames \subseteq ServerNames
  BY DEF ServerNames
<1>2. CASE file = <<>>
  BY <1>2
<1>3. CASE \E n \in ConfigNames : file = <<n>>
  BY <1>1, <1>3
<1>4. CASE file \in ConfigNames \X ConfigNames
  <2>1. PICK m \in ConfigNames, n \in ConfigNames : file = <<m, n>>
    BY <1>4
  <2> QED BY <1>1, <2>1
<1> QED BY <1>2, <1>3, <1>4 DEF ConfigFiles

\* The built-in servers come before the others.
LEMMA OursBeforeTheirs ==
  ASSUME NEW ours \in Seq(ServerSpecs), NEW theirs \in Seq(ServerSpecs),
         \A i \in DOMAIN ours : ours[i].from = "labmate",
         \A i \in DOMAIN theirs : theirs[i].from = "user"
  PROVE  /\ ours \o theirs \in Seq(ServerSpecs)
         /\ \A i, j \in DOMAIN (ours \o theirs) :
               i < j /\ (ours \o theirs)[j].from = "labmate" => (ours \o theirs)[i].from = "labmate"
<1> DEFINE specs == ours \o theirs
<1>1. /\ specs \in Seq(ServerSpecs) /\ Len(specs) = Len(ours) + Len(theirs)
      /\ \A i \in 1 .. Len(ours) + Len(theirs) :
            specs[i] = IF i <= Len(ours) THEN ours[i] ELSE theirs[i - Len(ours)]
  BY ConcatProperties
<1> HIDE DEF specs
<1>2. /\ Len(ours) \in Nat /\ Len(theirs) \in Nat /\ DOMAIN ours = 1 .. Len(ours)
      /\ DOMAIN theirs = 1 .. Len(theirs) /\ DOMAIN specs = 1 .. (Len(ours) + Len(theirs))
  BY <1>1, LenProperties
<1>3. ASSUME NEW i \in DOMAIN specs, NEW j \in DOMAIN specs, i < j, specs[j].from = "labmate"
      PROVE  specs[i].from = "labmate"
  <2>1. CASE j <= Len(ours)
    <3>1. i \in 1 .. Len(ours) /\ i <= Len(ours)
      BY <1>2, <1>3, <2>1
    <3>2. specs[i] = ours[i]
      BY <1>1, <1>2, <3>1
    <3> QED BY <1>2, <3>1, <3>2
  <2>2. CASE ~(j <= Len(ours))
    <3>1. j - Len(ours) \in 1 .. Len(theirs)
      BY <1>2, <2>2
    <3>2. specs[j] = theirs[j - Len(ours)]
      BY <1>1, <1>2, <2>2
    <3>3. specs[j].from = "user"
      BY <1>2, <3>1, <3>2
    <3> QED BY <1>3, <3>3
  <2> QED BY <2>1, <2>2
<1> QED BY <1>1, <1>3 DEF specs

\* A spec is its name and where it comes from; no spec has no host.
LEMMA SpecsDiffer ==
  /\ \A s, t \in ServerSpecs : s.name = t.name /\ s.from = t.from => s = t
  /\ \A s \in ServerSpecs : s.name \in ServerNames /\ s.from \in {"labmate", "user"} /\ s # NoSpec
<1>1. \A s, t \in ServerSpecs : s.name = t.name /\ s.from = t.from => s = t
  BY DEF ServerSpecs
<1>2. \A s \in ServerSpecs : s.name \in ServerNames /\ s.from \in {"labmate", "user"}
  BY DEF ServerSpecs
<1>3. NoSpec.from \notin {"labmate", "user"}
  BY DEF NoSpec
<1> QED BY <1>1, <1>2, <1>3

\* What is left of the servers to start when the first is done with.
LEMMA RestToStart ==
  ASSUME McpInv, toStart # <<>>, toStart' = Tail(toStart)
  PROVE  /\ toStart' \in Seq(ServerSpecs) /\ Head(toStart) \in ServerSpecs
         /\ BuiltinsFirst'
         /\ toStart' # <<>> /\ Head(toStart').from = "labmate" => Head(toStart).from = "labmate"
<1>1. toStart \in Seq(ServerSpecs)
  BY DEF McpInv, McpTypeOK
<1>2. /\ toStart' \in Seq(ServerSpecs) /\ Head(toStart) = toStart[1]
      /\ Len(toStart') = Len(toStart) - 1 /\ Len(toStart) \in Nat /\ Len(toStart) > 0
      /\ \A i \in 1 .. Len(toStart') : toStart'[i] = toStart[i + 1]
      /\ toStart[1] \in ServerSpecs
  BY <1>1, HeadTailProperties, LenProperties, ElementOfSeq, EmptySeq
<1>3. DOMAIN toStart = 1 .. Len(toStart) /\ DOMAIN toStart' = 1 .. Len(toStart')
  BY <1>1, <1>2, LenProperties
<1>4. BuiltinsFirst'
  <2> SUFFICES ASSUME NEW i \in DOMAIN toStart', NEW j \in DOMAIN toStart', i < j,
                      toStart'[j].from = "labmate"
               PROVE  toStart'[i].from = "labmate"
    BY DEF BuiltinsFirst
  <2>1. i + 1 \in DOMAIN toStart /\ j + 1 \in DOMAIN toStart /\ i + 1 < j + 1
    BY <1>2, <1>3
  <2>2. toStart'[i] = toStart[i + 1] /\ toStart'[j] = toStart[j + 1]
    BY <1>2, <1>3
  <2> QED BY <2>1, <2>2 DEF McpInv, BuiltinsFirst
<1>5. ASSUME toStart' # <<>>, Head(toStart').from = "labmate"
      PROVE  Head(toStart).from = "labmate"
  <2>1. Len(toStart') > 0
    BY <1>2, <1>5, EmptySeq, LenProperties
  <2>2. Head(toStart') = toStart'[1] /\ 1 \in 1 .. Len(toStart')
    BY <1>2, <2>1
  <2>3. toStart'[1] = toStart[2] /\ 1 \in DOMAIN toStart /\ 2 \in DOMAIN toStart
    BY <1>2, <1>3, <2>1, <2>2
  <2> QED BY <1>2, <1>5, <2>2, <2>3 DEF McpInv, BuiltinsFirst
<1> QED BY <1>2, <1>4, <1>5

\* Starting a server: it is passed over, connects or fails, lists its tools or fails to.
LEMMA StartingKeeps ==
  McpInv /\ (NextServer \/ ConnectHost \/ ListHostTools) => McpInv'
<1> SUFFICES ASSUME McpInv, NextServer \/ ConnectHost \/ ListHostTools PROVE McpInv'
  OBVIOUS
<1>1. /\ toStart \in Seq(ServerSpecs) /\ startingAt \in {"next", "connecting", "listing", "over"}
      /\ mcpHosts \in [ServerNames -> ServerSpecs \union {NoSpec}]
      /\ mcpLive \subseteq ServerSpecs /\ mcpTools \subseteq ServerSpecs
      /\ inquirers \subseteq ServerSpecs /\ uninformed \subseteq ServerSpecs
      /\ mcpFaults \in 0 .. MaxMcpFaults
  BY DEF McpInv, McpTypeOK
<1>2. MaxMcpFaults \in Nat
  BY McpAssumption
<1>3. toStart # <<>> => Head(toStart) \in ServerSpecs
  BY <1>1, HeadTailProperties
<1>4. NextInLine => startingAt' = "next" /\ toStart' = Tail(toStart)
  BY DEF NextInLine
<1>5. CASE NextServer
  <2>1. CASE toStart = <<>>
    BY <1>5, <2>1 DEF NextServer, rootsSide, McpInv, McpTypeOK, BuiltinsFirst, StartingInv,
                      LiveReached, McpServersAgree
  <2>2. CASE /\ toStart # <<>>
             /\ Head(toStart).from = "user" => mcpHosts[Head(toStart).name] = NoSpec
             /\ startingAt' = "connecting" /\ UNCHANGED toStart
    BY <1>5, <2>2 DEF NextServer, rootsSide, McpInv, McpTypeOK, BuiltinsFirst, StartingInv,
                      LiveReached, McpServersAgree
  <2>3. CASE toStart # <<>> /\ NextInLine
    <3>1. /\ toStart' \in Seq(ServerSpecs) /\ BuiltinsFirst'
          /\ toStart' # <<>> /\ Head(toStart').from = "labmate" => Head(toStart).from = "labmate"
      BY <1>4, <2>3, RestToStart
    <3>2. UNCHANGED <<mcpHosts, mcpLive, mcpTools, inquirers, rootsSeen, mcpRoots, chatFolders,
                      uninformed, quitting, mcpFaults>>
      BY <1>5 DEF NextServer, rootsSide
    <3>3. McpTypeOK'
      BY <1>4, <2>3, <3>1, <3>2 DEF McpInv, McpTypeOK
    <3>4. StartingInv'
      BY <1>4, <2>3, <3>1, <3>2 DEF McpInv, StartingInv
    <3> QED BY <3>1, <3>2, <3>3, <3>4 DEF McpInv, LiveReached, McpServersAgree
  <2> QED BY <1>5, <2>1, <2>2, <2>3 DEF NextServer
<1>6. CASE ConnectHost
  <2> DEFINE spec == Head(toStart)
  <2>1. toStart # <<>> /\ spec \in ServerSpecs /\ startingAt = "connecting"
    BY <1>3, <1>6 DEF ConnectHost, McpInv, StartingInv
  <2>2. spec.name \in ServerNames /\ spec.from \in {"labmate", "user"} /\ spec # NoSpec
    BY <2>1, SpecsDiffer
  <2> HIDE DEF spec
  <2>3. UNCHANGED <<mcpTools, rootsSeen, mcpRoots, chatFolders, uninformed, quitting>>
    BY <1>6 DEF ConnectHost, rootsSide
  <2>4. CASE /\ mcpLive' = mcpLive \union {spec}
             /\ mcpHosts' = [mcpHosts EXCEPT ![spec.name] = spec]
             /\ inquirers' = inquirers \union {spec}
             /\ startingAt' = "listing" /\ UNCHANGED toStart /\ NoMcpFault
    <3>1. McpTypeOK'
      BY <1>1, <2>1, <2>2, <2>3, <2>4 DEF McpInv, McpTypeOK, NoMcpFault
    <3>2. BuiltinsFirst'
      BY <2>4 DEF McpInv, BuiltinsFirst
    <3>3. StartingInv'
      BY <1>1, <2>1, <2>3, <2>4 DEF McpInv, StartingInv, spec
    <3>4. ASSUME NEW s \in mcpLive, s.name = spec.name PROVE s = spec
      <4>1. s \in ServerSpecs /\ mcpHosts[s.name] = s /\ s # NoSpec
        BY <1>1, SpecsDiffer DEF McpInv, LiveReached
      <4>2. spec.from # "user"
        BY <2>1, <3>4, <4>1 DEF McpInv, StartingInv, spec
      <4>3. spec.from = "labmate" /\ s.from = "labmate"
        BY <2>1, <2>2, <4>2 DEF McpInv, StartingInv, spec
      <4> QED BY <2>1, <3>4, <4>1, <4>3, SpecsDiffer
    <3>5. ASSUME NEW s \in mcpLive \union {spec} PROVE mcpHosts'[s.name] = s
      <4>1. s \in ServerSpecs /\ s.name \in ServerNames
        BY <1>1, <2>1, <3>5, SpecsDiffer
      <4>2. CASE s.name = spec.name
        BY <1>1, <2>2, <2>4, <3>4, <4>2
      <4>3. CASE s.name # spec.name
        BY <1>1, <2>2, <2>4, <4>1, <4>3 DEF McpInv, LiveReached
      <4> QED BY <4>2, <4>3
    <3>6. LiveReached'
      BY <2>4, <3>5 DEF LiveReached
    <3>7. ASSUME quitting' = "no", NEW s \in mcpTools PROVE mcpHosts'[s.name] = s
      <4>1. s \in ServerSpecs /\ s.name \in ServerNames /\ s # NoSpec /\ mcpHosts[s.name] = s
        BY <1>1, <2>3, <3>7, SpecsDiffer DEF McpInv, McpServersAgree
      <4>2. CASE s.name = spec.name
        <5>1. spec.from # "user"
          BY <2>1, <4>1, <4>2 DEF McpInv, StartingInv, spec
        <5>2. spec.from = "labmate" /\ s.from = "labmate"
          BY <2>1, <2>2, <5>1 DEF McpInv, StartingInv, spec
        <5>3. s = spec
          BY <2>1, <4>1, <4>2, <5>2, SpecsDiffer
        <5> QED BY <1>1, <2>2, <2>4, <5>3
      <4>3. CASE s.name # spec.name
        BY <1>1, <2>2, <2>4, <4>1, <4>3
      <4> QED BY <4>2, <4>3
    <3>8. McpServersAgree'
      BY <2>3, <2>4, <3>5, <3>7 DEF McpInv, McpServersAgree
    <3> QED BY <3>1, <3>2, <3>3, <3>6, <3>8 DEF McpInv
  <2>5. CASE NextInLine /\ McpFault /\ UNCHANGED <<mcpHosts, mcpLive, inquirers>>
    <3>1. /\ toStart' \in Seq(ServerSpecs) /\ BuiltinsFirst'
          /\ toStart' # <<>> /\ Head(toStart').from = "labmate" => Head(toStart).from = "labmate"
      BY <1>4, <2>1, <2>5, RestToStart
    <3>2. mcpFaults' \in 0 .. MaxMcpFaults
      BY <1>1, <1>2, <2>5 DEF McpFault
    <3>3. McpTypeOK'
      BY <1>4, <2>3, <2>5, <3>1, <3>2 DEF McpInv, McpTypeOK
    <3>4. StartingInv'
      BY <1>4, <2>1, <2>3, <2>5, <3>1 DEF McpInv, StartingInv
    <3> QED BY <2>3, <2>5, <3>1, <3>3, <3>4 DEF McpInv, LiveReached, McpServersAgree
  <2> QED BY <1>6, <2>4, <2>5 DEF ConnectHost, spec
<1>7. CASE ListHostTools
  <2>1. toStart # <<>> /\ Head(toStart) \in ServerSpecs /\ NextInLine
    BY <1>3, <1>7 DEF ListHostTools, McpInv, StartingInv
  <2>2. UNCHANGED <<mcpHosts, mcpLive, inquirers, rootsSeen, mcpRoots, chatFolders, uninformed,
                    quitting>>
    BY <1>7 DEF ListHostTools, rootsSide
  <2>3. mcpTools' = mcpTools \/ (Head(toStart) \in mcpLive /\ mcpTools' = mcpTools \union {Head(toStart)})
    BY <1>7 DEF ListHostTools
  <2>4. mcpFaults' \in 0 .. MaxMcpFaults
    BY <1>1, <1>2, <1>7 DEF ListHostTools, McpFault, NoMcpFault
  <2>5. /\ toStart' \in Seq(ServerSpecs) /\ BuiltinsFirst'
        /\ toStart' # <<>> /\ Head(toStart').from = "labmate" => Head(toStart).from = "labmate"
    BY <1>4, <2>1, RestToStart
  <2>6. McpTypeOK'
    BY <1>1, <1>4, <2>1, <2>2, <2>3, <2>4, <2>5 DEF McpInv, McpTypeOK
  <2>7. StartingInv'
    BY <1>4, <2>1, <2>2, <2>3, <2>5 DEF McpInv, StartingInv
  <2>8. LiveReached' /\ McpServersAgree'
    BY <2>2, <2>3 DEF McpInv, LiveReached, McpServersAgree
  <2> QED BY <2>5, <2>6, <2>7, <2>8 DEF McpInv
<1> QED BY <1>5, <1>6, <1>7

\* The chats: whoever runs is told of new roots, or counts as not told.
LEMMA RootsKeep ==
  ASSUME McpInv, NEW c \in McpChats, ShowChatRoots(c) \/ ChangeRoots(c)
  PROVE  McpInv'
<1>1. /\ mcpHosts \in [ServerNames -> ServerSpecs \union {NoSpec}]
      /\ mcpLive \subseteq ServerSpecs /\ mcpTools \subseteq ServerSpecs
      /\ inquirers \subseteq ServerSpecs /\ uninformed \subseteq ServerSpecs
      /\ mcpFaults \in 0 .. MaxMcpFaults /\ chatFolders \in [McpChats -> 0 .. MaxFolders]
  BY DEF McpInv, McpTypeOK
<1>2. MaxMcpFaults \in Nat /\ MaxFolders \in Nat
  BY McpAssumption
<1>3. SetWorkspaceRoots(c)
  BY DEF ShowChatRoots, ChangeRoots
<1>4. chatFolders' \in [McpChats -> 0 .. MaxFolders]
  <2>1. CASE ShowChatRoots(c)
    BY <1>1, <2>1 DEF ShowChatRoots
  <2>2. CASE ChangeRoots(c)
    <3>1. chatFolders[c] + 1 \in 0 .. MaxFolders
      BY <1>1, <1>2, <2>2 DEF ChangeRoots
    <3> QED BY <1>1, <2>2, <3>1 DEF ChangeRoots
  <2> QED BY <2>1, <2>2
<1> DEFINE informed == {mcpHosts[n] : n \in ServerNames} \intersect mcpLive
<1>5. InformHosts(informed)
  BY <1>3 DEF SetWorkspaceRoots
<1>6. mcpLive \subseteq informed /\ informed \subseteq ServerSpecs
  <2>1. \A s \in mcpLive : s.name \in ServerNames /\ mcpHosts[s.name] = s
    BY <1>1, SpecsDiffer DEF McpInv, LiveReached
  <2> QED BY <1>1, <2>1
<1> HIDE DEF informed
<1>7. /\ inquirers' \subseteq ServerSpecs /\ uninformed' \subseteq ServerSpecs
      /\ mcpLive \subseteq inquirers' \union uninformed' /\ mcpFaults' \in 0 .. MaxMcpFaults
  BY <1>1, <1>2, <1>5, <1>6 DEF InformHosts, McpFault, NoMcpFault
<1>8. UNCHANGED <<toStart, startingAt, mcpHosts, mcpLive, mcpTools, rootsSeen, quitting>>
  BY <1>3 DEF SetWorkspaceRoots
<1>9. mcpRoots' \in RootSets
  BY <1>3, <1>4 DEF SetWorkspaceRoots, RootSets
<1>10. McpTypeOK'
  BY <1>4, <1>7, <1>8, <1>9 DEF McpInv, McpTypeOK
<1> QED BY <1>7, <1>8, <1>10
        DEF McpInv, BuiltinsFirst, StartingInv, LiveReached, McpServersAgree

\* Every step keeps the names and the roots right.
LEMMA McpStep == McpInv /\ [McpNext]_mcpVars => McpInv'
<1> SUFFICES ASSUME McpInv, [McpNext]_mcpVars PROVE McpInv'
  OBVIOUS
<1>1. CASE NextServer \/ ConnectHost \/ ListHostTools
  BY <1>1, StartingKeeps
<1>2. CASE QuitApplication
  BY <1>2 DEF QuitApplication, rootsSide, McpInv, McpTypeOK, BuiltinsFirst, StartingInv,
              LiveReached, McpServersAgree
<1>3. CASE ForgetHosts
  <2>1. mcpLive = {}
    <3>1. \A s \in mcpLive : s.name \in ServerNames /\ mcpHosts[s.name] = s
      BY SpecsDiffer DEF McpInv, McpTypeOK, LiveReached
    <3> QED BY <1>3, <3>1 DEF ForgetHosts
  <2>2. /\ quitting' = "done" /\ mcpHosts' = [n \in ServerNames |-> NoSpec]
        /\ UNCHANGED <<toStart, startingAt, mcpLive, mcpTools, inquirers, rootsSeen, mcpRoots,
                       chatFolders, uninformed, mcpFaults>>
    BY <1>3 DEF ForgetHosts, rootsSide
  <2>3. toStart # <<>> => Head(toStart).name \in ServerNames
    BY HeadTailProperties, SpecsDiffer DEF McpInv, McpTypeOK
  <2>4. McpTypeOK' /\ BuiltinsFirst'
    BY <2>2 DEF McpInv, McpTypeOK, BuiltinsFirst
  <2>5. StartingInv'
    BY <2>2, <2>3 DEF McpInv, StartingInv
  <2> QED BY <2>1, <2>2, <2>4, <2>5 DEF McpInv, LiveReached, McpServersAgree
<1>4. CASE \E s \in ServerSpecs : AnswerRoots(s)
  <2>1. PICK s \in ServerSpecs : AnswerRoots(s)
    BY <1>4
  <2>2. /\ inquirers' = inquirers \ {s} /\ rootsSeen' = [rootsSeen EXCEPT ![s] = mcpRoots]
        /\ UNCHANGED <<toStart, startingAt, mcpHosts, mcpLive, mcpTools, mcpRoots, chatFolders,
                       uninformed, quitting, mcpFaults>>
    BY <2>1 DEF AnswerRoots, rootsSide
  <2>3. rootsSeen \in [ServerSpecs -> RootSets \union {NoSpec}] /\ mcpRoots \in RootSets
    BY DEF McpInv, McpTypeOK
  <2>4. McpTypeOK'
    BY <2>2, <2>3 DEF McpInv, McpTypeOK
  <2>5. McpServersAgree'
    BY <2>2, <2>3 DEF McpInv, McpTypeOK, McpServersAgree
  <2> QED BY <2>2, <2>4, <2>5 DEF McpInv, BuiltinsFirst, StartingInv, LiveReached
<1>5. CASE \E s \in ServerSpecs : StopHost(s)
  <2>1. PICK s \in ServerSpecs : StopHost(s)
    BY <1>5
  <2>2. /\ quitting = "yes" /\ mcpLive' = mcpLive \ {s} /\ inquirers' = inquirers \ {s}
        /\ UNCHANGED <<toStart, startingAt, mcpHosts, mcpTools, rootsSeen, mcpRoots, chatFolders,
                       uninformed, quitting, mcpFaults>>
    BY <2>1 DEF StopHost, rootsSide
  <2> QED BY <2>2 DEF McpInv, McpTypeOK, BuiltinsFirst, StartingInv, LiveReached,
             McpServersAgree
<1>6. CASE \E c \in McpChats : ShowChatRoots(c) \/ ChangeRoots(c)
  BY <1>6, RootsKeep
<1>7. CASE UNCHANGED mcpVars
  BY <1>7 DEF mcpVars, McpInv, McpTypeOK, BuiltinsFirst, StartingInv, LiveReached,
     McpServersAgree
<1> QED BY <1>1, <1>2, <1>3, <1>4, <1>5, <1>6, <1>7 DEF McpNext

\* No server has started.
LEMMA McpInitInv == McpInit => McpInv
<1> SUFFICES ASSUME McpInit PROVE McpInv
  OBVIOUS
<1>1. PICK file \in ConfigFiles : toStart = SpecsOf(Builtins, "labmate") \o SpecsOf(file, "user")
  BY DEF McpInit, SpecsOf
<1>2. Builtins \in Seq(ServerNames)
  <2>1. DOMAIN Builtins = 1 .. Len(Builtins) /\ Len(Builtins) \in Nat
    BY McpAssumption, LenProperties
  <2>2. Builtins \in [1 .. Len(Builtins) -> ServerNames]
    BY <2>1, McpAssumption DEF ServerNames
  <2> QED BY <2>1, <2>2, SeqDef
<1>3. file \in Seq(ServerNames)
  BY FileIsSequence
<1>4. /\ toStart \in Seq(ServerSpecs)
      /\ \A i, j \in DOMAIN toStart : i < j /\ toStart[j].from = "labmate" => toStart[i].from = "labmate"
  BY <1>1, <1>2, <1>3, SpecsOfNames, OursBeforeTheirs
<1>5. 0 \in 0 .. MaxMcpFaults /\ 0 \in 0 .. MaxFolders
  BY McpAssumption
<1>6. mcpRoots \in RootSets /\ chatFolders \in [McpChats -> 0 .. MaxFolders]
  <2>1. PICK c \in McpChats : mcpRoots = [chat |-> c, folders |-> 0]
    BY DEF McpInit
  <2>2. mcpRoots \in RootSets
    BY <1>5, <2>1 DEF RootSets
  <2>3. chatFolders = [d \in McpChats |-> 0]
    BY DEF McpInit
  <2> QED BY <1>5, <2>2, <2>3
<1>7. McpTypeOK
  BY <1>4, <1>5, <1>6 DEF McpInit, McpTypeOK
<1> QED BY <1>4, <1>7
        DEF McpInit, McpInv, BuiltinsFirst, StartingInv, LiveReached, McpServersAgree

\* The invariant holds while servers start, run and stop.
LEMMA McpInvariant == McpSpec => []McpInv
<1> QED BY McpInitInv, McpStep, PTL DEF McpSpec

\* A server that runs or lists tools is the one its name leads to, and it knows the roots that
\* were set last unless it is about to ask or was not told, for any servers, chats and faults
\* (mcp-registry.ts).
THEOREM ServersKnowRoots == McpSpec => [](McpTypeOK /\ McpServersAgree)
<1>1. McpInv => McpTypeOK /\ McpServersAgree
  BY DEF McpInv
<1> QED BY <1>1, McpInvariant, PTL

\* What holds of 0, and of every number up to n that follows one of which it holds, holds of all
\* up to n.
LEMMA Stepwise ==
  ASSUME NEW n \in Nat, NEW good, 0 \in good, \A k \in 1 .. n : k - 1 \in good => k \in good
  PROVE  0 .. n \subseteq good
<1> DEFINE wrong == {k \in 0 .. n : k \notin good}
<1> SUFFICES ASSUME wrong # {} PROVE FALSE
  OBVIOUS
<1>1. wrong \subseteq Nat
  OBVIOUS
<1>2. PICK m \in wrong : \A k \in wrong : m <= k
  <2> HIDE DEF wrong
  <2> QED BY <1>1, LeastNatural
<1>3. m \in 1 .. n /\ m - 1 \in 0 .. n /\ ~(m <= m - 1)
  BY <1>2
<1> QED BY <1>2, <1>3

\* A part of 1 .. n has its greatest element, and a prefix its last.
LEMMA GreatestOfPrefix ==
  ASSUME NEW n \in Nat
  PROVE  /\ \A s \in SUBSET (1 .. n) : s # {} => Max(s) \in s
         /\ \A k \in 1 .. n : /\ Max(1 .. k) = k /\ (1 .. k) \ {k} = 1 .. (k - 1)
                              /\ 1 .. k # {} /\ 1 .. k \in SUBSET (1 .. n)
<1>1. ASSUME NEW s \in SUBSET (1 .. n), s # {}
      PROVE  Max(s) \in s /\ \A k \in s : Max(s) >= k
  <2>1. s \subseteq Nat /\ \A k \in s : k <= n
    OBVIOUS
  <2> QED BY <1>1, <2>1, GreatestIsMax
<1>2. ASSUME NEW k \in 1 .. n
      PROVE  /\ Max(1 .. k) = k /\ (1 .. k) \ {k} = 1 .. (k - 1)
             /\ 1 .. k # {} /\ 1 .. k \in SUBSET (1 .. n)
  <2>1. 1 .. k \in SUBSET (1 .. n) /\ k \in 1 .. k
    OBVIOUS
  <2>2. Max(1 .. k) \in 1 .. k /\ Max(1 .. k) >= k
    BY <1>1, <2>1
  <2> QED BY <2>1, <2>2
<1> QED BY <1>1, <1>2

\* The values a fold from the left has on the parts of 1 .. n, taking the greatest element last.
AreFolded(iter, n, base, step) ==
    iter = [s \in SUBSET (1 .. n) |->
                IF s = {} THEN base ELSE step[<<Max(s), iter[s \ {Max(s)}]>>]]

\* They exist: they are built from the smaller parts.
LEMMA FoldsExist ==
  ASSUME NEW n \in Nat, NEW V, NEW base \in V, NEW step \in [(1 .. n) \X V -> V]
  PROVE  \E iter \in [SUBSET (1 .. n) -> V] : AreFolded(iter, n, base, step)
<1> DEFINE D == 1 .. n
           small(m) == {s \in SUBSET D : Cardinality(s) <= m}
           folds(m, iter) == /\ iter \in [small(m) -> V]
                             /\ \A s \in small(m) : iter[s] =
                                   IF s = {} THEN base ELSE step[<<Max(s), iter[s \ {Max(s)}]>>]
           good == {m \in Nat : \E iter : folds(m, iter)}
<1>1. IsFiniteSet(D) /\ Cardinality(D) = n
  BY FS_Interval
<1>2. ASSUME NEW s \in SUBSET D
      PROVE  Cardinality(s) \in Nat /\ (Cardinality(s) = 0 <=> s = {}) /\ Cardinality(s) <= n
  <2>1. IsFiniteSet(s) /\ Cardinality(s) <= Cardinality(D)
    BY <1>1, FS_Subset
  <2>2. Cardinality(s) \in Nat /\ (Cardinality(s) = 0 <=> s = {})
    BY <2>1, FS_CardinalityType, FS_EmptySet
  <2> QED BY <1>1, <2>1, <2>2
<1>3. \A s \in SUBSET D : s # {} =>
         Max(s) \in D /\ s \ {Max(s)} \in SUBSET D /\ Cardinality(s \ {Max(s)}) = Cardinality(s) - 1
  BY <1>1, FS_Subset, FS_RemoveElement, GreatestOfPrefix
<1>4. 0 \in good
  <2>1. small(0) = {{}}
    BY <1>2
  <2>2. folds(0, [s \in small(0) |-> base])
    BY <2>1
  <2> QED BY <2>2
<1>5. ASSUME NEW m \in 1 .. n, m - 1 \in good PROVE m \in good
  <2>1. PICK iter : folds(m - 1, iter)
    BY <1>5
  <2> DEFINE next == [s \in small(m) |->
                          IF s = {} THEN base ELSE step[<<Max(s), iter[s \ {Max(s)}]>>]]
  <2>2. \A s \in small(m) : s # {} => Max(s) \in D /\ s \ {Max(s)} \in small(m - 1)
    BY <1>2, <1>3
  <2>3. next \in [small(m) -> V]
    BY <2>1, <2>2
  <2>4. \A s \in small(m - 1) : s \in small(m) /\ next[s] = iter[s]
    <3>1. small(m - 1) \subseteq small(m)
      BY <1>2
    <3> QED BY <2>1, <3>1
  <2>5. folds(m, next)
    <3>1. \A s \in small(m) : next[s] =
             IF s = {} THEN base ELSE step[<<Max(s), iter[s \ {Max(s)}]>>]
      OBVIOUS
    <3> HIDE DEF next
    <3>2. ASSUME NEW s \in small(m)
          PROVE  next[s] = IF s = {} THEN base ELSE step[<<Max(s), next[s \ {Max(s)}]>>]
      <4>1. CASE s = {}
        BY <3>1, <4>1
      <4>2. CASE s # {}
        <5>1. next[s \ {Max(s)}] = iter[s \ {Max(s)}]
          BY <2>2, <2>4, <4>2
        <5>2. next[s] = step[<<Max(s), iter[s \ {Max(s)}]>>]
          BY <3>1, <4>2
        <5> QED BY <4>2, <5>1, <5>2
      <4> QED BY <4>1, <4>2
    <3> HIDE DEF small
    <3> QED BY <2>3, <3>2
  <2>6. m \in Nat
    OBVIOUS
  <2> HIDE DEF next, folds
  <2> QED BY <2>5, <2>6
<1> HIDE DEF good
<1>6. n \in good
  BY <1>4, <1>5, Stepwise
<1>7. PICK iter : folds(n, iter)
  BY <1>6 DEF good
<1>8. small(n) = SUBSET D
  BY <1>2
<1>9. iter \in [SUBSET (1 .. n) -> V] /\ AreFolded(iter, n, base, step)
  BY <1>7, <1>8 DEF AreFolded
<1> QED BY <1>9

\* One step more of those that are added.
StepMore(s, t, k) == Append(s \o SubSeq(t, 1, k - 1), t[k]) = s \o SubSeq(t, 1, k)

LEMMA StepsAdded ==
  ASSUME NEW S, NEW s \in Seq(S), NEW t \in Seq(S), NEW k \in 1 .. Len(t)
  PROVE  StepMore(s, t, k)
BY DEF StepMore

\* Normalizing steps that are all names adds them to the place.
LEMMA NamesAreAdded ==
  ASSUME NEW place \in Seq(PathNames), NEW steps \in Seq(PathNames)
  PROVE  Normalized(place, steps) = place \o steps
<1> DEFINE n == Len(steps)
           V == Seq(PathNames)
           step == [p \in (1 .. n) \X V |-> Append(p[2], steps[p[1]])]
<1>1. n \in Nat /\ DOMAIN steps = 1 .. n /\ \A i \in 1 .. n : steps[i] \in PathNames /\ steps[i] # Up
  BY LenProperties, ElementOfSeq, FoldersAssumption
<1>2. step \in [(1 .. n) \X V -> V]
  <2>1. ASSUME NEW p \in (1 .. n) \X V PROVE Append(p[2], steps[p[1]]) \in V
    <3>1. p[1] \in 1 .. n /\ p[2] \in V
      OBVIOUS
    <3> QED BY <1>1, <3>1
  <2> QED BY <2>1
<1> HIDE DEF step
<1>3. PICK iter \in [SUBSET (1 .. n) -> V] : AreFolded(iter, n, place, step)
  BY <1>1, <1>2, FoldsExist
<1>4. \A s \in SUBSET (1 .. n) : s # {} => Max(s) \in 1 .. n /\ s \ {Max(s)} \in SUBSET (1 .. n)
  BY <1>1, GreatestOfPrefix
<1>5. \A s \in SUBSET (1 .. n) : s # {} =>
         step[<<Max(s), iter[s \ {Max(s)}]>>] = Append(iter[s \ {Max(s)}], steps[Max(s)])
  BY <1>3, <1>4 DEF step
<1> DEFINE AreNormal(it) ==
               it = [s \in SUBSET (1 .. n) |->
                         IF s = {} THEN place
                         ELSE IF steps[Max(s)] # Up THEN Append(it[s \ {Max(s)}], steps[Max(s)])
                              ELSE IF it[s \ {Max(s)}] = <<>> THEN it[s \ {Max(s)}]
                                   ELSE Front(it[s \ {Max(s)}])]
<1>6. AreNormal(iter)
  BY <1>1, <1>3, <1>4, <1>5 DEF AreFolded
<1>7. Normalized(place, steps) =
        LET it == CHOOSE it : AreNormal(it) IN it[1 .. n]
  BY <1>1 DEF Normalized, FoldLeft, MapThenFoldSet
<1>8. PICK it : AreNormal(it) /\ Normalized(place, steps) = it[1 .. n]
  <2> HIDE DEF AreNormal
  <2> QED BY <1>6, <1>7
<1> DEFINE good == {k \in 0 .. n : it[1 .. k] = place \o SubSeq(steps, 1, k)}
<1>9. 0 \in good
  <2>1. 1 .. 0 = {} /\ SubSeq(steps, 1, 0) = <<>>
    OBVIOUS
  <2>2. it[1 .. 0] = place
    BY <1>8, <2>1
  <2> QED BY <1>1, <2>1, <2>2
<1>10. ASSUME NEW k \in 1 .. n, k - 1 \in good PROVE k \in good
  <2>1. Max(1 .. k) = k /\ (1 .. k) \ {k} = 1 .. (k - 1) /\ 1 .. k # {} /\ 1 .. k \in SUBSET (1 .. n)
    BY <1>1, GreatestOfPrefix
  <2>2. it[1 .. k] = Append(it[1 .. (k - 1)], steps[k])
    BY <1>1, <1>8, <2>1
  <2>3. it[1 .. k] = Append(place \o SubSeq(steps, 1, k - 1), steps[k])
    BY <1>10, <2>2
  <2>4. it[1 .. k] = place \o SubSeq(steps, 1, k)
    <3>1. StepMore(place, steps, k)
      BY StepsAdded
    <3> QED BY <2>3, <3>1 DEF StepMore
  <2> QED BY <1>1, <2>4
<1> HIDE DEF good
<1>11. 0 .. n \subseteq good
  <2> HIDE DEF n
  <2> QED BY <1>1, <1>9, <1>10, Stepwise
<1>12. n \in good
  BY <1>1, <1>11
<1>13. SubSeq(steps, 1, n) = steps
  BY <1>1
<1> QED BY <1>8, <1>12, <1>13 DEF good

\* Adding folders to folders gives folders.
LEMMA FoldersJoined ==
  ASSUME NEW roots \in Seq(SomeFolders), NEW folders \in Seq(SomeFolders)
  PROVE  Joined(roots, folders) \in Seq(SomeFolders)
<1> DEFINE n == Len(folders)
           V == Seq(SomeFolders)
           step == [p \in (1 .. n) \X V |-> IF Contains(p[2], folders[p[1]]) THEN p[2]
                                            ELSE Append(p[2], folders[p[1]])]
<1>1. n \in Nat /\ DOMAIN folders = 1 .. n /\ \A i \in 1 .. n : folders[i] \in SomeFolders
  BY LenProperties, ElementOfSeq
<1>2. step \in [(1 .. n) \X V -> V]
  <2>1. ASSUME NEW p \in (1 .. n) \X V PROVE step[p] \in V
    <3>1. p[1] \in 1 .. n /\ p[2] \in V
      OBVIOUS
    <3> QED BY <1>1, <3>1
  <2> QED BY <2>1
<1> HIDE DEF step
<1>3. PICK iter \in [SUBSET (1 .. n) -> V] : AreFolded(iter, n, roots, step)
  BY <1>1, <1>2, FoldsExist
<1>4. \A s \in SUBSET (1 .. n) : s # {} => Max(s) \in 1 .. n /\ s \ {Max(s)} \in SUBSET (1 .. n)
  BY <1>1, GreatestOfPrefix
<1>5. \A s \in SUBSET (1 .. n) : s # {} =>
         step[<<Max(s), iter[s \ {Max(s)}]>>] =
             IF Contains(iter[s \ {Max(s)}], folders[Max(s)]) THEN iter[s \ {Max(s)}]
             ELSE Append(iter[s \ {Max(s)}], folders[Max(s)])
  BY <1>3, <1>4 DEF step
<1> DEFINE are(it) ==
               it = [s \in SUBSET (1 .. n) |->
                         IF s = {} THEN roots
                         ELSE IF Contains(it[s \ {Max(s)}], folders[Max(s)]) THEN it[s \ {Max(s)}]
                              ELSE Append(it[s \ {Max(s)}], folders[Max(s)])]
<1>6. are(iter)
  BY <1>3, <1>5 DEF AreFolded
<1>7. Joined(roots, folders) = LET it == CHOOSE it : are(it) IN it[1 .. n]
  BY <1>1 DEF Joined, FoldLeft, MapThenFoldSet
<1>8. PICK it : are(it) /\ Joined(roots, folders) = it[1 .. n]
  <2> HIDE DEF are
  <2> QED BY <1>6, <1>7
<1> DEFINE good == {k \in 0 .. n : it[1 .. k] \in V}
<1>9. 0 \in good
  <2>1. 1 .. 0 = {} /\ it[{}] = roots
    BY <1>8
  <2> QED BY <1>1, <2>1
<1>10. ASSUME NEW k \in 1 .. n, k - 1 \in good PROVE k \in good
  <2>1. Max(1 .. k) = k /\ (1 .. k) \ {k} = 1 .. (k - 1) /\ 1 .. k # {} /\ 1 .. k \in SUBSET (1 .. n)
    BY <1>1, GreatestOfPrefix
  <2>2. it[1 .. k] = it[1 .. (k - 1)] \/ it[1 .. k] = Append(it[1 .. (k - 1)], folders[k])
    BY <1>8, <2>1
  <2>3. it[1 .. (k - 1)] \in Seq(SomeFolders) /\ folders[k] \in SomeFolders
    BY <1>1, <1>10
  <2>4. Append(it[1 .. (k - 1)], folders[k]) \in Seq(SomeFolders)
    BY <2>3, AppendProperties
  <2>5. it[1 .. k] \in V
    BY <2>2, <2>3, <2>4
  <2> HIDE DEF V
  <2> QED BY <1>1, <2>5
<1> HIDE DEF good
<1>11. 0 .. n \subseteq good
  <2> HIDE DEF n
  <2> QED BY <1>1, <1>9, <1>10, Stepwise
<1>12. n \in good
  BY <1>1, <1>11
<1> QED BY <1>8, <1>12 DEF good

\* Folders without one of them are folders.
LEMMA FoldersLeft ==
  ASSUME NEW roots \in Seq(SomeFolders), NEW folder
  PROVE  Without(roots, folder) \in Seq(SomeFolders)
<1> DEFINE n == Len(roots)
           V == Seq(SomeFolders)
           step == [p \in (1 .. n) \X V |-> IF roots[p[1]] = folder THEN p[2] ELSE Append(p[2], roots[p[1]])]
<1>1. n \in Nat /\ DOMAIN roots = 1 .. n /\ \A i \in 1 .. n : roots[i] \in SomeFolders
  BY LenProperties, ElementOfSeq
<1>2. step \in [(1 .. n) \X V -> V]
  <2>1. ASSUME NEW p \in (1 .. n) \X V PROVE step[p] \in V
    <3>1. p[1] \in 1 .. n /\ p[2] \in V
      OBVIOUS
    <3> QED BY <1>1, <3>1
  <2> QED BY <2>1
<1>3. <<>> \in V
  OBVIOUS
<1> HIDE DEF step
<1>4. PICK iter \in [SUBSET (1 .. n) -> V] : AreFolded(iter, n, <<>>, step)
  BY <1>1, <1>2, <1>3, FoldsExist
<1>5. \A s \in SUBSET (1 .. n) : s # {} => Max(s) \in 1 .. n /\ s \ {Max(s)} \in SUBSET (1 .. n)
  BY <1>1, GreatestOfPrefix
<1>6. \A s \in SUBSET (1 .. n) : s # {} =>
         step[<<Max(s), iter[s \ {Max(s)}]>>] =
             IF roots[Max(s)] = folder THEN iter[s \ {Max(s)}]
             ELSE Append(iter[s \ {Max(s)}], roots[Max(s)])
  BY <1>4, <1>5 DEF step
<1> DEFINE are(it) ==
               it = [s \in SUBSET (1 .. n) |->
                         IF s = {} THEN <<>>
                         ELSE IF roots[Max(s)] = folder THEN it[s \ {Max(s)}]
                              ELSE Append(it[s \ {Max(s)}], roots[Max(s)])]
<1>7. are(iter)
  BY <1>4, <1>6 DEF AreFolded
<1>8. Without(roots, folder) = LET it == CHOOSE it : are(it) IN it[1 .. n]
  BY <1>1 DEF Without, FoldLeft, MapThenFoldSet
<1>9. PICK it : are(it) /\ Without(roots, folder) = it[1 .. n]
  <2> HIDE DEF are
  <2> QED BY <1>7, <1>8
<1> DEFINE good == {k \in 0 .. n : it[1 .. k] \in V}
<1>10. 0 \in good
  <2>1. 1 .. 0 = {} /\ it[{}] = <<>>
    BY <1>9
  <2> HIDE DEF V
  <2> QED BY <1>1, <1>3, <2>1
<1>11. ASSUME NEW k \in 1 .. n, k - 1 \in good PROVE k \in good
  <2>1. Max(1 .. k) = k /\ (1 .. k) \ {k} = 1 .. (k - 1) /\ 1 .. k # {} /\ 1 .. k \in SUBSET (1 .. n)
    <3>1. n \in Nat
      BY <1>1
    <3> HIDE DEF n
    <3> QED BY <3>1, GreatestOfPrefix
  <2>2. it[1 .. k] = it[1 .. (k - 1)] \/ it[1 .. k] = Append(it[1 .. (k - 1)], roots[k])
    BY <1>9, <2>1
  <2>3. it[1 .. (k - 1)] \in Seq(SomeFolders) /\ roots[k] \in SomeFolders
    BY <1>1, <1>11
  <2>4. Append(it[1 .. (k - 1)], roots[k]) \in Seq(SomeFolders)
    BY <2>3, AppendProperties
  <2>5. it[1 .. k] \in V
    BY <2>2, <2>3, <2>4
  <2> HIDE DEF V
  <2> QED BY <1>1, <2>5
<1> HIDE DEF good
<1>12. 0 .. n \subseteq good
  <2> HIDE DEF n
  <2> QED BY <1>1, <1>10, <1>11, Stepwise
<1>13. n \in good
  BY <1>1, <1>12
<1> QED BY <1>9, <1>13 DEF good

\* An entry of a folder is inside of it, unless its name begins with a dot.
LEMMA EntryInside ==
  ASSUME NEW root \in Seq(PathNames), NEW name \in PathNames \ DottedNames
  PROVE  Inside(root \o <<name>>, root)
<1>1. /\ Len(root \o <<name>>) = Len(root) + 1 /\ (root \o <<name>>)[Len(root) + 1] = name
      /\ SubSeq(root, 1, Len(root)) = SubSeq(root \o <<name>>, 1, Len(root))
      /\ Len(root) \in Nat
  OBVIOUS
<1> QED BY <1>1 DEF Inside, IsPrefix

\* What a search found is what its path leads to.
LEMMA FoundResolves ==
  ASSUME NEW roots \in Seq(SomeFolders), NEW i \in DOMAIN roots, NEW name \in PathNames \ DottedNames
  PROVE  LET found == Found(roots, i, <<name>>)
         IN ResolveToolPath(found.path, roots) = found.place
<1>1. DOMAIN roots = 1 .. Len(roots) /\ Len(roots) \in Nat /\ roots # <<>> /\ 1 \in DOMAIN roots
  BY LenProperties, EmptySeq
<1>2. roots[i] \in Seq(PathNames) /\ <<name>> \in Seq(PathNames)
  BY <1>1, FoldersAssumption, ElementOfSeq
<1> DEFINE place == roots[i] \o <<name>>
<1>3. place \in Seq(PathNames) /\ <<>> \o place = place
  <2>1. place \in Seq(PathNames)
    BY <1>2, ConcatProperties
  <2> HIDE DEF place
  <2> QED BY <2>1, ConcatEmptySeq
<1>4. Inside(place, roots[i])
  BY <1>2, EntryInside
<1>5. CASE i = 1
  <2>1. Normalized(roots[1], <<name>>) = place
    BY <1>2, <1>5, NamesAreAdded
  <2> HIDE DEF place
  <2> QED BY <1>1, <1>4, <1>5, <2>1 DEF ResolveToolPath, Found, place
<1>6. CASE i # 1
  <2>1. Normalized(<<>>, place) = place
    <3>1. <<>> \in Seq(PathNames)
      OBVIOUS
    <3> HIDE DEF place
    <3> QED BY <1>3, <3>1, NamesAreAdded
  <2>2. roots[i] \in ToSet(roots)
    BY DEF ToSet
  <2> QED BY <1>1, <1>4, <1>6, <2>1, <2>2 DEF ResolveToolPath, Found
<1> QED BY <1>5, <1>6

\* A path that is not refused leads into one of the folders.
LEMMA ResolvedInside ==
  ASSUME NEW roots \in Seq(SomeFolders), NEW path
  PROVE  LET place == ResolveToolPath(path, roots)
         IN place = Nowhere \/ \E i \in DOMAIN roots : IsPrefix(roots[i], place)
<1> DEFINE place == ResolveToolPath(path, roots)
<1>1. CASE place = Nowhere
  BY <1>1
<1>2. CASE place # Nowhere
  <2>1. PICK root : /\ roots # <<>> /\ root \in (IF path.absolute THEN ToSet(roots) ELSE {roots[1]})
                    /\ Inside(place, root)
    BY <1>2 DEF ResolveToolPath
  <2>2. \E i \in DOMAIN roots : root = roots[i]
    BY <2>1, LenProperties, EmptySeq DEF ToSet
  <2> QED BY <2>1, <2>2 DEF Inside
<1> QED BY <1>1, <1>2

\* Multiplying keeps an order.
LEMMA TimesKeepsOrder ==
  ASSUME NEW a \in Nat, NEW b \in Nat, NEW c \in Nat, a < b
  PROVE  a * c + c <= b * c
<1>1. PICK d \in Nat : b = a + 1 + d
  <2>1. b - a - 1 \in Nat /\ b = a + 1 + (b - a - 1)
    OBVIOUS
  <2> QED BY <2>1
<1>2. b * c = a * c + c + d * c /\ d * c >= 0
  BY <1>1
<1> QED BY <1>2

\* The pages of a file have each of its lines once.
LEMMA PagesHaveEachLine ==
  ASSUME NEW n \in Nat, NEW limit \in Nat, limit > 0
  PROVE  LET page(k) == ReadLines(n, 1 + k * limit, limit)
         IN /\ UNION {page(k) : k \in 0 .. n} = ReadLines(n, 0, 0)
            /\ \A j, k \in 0 .. n : j # k => page(j) \intersect page(k) = {}
<1> DEFINE page(k) == ReadLines(n, 1 + k * limit, limit)
<1>1. ASSUME NEW k \in Nat
      PROVE  /\ k * limit \in Nat /\ (k + 1) * limit = k * limit + limit
             /\ page(k) = {i \in 1 .. n : i >= 1 + k * limit /\ i < 1 + k * limit + limit}
  <2>1. k * limit \in Nat /\ (k + 1) * limit = k * limit + limit
    OBVIOUS
  <2>2. 1 + k * limit # 0
    BY <2>1
  <2> QED BY <2>1, <2>2 DEF ReadLines
<1>2. ReadLines(n, 0, 0) = 1 .. n
  BY DEF ReadLines
<1> HIDE DEF page
<1> DEFINE good == {i \in 0 .. n : i > 0 => \E k \in 0 .. (i - 1) : i \in page(k)}
<1>3. 0 \in good
  OBVIOUS
<1>4. ASSUME NEW i \in 1 .. n, i - 1 \in good PROVE i \in good
  <2>1. CASE i = 1
    <3>1. 0 * limit = 0
      OBVIOUS
    <3>2. 1 \in page(0)
      BY <1>1, <2>1, <3>1
    <3> QED BY <2>1, <3>2
  <2>2. CASE i > 1
    <3>1. PICK k \in 0 .. (i - 2) : i - 1 \in page(k)
      BY <1>4, <2>2
    <3>2. /\ k * limit \in Nat /\ (k + 1) * limit = k * limit + limit /\ k \in Nat /\ k + 1 \in Nat
          /\ i - 1 >= 1 + k * limit /\ i - 1 < 1 + k * limit + limit
      BY <1>1, <3>1
    <3>3. CASE i < 1 + k * limit + limit
      <4>1. i \in page(k)
        BY <1>1, <3>2, <3>3
      <4> QED BY <2>2, <4>1
    <3>4. CASE ~(i < 1 + k * limit + limit)
      <4>1. i \in page(k + 1)
        BY <1>1, <3>2, <3>4
      <4> QED BY <2>2, <4>1
    <3> QED BY <3>3, <3>4
  <2> QED BY <2>1, <2>2
<1> HIDE DEF good
<1>5. 0 .. n \subseteq good
  BY <1>3, <1>4, Stepwise
<1>6. \A i \in 1 .. n : \E k \in 0 .. n : i \in page(k)
  BY <1>5 DEF good
<1>7. \A k \in 0 .. n : page(k) \subseteq 1 .. n
  BY <1>1
<1>8. UNION {page(k) : k \in 0 .. n} = ReadLines(n, 0, 0)
  BY <1>2, <1>6, <1>7
<1>9. ASSUME NEW j \in 0 .. n, NEW k \in 0 .. n, j < k PROVE page(j) \intersect page(k) = {}
  <2>1. j * limit + limit <= k * limit
    BY <1>9, TimesKeepsOrder
  <2> QED BY <1>1, <2>1
<1>10. \A j, k \in 0 .. n : j # k => page(j) \intersect page(k) = {}
  <2> SUFFICES ASSUME NEW j \in 0 .. n, NEW k \in 0 .. n, j # k
               PROVE  page(j) \intersect page(k) = {}
    OBVIOUS
  <2>1. j < k \/ k < j
    OBVIOUS
  <2>2. page(k) \intersect page(j) = page(j) \intersect page(k)
    OBVIOUS
  <2> QED BY <1>9, <2>1, <2>2
<1> QED BY <1>8, <1>10 DEF page

LEMMA ReadsAndSearchesTell == ToolsTell
<1>1. MaxLines \in Nat /\ MaxHits \in Nat /\ MaxHits > 0
  BY FoldersAssumption
<1>2. \A n \in 0 .. MaxLines, limit \in 1 .. MaxLines :
          LET page(k) == ReadLines(n, 1 + k * limit, limit)
          IN /\ UNION {page(k) : k \in 0 .. n} = ReadLines(n, 0, 0)
             /\ \A j, k \in 0 .. n : j # k => page(j) \intersect page(k) = {}
  <2> SUFFICES ASSUME NEW n \in 0 .. MaxLines, NEW limit \in 1 .. MaxLines
               PROVE  LET page(k) == ReadLines(n, 1 + k * limit, limit)
                      IN /\ UNION {page(k) : k \in 0 .. n} = ReadLines(n, 0, 0)
                         /\ \A j, k \in 0 .. n : j # k => page(j) \intersect page(k) = {}
    OBVIOUS
  <2>1. n \in Nat /\ limit \in Nat /\ limit > 0
    BY <1>1
  <2> QED BY <2>1, PagesHaveEachLine
<1>3. \A matches \in 0 .. (MaxHits + 1), status \in 0 .. 2 :
          LET answer == SearchAnswer(status, matches) IN
          (matches > 0 <=> status # 1) /\ "error" \notin DOMAIN answer =>
              /\ answer.hits = 0 <=> matches = 0
              /\ answer.truncated <=> answer.hits < matches
  <2> SUFFICES ASSUME NEW matches \in 0 .. (MaxHits + 1), NEW status \in 0 .. 2
               PROVE  LET answer == SearchAnswer(status, matches) IN
                      (matches > 0 <=> status # 1) /\ "error" \notin DOMAIN answer =>
                          /\ answer.hits = 0 <=> matches = 0
                          /\ answer.truncated <=> answer.hits < matches
    OBVIOUS
  <2>1. CASE status = 0
    <3>1. SearchAnswer(status, matches) = [hits |-> IF matches > MaxHits THEN MaxHits ELSE matches,
                                           truncated |-> matches > MaxHits]
      BY <2>1 DEF SearchAnswer
    <3>2. SearchAnswer(status, matches).hits = IF matches > MaxHits THEN MaxHits ELSE matches
      BY <3>1
    <3>3. SearchAnswer(status, matches).truncated <=> matches > MaxHits
      <4>1. ASSUME NEW sure \in BOOLEAN, matches > MaxHits <=> sure
            PROVE  SearchAnswer(status, matches).truncated = sure
        <5>1. (matches > MaxHits) = sure
          BY <4>1
        <5>2. SearchAnswer(status, matches) =
                [hits |-> IF matches > MaxHits THEN MaxHits ELSE matches, truncated |-> sure]
          BY <3>1, <5>1, Zenon
        <5> QED BY <5>2
      <4> QED BY <4>1
    <3>4. SearchAnswer(status, matches).hits = 0 <=> matches = 0
      BY <1>1, <3>2
    <3>5. matches > MaxHits <=> SearchAnswer(status, matches).hits < matches
      BY <1>1, <3>2
    <3> QED BY <3>3, <3>4, <3>5
  <2>2. CASE status = 1
    BY <1>1, <2>2 DEF SearchAnswer
  <2>3. CASE status = 2
    BY <1>1, <2>3 DEF SearchAnswer
  <2> QED BY <2>1, <2>2, <2>3
<1> QED BY <1>2, <1>3 DEF ToolsTell

-----------------------------------------------------------------------------
(* The folders of the chats                                                *)

\* A folder or none, and for each chat no entry or a list of folders.
AreFolders(s) ==
    s \in [default : SomeFolders \union {NoFolder},
           perChat : [FolderChats -> {NoEntry} \union Seq(SomeFolders)]]

StoreInv ==
    /\ AreFolders(store) /\ dialogue \in ChatIds
    /\ AreFolders(storeFile.state) /\ storeFile \in [state : {storeFile.state}, whole : BOOLEAN]

\* What a restart reads is what the user left, unless a change was not saved.
SavedInv ==
    /\ store.perChat = chosen /\ unsaved \in BOOLEAN
    /\ ~unsaved => chosen = (IF storeFile.whole THEN storeFile.state ELSE EmptyStore).perChat

\* The renderer knows the chat of a turn, or learns it from one of the first n frames.
Placed(t, n) ==
    /\ t \in ToolTurns /\ sentIn[t] # NoChatId
    /\ \/ turnChat[t] = sentIn[t]
       \/ \E j \in 1 .. n : inbound[j] = [kind |-> "turn.created", turn |-> t]

\* Before a tool request comes what places its turn.
FramesInv ==
    /\ sentIn \in [ToolTurns -> ChatIds] /\ turnChat \in [ToolTurns -> ChatIds]
    /\ inbound \in Seq(Frames)
    /\ \A t \in toldOf : Placed(t, Len(inbound))
    /\ \A i \in 1 .. Len(inbound) :
           inbound[i].kind = "tool.request" => Placed(inbound[i].turn, i - 1)

\* A tool that is wanted is to work in the chat of its turn.
WantedInv ==
    /\ wanted \subseteq [turn : ToolTurns, chat : ChatIds]
    /\ \A call \in wanted : call.chat = sentIn[call.turn] /\ call.chat # NoChatId

FoldersInv == StoreInv /\ SavedInv /\ FramesInv /\ WantedInv /\ FoldersRight

LEMMA RootsAreFolders ==
  ASSUME StoreInv, NEW chat
  PROVE  Roots(chat) \in Seq(SomeFolders)
<1>1. CASE chat \in FolderChats /\ store.perChat[chat] # NoEntry
  BY <1>1 DEF StoreInv, AreFolders, Roots
<1>2. CASE ~(chat \in FolderChats /\ store.perChat[chat] # NoEntry)
  <2>1. store.default = NoFolder \/ store.default \in SomeFolders
    BY DEF StoreInv, AreFolders
  <2>2. store.default # NoFolder => <<store.default>> \in Seq(SomeFolders)
    BY <2>1
  <2>3. <<>> \in Seq(SomeFolders)
    OBVIOUS
  <2> QED BY <1>2, <2>2, <2>3 DEF Roots
<1> QED BY <1>1, <1>2

\* Without an entry, or with a default seeded, a store is one.
LEMMA SeededStore ==
  /\ AreFolders(EmptyStore)
  /\ \A s : AreFolders(s) => AreFolders(Seeded(s)) /\ Seeded(s).perChat = s.perChat
<1>1. AreFolders(EmptyStore)
  BY DEF AreFolders, EmptyStore
<1>2. ASSUME NEW s, AreFolders(s) PROVE AreFolders(Seeded(s)) /\ Seeded(s).perChat = s.perChat
  BY <1>2, FoldersAssumption DEF AreFolders, Seeded
<1> QED BY <1>1, <1>2

\* Saving keeps the file a store, and what it holds is what was saved unless that is noted.
LEMMA SavedStore ==
  ASSUME StoreInv, NEW new, AreFolders(new), Save(new)
  PROVE  /\ store' = new
         /\ AreFolders(storeFile.state)' /\ storeFile' \in [state : {storeFile'.state}, whole : BOOLEAN]
         /\ unsaved' \in BOOLEAN
         /\ ~unsaved' => storeFile'.whole /\ storeFile'.state = new
<1>1. CASE storeFile' = [state |-> new, whole |-> TRUE] /\ unsaved' = FALSE
  BY <1>1 DEF Save, AreFolders
<1>2. CASE unsaved' = TRUE /\ UNCHANGED storeFile
  BY <1>2 DEF Save, AreFolders, StoreInv
<1>3. CASE unsaved' = TRUE /\ storeFile' = [storeFile EXCEPT !.whole = FALSE]
  BY <1>3 DEF Save, AreFolders, StoreInv
<1> QED BY <1>1, <1>2, <1>3 DEF Save

\* What a change of one chat's folders leaves is a store.
LEMMA FoldersReplaced ==
  ASSUME StoreInv, SavedInv, NEW chat \in FolderChats, NEW next \in Seq(SomeFolders),
         Save([store EXCEPT !.perChat[chat] = next]), chosen' = [chosen EXCEPT ![chat] = next],
         dialogue' \in ChatIds
  PROVE  StoreInv' /\ SavedInv'
<1> DEFINE new == [store EXCEPT !.perChat[chat] = next]
<1>1. AreFolders(new) /\ new.perChat = [store.perChat EXCEPT ![chat] = next]
  BY DEF StoreInv, AreFolders
<1> HIDE DEF new
<1>2. Save(new)
  BY DEF new
<1>3. /\ store' = new
      /\ AreFolders(storeFile.state)' /\ storeFile' \in [state : {storeFile'.state}, whole : BOOLEAN]
      /\ unsaved' \in BOOLEAN
      /\ ~unsaved' => storeFile'.whole /\ storeFile'.state = new
  BY <1>1, <1>2, SavedStore
<1>4. StoreInv'
  BY <1>1, <1>3 DEF StoreInv, AreFolders
<1>5. SavedInv'
  BY <1>1, <1>3 DEF SavedInv
<1> QED BY <1>4, <1>5

\* A frame more at the end leaves what places a turn where it is.
LEMMA FrameArrives ==
  ASSUME FramesInv, NEW f \in Frames, inbound' = Append(inbound, f), turnChat' = turnChat,
         sentIn' \in [ToolTurns -> ChatIds],
         \A t \in ToolTurns : sentIn[t] # NoChatId => sentIn'[t] = sentIn[t],
         f.kind = "tool.request" => f.turn \in toldOf,
         \A t \in toldOf' : t \in toldOf \/
                            (t \in ToolTurns /\ sentIn'[t] # NoChatId
                             /\ f = [kind |-> "turn.created", turn |-> t])
  PROVE  FramesInv'
<1>1. PICK n \in Nat : n = Len(inbound)
  BY LenProperties DEF FramesInv
<1>2. /\ Len(inbound') = n + 1 /\ inbound' \in Seq(Frames)
      /\ inbound'[n + 1] = f /\ \A j \in 1 .. n : inbound'[j] = inbound[j]
  BY <1>1, AppendProperties DEF FramesInv
<1>3. ASSUME NEW t, NEW k \in 0 .. n, Placed(t, k) PROVE Placed(t, k)'
  <2>1. t \in ToolTurns /\ sentIn[t] # NoChatId /\ sentIn'[t] = sentIn[t]
    BY <1>3 DEF Placed
  <2>2. CASE turnChat[t] = sentIn[t]
    BY <2>1, <2>2 DEF Placed
  <2>3. CASE \E j \in 1 .. k : inbound[j] = [kind |-> "turn.created", turn |-> t]
    <3>1. PICK j \in 1 .. k : inbound[j] = [kind |-> "turn.created", turn |-> t]
      BY <2>3
    <3>2. j \in 1 .. n /\ inbound'[j] = [kind |-> "turn.created", turn |-> t]
      BY <1>2, <3>1
    <3> QED BY <2>1, <3>2 DEF Placed
  <2> QED BY <1>3, <2>2, <2>3 DEF Placed
<1>4. ASSUME NEW t, Placed(t, n)' PROVE Placed(t, n + 1)'
  BY <1>2, <1>4 DEF Placed
<1>5. ASSUME NEW t \in toldOf' PROVE Placed(t, Len(inbound))'
  <2>1. CASE t \in toldOf
    <3>1. Placed(t, n)
      BY <1>1, <2>1 DEF FramesInv
    <3>2. Placed(t, n)'
      BY <1>2, <1>3, <3>1
    <3> QED BY <1>2, <1>4, <3>2
  <2>2. CASE t \notin toldOf
    BY <1>2, <2>2 DEF Placed
  <2> QED BY <2>1, <2>2
<1>6. ASSUME NEW i \in 1 .. n + 1, inbound'[i].kind = "tool.request"
      PROVE  Placed(inbound[i].turn, i - 1)'
  <2>1. CASE i = n + 1
    <3>1. Placed(f.turn, n)
      BY <1>1, <1>2, <1>6, <2>1 DEF FramesInv
    <3>2. Placed(f.turn, n)'
      BY <1>2, <1>3, <3>1
    <3> QED BY <1>2, <2>1, <3>2
  <2>2. CASE i # n + 1
    <3>1. i \in 1 .. n /\ i - 1 \in 0 .. n /\ inbound'[i] = inbound[i]
      BY <1>2, <2>2
    <3>2. Placed(inbound[i].turn, i - 1)
      BY <1>1, <1>6, <3>1 DEF FramesInv
    <3>3. Placed(inbound[i].turn, i - 1)'
      BY <1>3, <3>1, <3>2
    <3> QED BY <3>1, <3>3
  <2> QED BY <1>2, <2>1, <2>2
<1> QED BY <1>2, <1>5, <1>6 DEF FramesInv

\* The first frame is received: what it places its turn by is known then.
LEMMA FrameReceived ==
  ASSUME FramesInv, inbound # <<>>, inbound' = Tail(inbound), LearnTurns(Head(inbound)),
         UNCHANGED <<sentIn, toldOf>>
  PROVE  FramesInv'
<1>1. PICK n \in Nat : n = Len(inbound)
  BY LenProperties DEF FramesInv
<1>2. /\ n > 0 /\ Len(inbound') = n - 1 /\ inbound' \in Seq(Frames)
      /\ Head(inbound) = inbound[1] /\ \A j \in 1 .. n - 1 : inbound'[j] = inbound[j + 1]
  BY <1>1, HeadTailProperties, EmptySeq DEF FramesInv
<1>3. /\ turnChat' \in [ToolTurns -> ChatIds]
      /\ \A t \in ToolTurns : turnChat[t] = sentIn[t] => turnChat'[t] = sentIn[t]
      /\ \A t \in ToolTurns : inbound[1] = [kind |-> "turn.created", turn |-> t] =>
                                 turnChat'[t] = sentIn[t]
  BY <1>2 DEF LearnTurns, FramesInv
<1>4. ASSUME NEW t, NEW k \in 0 .. n - 1, Placed(t, k + 1) PROVE Placed(t, k)'
  <2>1. t \in ToolTurns /\ sentIn[t] # NoChatId /\ sentIn'[t] = sentIn[t]
    BY <1>4 DEF Placed
  <2>2. CASE turnChat[t] = sentIn[t]
    BY <1>3, <2>1, <2>2 DEF Placed
  <2>3. CASE \E j \in 1 .. k + 1 : inbound[j] = [kind |-> "turn.created", turn |-> t]
    <3>1. PICK j \in 1 .. k + 1 : inbound[j] = [kind |-> "turn.created", turn |-> t]
      BY <2>3
    <3>2. CASE j = 1
      BY <1>3, <2>1, <3>1, <3>2 DEF Placed
    <3>3. CASE j # 1
      <4>1. j - 1 \in 1 .. k /\ j - 1 \in 1 .. n - 1 /\ j - 1 + 1 = j
        BY <1>2, <3>3
      <4>2. inbound'[j - 1] = [kind |-> "turn.created", turn |-> t]
        BY <1>2, <3>1, <4>1
      <4> QED BY <2>1, <4>1, <4>2 DEF Placed
    <3> QED BY <3>2, <3>3
  <2> QED BY <1>4, <2>2, <2>3 DEF Placed
<1>5. ASSUME NEW t \in toldOf' PROVE Placed(t, Len(inbound))'
  <2>1. Placed(t, n) /\ n - 1 \in 0 .. n - 1 /\ n - 1 + 1 = n
    BY <1>1, <1>2 DEF FramesInv
  <2>2. Placed(t, n - 1)'
    BY <1>4, <2>1
  <2> QED BY <1>2, <2>2
<1>6. ASSUME NEW i \in 1 .. n - 1, inbound'[i].kind = "tool.request"
      PROVE  Placed(inbound[i].turn, i - 1)'
  <2>1. i + 1 \in 1 .. n /\ inbound'[i] = inbound[i + 1] /\ i - 1 \in 0 .. n - 1 /\ i - 1 + 1 = i + 1 - 1
    BY <1>2
  <2>2. PICK t : t = inbound[i + 1].turn
    OBVIOUS
  <2>3. Placed(t, i + 1 - 1)
    BY <1>1, <1>6, <2>1, <2>2 DEF FramesInv
  <2>4. Placed(t, i - 1)'
    BY <1>4, <2>1, <2>3
  <2> QED BY <2>1, <2>2, <2>4
<1> QED BY <1>2, <1>3, <1>5, <1>6 DEF FramesInv

\* Where nothing is on its way and nothing is relayed, nothing is to be placed.
LEMMA NothingToPlace ==
  ASSUME FramesInv, inbound' = <<>>, toldOf' = {}, UNCHANGED sentIn,
         turnChat' \in [ToolTurns -> ChatIds]
  PROVE  FramesInv'
<1>1. inbound' \in Seq(Frames) /\ Len(inbound') = 0
  BY EmptySeq
<1> QED BY <1>1 DEF FramesInv

LEMMA FoldersSame ==
  /\ StoreInv /\ UNCHANGED <<storeSide, dialogue>> => StoreInv'
  /\ SavedInv /\ UNCHANGED storeSide => SavedInv'
  /\ FramesInv /\ UNCHANGED toolSide => FramesInv'
  /\ WantedInv /\ UNCHANGED <<wanted, sentIn>> => WantedInv'
  /\ observed' = Nothing => FoldersRight' \/ ~SavedInv'
<1>1. StoreInv /\ UNCHANGED <<storeSide, dialogue>> => StoreInv'
  BY DEF StoreInv, storeSide, AreFolders
<1>2. SavedInv /\ UNCHANGED storeSide => SavedInv'
  BY DEF SavedInv, storeSide
<1>3. FramesInv /\ UNCHANGED toolSide => FramesInv'
  BY DEF FramesInv, toolSide, Placed
<1>4. WantedInv /\ UNCHANGED <<wanted, sentIn>> => WantedInv'
  BY DEF WantedInv
<1>5. observed' = Nothing => FoldersRight' \/ ~SavedInv'
  BY DEF FoldersRight, ToolInOwnFolders, MentionResolves, FoldersKept, SavedInv, Nothing
<1> QED BY <1>1, <1>2, <1>3, <1>4, <1>5

LEMMA FoldersInitInv == FoldersInit => FoldersInv
<1> SUFFICES ASSUME FoldersInit PROVE FoldersInv
  OBVIOUS
<1>1. AreFolders(Seeded(EmptyStore)) /\ Seeded(EmptyStore).perChat = EmptyStore.perChat
  BY SeededStore
<1>2. StoreInv
  BY <1>1 DEF FoldersInit, StoreInv, ChatIds, AreFolders
<1>3. SavedInv
  BY <1>1 DEF FoldersInit, SavedInv
<1>4. FramesInv
  <2>1. inbound \in Seq(Frames) /\ Len(inbound) = 0
    BY EmptySeq DEF FoldersInit
  <2> QED BY <2>1 DEF FoldersInit, FramesInv, ChatIds
<1>5. WantedInv
  BY DEF FoldersInit, WantedInv
<1>6. FoldersRight
  BY <1>3 DEF FoldersInit, FoldersRight, ToolInOwnFolders, MentionResolves, FoldersKept,
     SavedInv, Nothing
<1> QED BY <1>2, <1>3, <1>4, <1>5, <1>6 DEF FoldersInv

LEMMA FoldersStep == FoldersInv /\ [FoldersNext]_folderVars => FoldersInv'
<1> SUFFICES ASSUME FoldersInv, [FoldersNext]_folderVars PROVE FoldersInv'
  OBVIOUS
<1> USE DEF FoldersInv
<1>1. ASSUME NEW f \in SomeFolders, SetDefault(f) PROVE FoldersInv'
  <2> DEFINE new == [store EXCEPT !.default = f]
  <2>1. AreFolders(new) /\ new.perChat = store.perChat /\ Save(new)
    BY <1>1 DEF SetDefault, StoreInv, AreFolders
  <2> HIDE DEF new
  <2>2. /\ store' = new
        /\ AreFolders(storeFile.state)' /\ storeFile' \in [state : {storeFile'.state}, whole : BOOLEAN]
        /\ unsaved' \in BOOLEAN
        /\ ~unsaved' => storeFile'.whole /\ storeFile'.state = new
    BY <2>1, SavedStore
  <2>3. StoreInv' /\ SavedInv'
    BY <1>1, <2>1, <2>2 DEF SetDefault, StoreInv, SavedInv, AreFolders, ChatIds
  <2>4. FramesInv' /\ WantedInv' /\ FoldersRight'
    BY <1>1, <2>3, FoldersSame DEF SetDefault, toolSide
  <2> QED BY <2>3, <2>4
<1>2. ASSUME NEW picked \in RootLists \ {NoEntry, <<>>}, AddRoots(picked) PROVE FoldersInv'
  <2>1. dialogue \in FolderChats /\ dialogue' \in ChatIds
    BY <1>2 DEF AddRoots, StoreInv, ChatIds
  <2>2. picked \in Seq(SomeFolders)
    BY <1>2 DEF RootLists, SeqOf
  <2>3. Joined(Roots(dialogue), picked) \in Seq(SomeFolders)
    BY <2>2, RootsAreFolders, FoldersJoined
  <2>4. StoreInv' /\ SavedInv'
    BY <1>2, <2>1, <2>3, FoldersReplaced DEF AddRoots
  <2>5. FramesInv' /\ WantedInv' /\ FoldersRight'
    BY <1>2, <2>4, FoldersSame DEF AddRoots, toolSide
  <2> QED BY <2>4, <2>5
<1>3. ASSUME NEW c \in FolderChats, OpenDialogue(c) PROVE FoldersInv'
  <2>1. StoreInv' /\ SavedInv'
    BY <1>3, FoldersSame DEF OpenDialogue, StoreInv, storeSide, ChatIds, AreFolders
  <2> QED BY <1>3, <2>1, FoldersSame DEF OpenDialogue, Same, toolSide
<1>4. ASSUME NEW c \in FolderChats, PickMention(c) PROVE FoldersInv'
  <2>1. StoreInv' /\ SavedInv' /\ FramesInv' /\ WantedInv'
    BY <1>4, FoldersSame DEF PickMention, toolSide
  <2>2. PICK i \in DOMAIN Roots(c), name \in PathNames \ DottedNames :
            observed' = [what |-> "mention", roots |-> Roots(c), found |-> Found(Roots(c), i, <<name>>)]
    BY <1>4 DEF PickMention
  <2>3. Roots(c) \in Seq(SomeFolders)
    BY RootsAreFolders
  <2>4. ResolveToolPath(Found(Roots(c), i, <<name>>).path, Roots(c)) = Found(Roots(c), i, <<name>>).place
    BY <2>3, FoundResolves
  <2>5. MentionResolves'
    BY <2>2, <2>4 DEF MentionResolves, ResolveToolPath
  <2>6. FoldersRight'
    BY <2>1, <2>2, <2>5 DEF FoldersRight, ToolInOwnFolders, FoldersKept, SavedInv
  <2> QED BY <2>1, <2>6
<1>5. ASSUME NEW c \in FolderChats, SendHistory(c) PROVE FoldersInv'
  <2> DEFINE f == [kind |-> "session.history", chat |-> c]
  <2>1. inbound' = Append(inbound, f) /\ f \in Frames /\ f.kind # "tool.request"
    BY <1>5 DEF SendHistory, Frames
  <2>2. /\ UNCHANGED <<sentIn, toldOf, turnChat, wanted, storeSide, dialogue>> /\ observed' = Nothing
        /\ sentIn \in [ToolTurns -> ChatIds]
    BY <1>5 DEF SendHistory, Same, FramesInv
  <2> HIDE DEF f
  <2>3. FramesInv'
    BY <2>1, <2>2, FrameArrives
  <2> QED BY <2>2, <2>3, FoldersSame
<1>6. ASSUME NEW c \in FolderChats, NEW f \in SomeFolders, RemoveRoot(c, f) PROVE FoldersInv'
  <2>1. dialogue' \in ChatIds
    BY <1>6 DEF RemoveRoot, StoreInv
  <2>2. Without(Roots(c), f) \in Seq(SomeFolders)
    BY RootsAreFolders, FoldersLeft
  <2>3. StoreInv' /\ SavedInv'
    BY <1>6, <2>1, <2>2, FoldersReplaced DEF RemoveRoot
  <2>4. FramesInv' /\ WantedInv' /\ FoldersRight'
    BY <1>6, <2>3, FoldersSame DEF RemoveRoot, toolSide
  <2> QED BY <2>3, <2>4
<1>7. ASSUME NEW c \in FolderChats, NEW t \in ToolTurns, BeginTurn(t, c) PROVE FoldersInv'
  <2> DEFINE f == [kind |-> "turn.created", turn |-> t]
  <2>1. inbound' = Append(inbound, f) /\ f \in Frames /\ f.kind # "tool.request"
    BY <1>7 DEF BeginTurn, Frames
  <2>2. /\ UNCHANGED <<turnChat, wanted, storeSide, dialogue>> /\ observed' = Nothing
        /\ toldOf' = toldOf \union {t}
    BY <1>7 DEF BeginTurn, Same
  <2>3. /\ sentIn' \in [ToolTurns -> ChatIds] /\ sentIn'[t] # NoChatId
        /\ \A u \in ToolTurns : sentIn[u] # NoChatId => sentIn'[u] = sentIn[u]
    BY <1>7, FoldersAssumption DEF BeginTurn, FramesInv, ChatIds
  <2>4. \A u \in toldOf' : u \in toldOf \/ (u \in ToolTurns /\ sentIn'[u] # NoChatId
                                            /\ f = [kind |-> "turn.created", turn |-> u])
    BY <2>2, <2>3
  <2> HIDE DEF f
  <2>5. FramesInv'
    BY <2>1, <2>2, <2>3, <2>4, FrameArrives
  <2>6. WantedInv'
    <3>1. ASSUME NEW call \in wanted
          PROVE  call.chat = sentIn'[call.turn] /\ call.chat # NoChatId
      <4>1. call.turn \in ToolTurns /\ call.chat = sentIn[call.turn] /\ call.chat # NoChatId
        BY DEF WantedInv
      <4> QED BY <2>3, <4>1
    <3> QED BY <2>2, <3>1 DEF WantedInv
  <2> QED BY <2>2, <2>5, <2>6, FoldersSame
<1>8. ASSUME CloseDialogue PROVE FoldersInv'
  <2>1. StoreInv' /\ SavedInv'
    BY <1>8, FoldersSame DEF CloseDialogue, StoreInv, storeSide, ChatIds, AreFolders
  <2> QED BY <1>8, <2>1, FoldersSame DEF CloseDialogue, Same, toolSide
<1>9. ASSUME RestartApplication PROVE FoldersInv'
  <2> DEFINE loaded == IF storeFile.whole THEN ParseStore(storeFile.state) ELSE EmptyStore
  <2>1. AreFolders(loaded) /\ (~unsaved => chosen = loaded.perChat)
    BY SeededStore DEF StoreInv, SavedInv, ParseStore
  <2>2. /\ store' = Seeded(loaded) /\ AreFolders(store') /\ store'.perChat = loaded.perChat
        /\ storeFile' = [state |-> Seeded(loaded), whole |-> TRUE] \/ storeFile' = storeFile
        /\ chosen' = (IF unsaved THEN store'.perChat ELSE chosen) /\ unsaved' = FALSE
        /\ dialogue' = NoChatId /\ observed' = Nothing
    BY <1>9, <2>1, SeededStore DEF RestartApplication
  <2>3. StoreInv'
    <3>1. AreFolders(Seeded(loaded))
      BY <2>2
    <3>2. CASE storeFile' = [state |-> Seeded(loaded), whole |-> TRUE]
      BY <2>2, <3>1, <3>2 DEF StoreInv, ChatIds, AreFolders
    <3>3. CASE storeFile' = storeFile
      BY <2>2, <3>3 DEF StoreInv, ChatIds, AreFolders
    <3> QED BY <2>2, <3>2, <3>3
  <2>4. SavedInv'
    <3>1. store'.perChat = chosen' /\ chosen' = loaded.perChat
      BY <2>1, <2>2
    <3>2. (IF storeFile.whole THEN storeFile.state ELSE EmptyStore)'.perChat = loaded.perChat
      <4>1. CASE storeFile' = [state |-> Seeded(loaded), whole |-> TRUE]
        BY <2>2, <4>1
      <4>2. CASE storeFile' = storeFile
        BY <4>2 DEF ParseStore, EmptyStore
      <4> QED BY <2>2, <4>1, <4>2
    <3> QED BY <2>2, <3>1, <3>2 DEF SavedInv, EmptyStore
  <2>5. FramesInv'
    <3>1. inbound' = <<>> /\ toldOf' = {} /\ UNCHANGED sentIn /\ turnChat' \in [ToolTurns -> ChatIds]
      BY <1>9 DEF RestartApplication, ChatIds
    <3> QED BY <3>1, NothingToPlace
  <2>6. WantedInv'
    BY <1>9 DEF RestartApplication, WantedInv
  <2> QED BY <2>2, <2>3, <2>4, <2>5, <2>6, FoldersSame
<1>10. ASSUME NEW t \in ToolTurns, AskTool(t) PROVE FoldersInv'
  <2> DEFINE f == [kind |-> "tool.request", turn |-> t]
  <2>1. inbound' = Append(inbound, f) /\ f \in Frames /\ f.turn \in toldOf
    BY <1>10 DEF AskTool, Frames
  <2>2. /\ UNCHANGED <<sentIn, toldOf, turnChat, wanted, storeSide, dialogue>> /\ observed' = Nothing
        /\ sentIn \in [ToolTurns -> ChatIds]
    BY <1>10 DEF AskTool, Same, FramesInv
  <2> HIDE DEF f
  <2>3. FramesInv'
    BY <2>1, <2>2, FrameArrives
  <2> QED BY <2>2, <2>3, FoldersSame
<1>11. ASSUME ReceiveFrame PROVE FoldersInv'
  <2>1. /\ inbound # <<>> /\ inbound' = Tail(inbound) /\ LearnTurns(Head(inbound))
        /\ UNCHANGED <<sentIn, toldOf, storeSide, dialogue>> /\ observed' = Nothing
    BY <1>11 DEF ReceiveFrame, Same
  <2>2. FramesInv'
    BY <2>1, FrameReceived
  <2>3. WantedInv'
    <3>1. CASE Head(inbound).kind # "tool.request"
      BY <1>11, <3>1, FoldersSame DEF ReceiveFrame
    <3>2. CASE Head(inbound).kind = "tool.request"
      <4>1. Head(inbound) = inbound[1] /\ 1 \in 1 .. Len(inbound)
        BY <2>1, LenProperties, EmptySeq, HeadTailProperties DEF FramesInv
      <4>2. Placed(Head(inbound).turn, 0)
        BY <3>2, <4>1 DEF FramesInv
      <4>3. /\ Head(inbound).turn \in ToolTurns /\ sentIn[Head(inbound).turn] # NoChatId
            /\ turnChat[Head(inbound).turn] = sentIn[Head(inbound).turn]
        BY <4>2 DEF Placed
      <4>4. wanted' = wanted \union {[turn |-> Head(inbound).turn, chat |-> turnChat[Head(inbound).turn]]}
        BY <1>11, <3>2 DEF ReceiveFrame
      <4> QED BY <2>1, <4>3, <4>4 DEF WantedInv, FramesInv
    <3> QED BY <3>1, <3>2
  <2> QED BY <2>1, <2>2, <2>3, FoldersSame
<1>12. ASSUME NEW known \in [ToolTurns -> ChatIds], Reconnect(known) PROVE FoldersInv'
  <2>1. FramesInv'
    BY <1>12, NothingToPlace DEF Reconnect
  <2> QED BY <1>12, <2>1, FoldersSame DEF Reconnect
<1>13. ASSUME NEW call \in wanted, ExecuteTool(call) PROVE FoldersInv'
  <2>1. StoreInv' /\ SavedInv' /\ FramesInv' /\ WantedInv'
    <3>1. FramesInv'
      BY <1>13 DEF ExecuteTool, FramesInv, Placed
    <3>2. WantedInv'
      BY <1>13 DEF ExecuteTool, WantedInv
    <3> QED BY <1>13, <3>1, <3>2, FoldersSame DEF ExecuteTool
  <2> DEFINE roots == Roots(call.chat)
  <2>2. PICK path \in FewPaths, what \in {"tool", "hosted"} :
            observed' = [what |-> what, turn |-> call.turn, chat |-> call.chat, roots |-> roots,
                         place |-> IF what = "tool" THEN ResolveToolPath(path, roots)
                                   ELSE RootedPath(path, roots)]
    BY <1>13 DEF ExecuteTool
  <2>3. roots \in Seq(SomeFolders)
    BY RootsAreFolders
  <2> HIDE DEF roots
  <2>4. ResolveToolPath(path, roots) = Nowhere
        \/ \E i \in DOMAIN roots : IsPrefix(roots[i], ResolveToolPath(path, roots))
    BY <2>3, ResolvedInside
  <2>5. ToolInOwnFolders'
    <3>1. observed'.chat = sentIn'[observed'.turn]
      BY <1>13, <2>2 DEF ExecuteTool, WantedInv
    <3>2. observed'.what = "tool" => /\ observed'.place = ResolveToolPath(path, roots)
                                     /\ observed'.roots = roots
      BY <2>2
    <3> QED BY <2>4, <3>1, <3>2 DEF ToolInOwnFolders
  <2>6. MentionResolves'
    BY <2>2 DEF MentionResolves
  <2>7. FoldersKept' /\ ToolsTell'
    BY <2>1, ReadsAndSearchesTell DEF FoldersKept, SavedInv, ToolsTell
  <2> QED BY <2>1, <2>5, <2>6, <2>7 DEF FoldersRight
<1>14. ASSUME UNCHANGED folderVars PROVE FoldersInv'
  <2>1. StoreInv' /\ SavedInv' /\ FramesInv' /\ WantedInv'
    BY <1>14, FoldersSame DEF folderVars, storeSide, toolSide
  <2>2. FoldersRight'
    BY <1>14 DEF folderVars, FoldersRight, ToolInOwnFolders, MentionResolves, FoldersKept,
       ToolsTell
  <2> QED BY <2>1, <2>2
<1>15. ASSUME ReloadWindow \/ ReconnectSocket PROVE FoldersInv'
  <2>1. turnChat \in [ToolTurns -> ChatIds] /\ [t \in ToolTurns |-> NoChatId] \in [ToolTurns -> ChatIds]
    BY DEF FramesInv, ChatIds
  <2> QED BY <1>12, <1>15, <2>1 DEF ReloadWindow, ReconnectSocket
<1> QED BY <1>1, <1>2, <1>3, <1>4, <1>5, <1>6, <1>7, <1>8, <1>9, <1>10, <1>11, <1>13, <1>14,
           <1>15
        DEF FoldersNext

\* A tool works in the folders of the chat whose turn asked for it, an entry that a search put
\* into a message is found again by the tools, and the folders are as the user left them
\* (resolveToolPath, searchWorkspace, WorkspaceStore, turnSessionRef of the desktop application).
THEOREM ToolsStayInFolders == FoldersSpec => []FoldersRight
<1>1. FoldersInv => FoldersRight
  BY DEF FoldersInv
<1> QED BY <1>1, FoldersInitInv, FoldersStep, PTL DEF FoldersSpec

-----------------------------------------------------------------------------
(* CliTurns: while nothing was lost or given up, every frame on its way is  *)
(* of the current task, or of none.                                         *)

\* The connection is up, and every task before the current one returned.
Unbroken == linked /\ \A u \in 1 .. tasks : (u = tasks /\ Streaming) \/ taskResult[u].is = "ok"

NoSends == \A i \in DOMAIN uplink : uplink[i].kind # "send"
AnswerBefore(n) ==
    collected = {tasks} \/ \E j \in DOMAIN downlink : j < n /\ downlink[j].kind = "answer"

\* A turn ends after its answer, and nothing of it follows.
EndsLast ==
    \A i \in DOMAIN downlink : downlink[i].kind = "done" =>
        /\ relaying = Unrelayed /\ NoSends /\ AnswerBefore(i)
        /\ \A j \in DOMAIN downlink : j > i => downlink[j].kind = "boot"

OnTheWay ==
    /\ \A i \in DOMAIN downlink : downlink[i].kind = "boot" \/ downlink[i].task = tasks
    /\ \A i \in DOMAIN uplink : uplink[i].kind = "send" =>
          /\ uplink[i].task = tasks
          /\ \A j \in DOMAIN uplink : uplink[j].kind = "send" => j = i

RelayedNow ==
    /\ relaying # Unrelayed =>
          /\ relaying.task = tasks /\ NoSends
          /\ \A i \in DOMAIN downlink : downlink[i].kind # "done"
    /\ relaying.at = "answered" => AnswerBefore(Len(downlink) + 1)

CurrentInv == collected \subseteq {tasks} /\ OnTheWay /\ EndsLast /\ RelayedNow
IdleInv ==
    /\ NoSends /\ relaying = Unrelayed
    /\ \A i \in DOMAIN downlink : downlink[i].kind = "boot"

ResultsInv ==
    /\ Streaming => tasks # 0
    /\ \A t \in TaskIds : (t > tasks \/ (t = tasks /\ Streaming)) => taskResult[t].is = "none"

\* Only the boot frames are of no task.
TasksNamed ==
    /\ \A i \in DOMAIN downlink : downlink[i].kind = "boot" \/ downlink[i].task # 0
    /\ relaying.at # "none" => relaying.task # 0

CliInv ==
    /\ CliTypeOK /\ TasksNamed /\ ResultsInv /\ OwnResult
    /\ Unbroken => IF Streaming THEN CurrentInv ELSE IdleInv

\* Frames put behind others, and the first one taken away.
LEMMA FramesAppended ==
  ASSUME NEW S, NEW s \in Seq(S), NEW x \in S
  PROVE  /\ Append(s, x) \in Seq(S) /\ Len(Append(s, x)) = Len(s) + 1 /\ Len(s) \in Nat
         /\ DOMAIN s = 1 .. Len(s) /\ DOMAIN Append(s, x) = 1 .. (Len(s) + 1)
         /\ \A i \in DOMAIN s : Append(s, x)[i] = s[i] /\ i <= Len(s) /\ i \in DOMAIN Append(s, x)
         /\ Append(s, x)[Len(s) + 1] = x
         /\ \A i \in DOMAIN Append(s, x) : i \in DOMAIN s \/ i = Len(s) + 1
<1>1. /\ Append(s, x) \in Seq(S) /\ Len(Append(s, x)) = Len(s) + 1 /\ Len(s) \in Nat
      /\ \A i \in 1 .. Len(s) : Append(s, x)[i] = s[i]
      /\ Append(s, x)[Len(s) + 1] = x
  BY AppendProperties, LenProperties
<1>2. DOMAIN s = 1 .. Len(s) /\ DOMAIN Append(s, x) = 1 .. Len(Append(s, x))
  BY <1>1, LenProperties
<1> QED BY <1>1, <1>2

LEMMA FrameTaken ==
  ASSUME NEW S, NEW s \in Seq(S), s # <<>>
  PROVE  /\ Tail(s) \in Seq(S) /\ Head(s) = s[1] /\ s[1] \in S /\ 1 \in DOMAIN s
         /\ Len(Tail(s)) = Len(s) - 1 /\ Len(s) \in Nat /\ DOMAIN s = 1 .. Len(s)
         /\ DOMAIN Tail(s) = 1 .. (Len(s) - 1)
         /\ \A i \in DOMAIN Tail(s) : Tail(s)[i] = s[i + 1] /\ i + 1 \in DOMAIN s /\ i \in Nat /\ i > 0
<1>1. /\ Head(s) = s[1] /\ Tail(s) \in Seq(S) /\ Len(Tail(s)) = Len(s) - 1
      /\ Len(s) \in Nat /\ Len(s) # 0
  BY HeadTailProperties, LenProperties, EmptySeq
<1>2. DOMAIN s = 1 .. Len(s) /\ DOMAIN Tail(s) = 1 .. Len(Tail(s))
  BY <1>1, LenProperties
<1>3. 1 \in DOMAIN s
  BY <1>1, <1>2
<1>4. s[1] \in S
  BY <1>3, ElementOfSeq, <1>2, <1>1
<1>5. \A i \in 1 .. (Len(s) - 1) : Tail(s)[i] = s[i + 1]
  BY <1>1
<1> QED BY <1>1, <1>2, <1>3, <1>4, <1>5

\* A connection that is lost promises nothing any more.
LEMMA LostPromisesNothing ==
  ASSUME CliTypeOK', TasksNamed', ResultsInv', ~linked' PROVE CliInv'
BY DEF CliInv, Unbroken, OwnResult

LEMMA SendTaskSafely == ASSUME CliInv, SendTask PROVE CliInv'
<1>1. /\ CliTypeOK /\ ResultsInv /\ OwnResult /\ cli = "prompt" /\ cli' = "first" /\ linked
      /\ tasks \in Nat /\ tasks < MaxTasks /\ MaxTasks \in Nat
  BY CliAssumption DEF CliInv, CliTypeOK, SendTask
<1>2. /\ tasks' = tasks + 1 /\ collected' = {} /\ uplink' = Append(uplink, Frame(tasks + 1, "send"))
      /\ ended' = ended /\ taskResult' = taskResult /\ downlink' = downlink
      /\ relaying' = relaying /\ booting' = booting /\ linked' = linked
  BY DEF SendTask, gatewaySide
<1>3. tasks' \in 0 .. MaxTasks /\ Frame(tasks + 1, "send") \in Upward
  BY <1>1, <1>2 DEF Upward, Frame, TaskIds
<1>4. uplink \in Seq(Upward)
  BY <1>1 DEF CliTypeOK
<1>5. uplink' \in Seq(Upward) /\ DOMAIN uplink' = 1 .. (Len(uplink) + 1) /\ Len(uplink) \in Nat
      /\ (\A i \in DOMAIN uplink : uplink'[i] = uplink[i])
      /\ uplink'[Len(uplink) + 1] = Frame(tasks + 1, "send")
      /\ (\A i \in DOMAIN uplink' : i \in DOMAIN uplink \/ i = Len(uplink) + 1)
  BY <1>2, <1>3, <1>4, FramesAppended
<1>6. CliTypeOK'
  BY <1>1, <1>2, <1>3, <1>5 DEF CliTypeOK, Outcomes, Downward, Upward, TaskIds
<1>7. ResultsInv'
  <2>1. \A t \in TaskIds : t > tasks' \/ t = tasks' => t > tasks
    BY <1>1, <1>2 DEF TaskIds
  <2>2. \A t \in TaskIds : t > tasks => taskResult[t].is = "none"
    BY <1>1 DEF ResultsInv
  <2>3. Streaming' /\ tasks' # 0
    BY <1>1, <1>2 DEF Streaming
  <2> QED BY <1>2, <2>1, <2>2, <2>3 DEF ResultsInv, TaskIds
<1>8. OwnResult'
  BY <1>1, <1>2 DEF OwnResult, TaskIds
<1>9. TasksNamed'
  BY <1>2 DEF CliInv, TasksNamed
<1>10. ASSUME Unbroken' PROVE CurrentInv'
  <2>1. Unbroken
    <3>1. \A u \in 1 .. tasks : u \in 1 .. tasks' /\ u # tasks'
      BY <1>1, <1>2
    <3> QED BY <1>2, <1>10, <3>1 DEF Unbroken
  <2>2. IdleInv
    BY <1>1, <2>1 DEF CliInv, Streaming
  <2>3. OnTheWay'
    BY <1>2, <1>5, <2>2 DEF IdleInv, NoSends, OnTheWay, Frame
  <2>4. EndsLast' /\ RelayedNow'
    BY <1>2, <2>2 DEF IdleInv, EndsLast, RelayedNow, Unrelayed
  <2> QED BY <1>2, <2>3, <2>4 DEF CurrentInv
<1> QED BY <1>1, <1>6, <1>7, <1>8, <1>9, <1>10 DEF CliInv, Streaming

\* Giving up a task breaks the row of results.
LEMMA GivingUpBreaks ==
  ASSUME CliInv, Streaming, NEW what \in {"ok", "timeout", "raised"}, NEW answers \in SUBSET TaskIds,
         Returns(what, answers), tasks' = tasks, linked' = linked
  PROVE  /\ tasks \in TaskIds /\ cli' = "prompt" /\ ResultsInv'
         /\ taskResult' \in [TaskIds -> Outcomes]
         /\ taskResult'[tasks] = [is |-> what, answers |-> answers]
         /\ \A t \in TaskIds : t # tasks => taskResult'[t] = taskResult[t]
         /\ Unbroken' => what = "ok" /\ Unbroken
<1>1. CliTypeOK /\ ResultsInv
  BY DEF CliInv
<1>2. tasks \in TaskIds
  BY <1>1 DEF CliTypeOK, ResultsInv, TaskIds
<1>3. taskResult \in [TaskIds -> Outcomes]
  BY <1>1 DEF CliTypeOK
<1>4. /\ taskResult' = [taskResult EXCEPT ![tasks] = [is |-> what, answers |-> answers]]
      /\ cli' = "prompt"
  BY DEF Returns
<1>5. [is |-> what, answers |-> answers] \in Outcomes
  BY DEF Outcomes
<1>6. /\ taskResult' \in [TaskIds -> Outcomes]
      /\ taskResult'[tasks] = [is |-> what, answers |-> answers]
      /\ \A t \in TaskIds : t # tasks => taskResult'[t] = taskResult[t]
  BY <1>2, <1>3, <1>4, <1>5
<1>7. ResultsInv'
  BY <1>1, <1>2, <1>4, <1>6 DEF ResultsInv, Streaming, TaskIds
<1>8. ASSUME Unbroken' PROVE what = "ok" /\ Unbroken
  <2>1. \A u \in 1 .. tasks : taskResult'[u].is = "ok"
    BY <1>4, <1>8 DEF Unbroken, Streaming
  <2>2. tasks \in 1 .. tasks /\ \A u \in 1 .. tasks : u \in TaskIds
    BY <1>2, CliAssumption DEF TaskIds
  <2>3. what = "ok"
    BY <1>6, <2>1, <2>2
  <2> QED BY <1>6, <1>8, <2>1, <2>2, <2>3 DEF Unbroken
<1> QED BY <1>2, <1>4, <1>6, <1>7, <1>8

\* The result of the current task is its own, if those before it were.
LEMMA ResultIsOwn ==
  ASSUME CliInv, linked, tasks \in TaskIds, tasks' = tasks, ended \subseteq ended',
         \A t \in TaskIds : t # tasks => taskResult'[t] = taskResult[t],
         \A t \in TaskIds : t > tasks => taskResult[t].is = "none",
         Unbroken' => taskResult'[tasks].answers = {tasks} /\ tasks \in ended',
         cli' = "prompt", linked'
  PROVE  OwnResult'
<1> SUFFICES ASSUME NEW t \in TaskIds, taskResult'[t].is = "ok",
                    \A u \in 1 .. (t - 1) : taskResult'[u].is = "ok"
             PROVE  taskResult'[t].answers = {t} /\ t \in ended'
  BY DEF OwnResult
<1>1. t \in Nat /\ tasks \in Nat
  BY DEF TaskIds
<1>2. CASE t > tasks
  BY <1>1, <1>2
<1>3. CASE t = tasks
  <2>1. \A u \in 1 .. tasks : taskResult'[u].is = "ok"
    BY <1>1, <1>3
  <2>2. Unbroken'
    BY <2>1 DEF Unbroken
  <2> QED BY <1>3, <2>2
<1>4. CASE t < tasks
  <2>1. \A u \in 1 .. t : u \in TaskIds /\ u # tasks
    BY <1>1, <1>4, CliAssumption DEF TaskIds
  <2>2. \A u \in 1 .. (t - 1) : u \in 1 .. t
    BY <1>1
  <2>3. taskResult[t].is = "ok" /\ \A u \in 1 .. (t - 1) : taskResult[u].is = "ok"
    BY <1>1, <1>4, <2>1, <2>2
  <2>4. taskResult[t].answers = {t} /\ t \in ended
    BY <2>3 DEF CliInv, OwnResult
  <2> QED BY <1>1, <1>4, <2>4
<1> QED BY <1>1, <1>2, <1>3, <1>4


LEMMA TakeFrameSafely == ASSUME CliInv, TakeFrame PROVE CliInv'
<1> DEFINE f == downlink[1]
           answers == IF f.kind = "answer" THEN collected \union {f.task} ELSE collected
<1>1. /\ CliTypeOK /\ TasksNamed /\ ResultsInv /\ OwnResult /\ Streaming /\ downlink # <<>>
      /\ MaxTasks \in Nat /\ tasks \in TaskIds /\ tasks \in Nat /\ collected \subseteq TaskIds
      /\ ended \subseteq TaskIds /\ downlink \in Seq(Downward) /\ uplink \in Seq(Upward)
  BY CliAssumption DEF CliInv, CliTypeOK, TakeFrame, ResultsInv, TaskIds
<1>2. /\ downlink' \in Seq(Downward) /\ Head(downlink) = f /\ f \in Downward /\ 1 \in DOMAIN downlink
      /\ Len(downlink') = Len(downlink) - 1 /\ Len(downlink) \in Nat
      /\ DOMAIN downlink = 1 .. Len(downlink) /\ DOMAIN downlink' = 1 .. (Len(downlink) - 1)
      /\ \A i \in DOMAIN downlink' :
            downlink'[i] = downlink[i + 1] /\ i + 1 \in DOMAIN downlink /\ i \in Nat /\ i > 0
  <2>1. downlink' = Tail(downlink)
    BY DEF TakeFrame
  <2> QED BY <1>1, <2>1, FrameTaken
<1>3. /\ tasks' = tasks /\ relaying' = relaying /\ booting' = booting /\ linked' = linked
      /\ collected' = answers
      /\ ended' = IF f.kind = "done" THEN ended \union {f.task} ELSE ended
      /\ uplink' = IF RunsTool(f) /\ linked THEN Append(uplink, Frame(f.task, "result")) ELSE uplink
  BY <1>2 DEF TakeFrame, gatewaySide
<1>4. /\ EndsStream(f) => Returns("ok", answers)
      /\ ~EndsStream(f) /\ RunsTool(f) /\ ~linked => Returns("raised", {})
      /\ ~EndsStream(f) /\ ~(RunsTool(f) /\ ~linked) =>
            cli' = (IF cli = "slow" THEN "slow" ELSE "live") /\ taskResult' = taskResult
  <2>1. Head(downlink) = f
    BY <1>2
  <2> DEFINE h == Head(downlink)
             got == IF h.kind = "answer" THEN collected \union {h.task} ELSE collected
  <2>2. (CASE EndsStream(h) -> Returns("ok", got)
          [] RunsTool(h) /\ ~linked -> Returns("raised", {})
          [] OTHER -> cli' = (IF cli = "slow" THEN "slow" ELSE "live") /\ UNCHANGED taskResult)
    BY DEF TakeFrame
  <2>3. h = f /\ got = answers
    BY <2>1
  <2>4. EndsStream(h) => ~RunsTool(h)
    BY DEF EndsStream, RunsTool
  <2> HIDE DEF h, got, f, answers
  <2> QED BY <2>2, <2>3, <2>4
<1>5. f.kind = "boot" \/ f.task \in TaskIds
  <2>1. f.task \in 0 .. MaxTasks
    BY <1>2 DEF Downward
  <2>2. f.kind = "boot" \/ f.task # 0
    BY <1>1, <1>2 DEF TasksNamed
  <2> QED BY <1>1, <2>1, <2>2 DEF TaskIds
<1>6. answers \in SUBSET TaskIds /\ ended' \subseteq TaskIds /\ ended \subseteq ended'
  BY <1>1, <1>3, <1>5
<1>7. /\ uplink' \in Seq(Upward)
      /\ \A i \in DOMAIN uplink' : uplink'[i].kind = "send" => i \in DOMAIN uplink /\ uplink'[i] = uplink[i]
      /\ DOMAIN uplink \subseteq DOMAIN uplink'
  <2>1. CASE RunsTool(f) /\ linked
    <3>1. Frame(f.task, "result") \in Upward
      BY <1>5, <2>1 DEF RunsTool, Frame, Upward
    <3>2. uplink' = Append(uplink, Frame(f.task, "result"))
      BY <1>3, <2>1
    <3>3. Frame(f.task, "result").kind # "send"
      BY DEF Frame
    <3> QED BY <1>1, <3>1, <3>2, <3>3, FramesAppended
  <2>2. CASE ~(RunsTool(f) /\ linked)
    BY <1>1, <1>3, <2>2
  <2> QED BY <2>1, <2>2
<1>8. TasksNamed'
  BY <1>1, <1>2, <1>3 DEF TasksNamed
<1>9. NoSends => NoSends'
  BY <1>7 DEF NoSends
<1> HIDE DEF answers
<1>10. CASE EndsStream(f)
  <2>1. /\ cli' = "prompt" /\ ResultsInv' /\ taskResult' \in [TaskIds -> Outcomes]
        /\ taskResult'[tasks] = [is |-> "ok", answers |-> answers]
        /\ \A t \in TaskIds : t # tasks => taskResult'[t] = taskResult[t]
        /\ Unbroken' => Unbroken
    BY <1>1, <1>3, <1>4, <1>6, <1>10, GivingUpBreaks
  <2>2. CliTypeOK'
    BY <1>1, <1>2, <1>3, <1>6, <1>7, <2>1 DEF CliTypeOK
  <2>3. f.kind = "done" /\ answers = collected
    BY <1>10 DEF EndsStream, answers
  <2>4. ASSUME Unbroken'
        PROVE  answers = {tasks} /\ tasks \in ended' /\ IdleInv'
    <3>1. CurrentInv
      BY <1>1, <2>1, <2>4 DEF CliInv
    <3>2. relaying = Unrelayed /\ NoSends /\ AnswerBefore(1)
      BY <1>2, <2>3, <3>1 DEF CurrentInv, EndsLast
    <3>3. \A j \in DOMAIN downlink : j > 1 => downlink[j].kind = "boot"
      BY <1>2, <2>3, <3>1 DEF CurrentInv, EndsLast
    <3>4. ~\E j \in DOMAIN downlink : j < 1
      BY <1>2
    <3>5. collected = {tasks}
      BY <3>2, <3>4 DEF AnswerBefore
    <3>6. f.task = tasks
      BY <1>2, <2>3, <3>1 DEF CurrentInv, OnTheWay
    <3>7. \A i \in DOMAIN downlink' : downlink'[i].kind = "boot"
      <4>1. \A i \in DOMAIN downlink' : i + 1 > 1
        BY <1>2
      <4> QED BY <1>2, <3>3, <4>1
    <3>8. IdleInv'
      BY <1>3, <1>9, <3>2, <3>7 DEF IdleInv, Unrelayed
    <3> QED BY <1>3, <2>3, <3>5, <3>6, <3>8
  <2>5. OwnResult'
    <3>1. CASE linked
      <4>1. \A t \in TaskIds : t > tasks => taskResult[t].is = "none"
        BY <1>1 DEF ResultsInv
      <4>2. Unbroken' => taskResult'[tasks].answers = {tasks} /\ tasks \in ended'
        BY <2>1, <2>4
      <4> QED BY <1>1, <1>3, <1>6, <2>1, <3>1, <4>1, <4>2, ResultIsOwn
    <3>2. CASE ~linked
      BY <1>3, <3>2 DEF OwnResult
    <3> QED BY <3>1, <3>2
  <2> QED BY <1>8, <2>1, <2>2, <2>4, <2>5 DEF CliInv, Streaming
<1>11. CASE ~EndsStream(f) /\ RunsTool(f) /\ ~linked
  <2>1. ResultsInv' /\ cli' = "prompt" /\ taskResult' \in [TaskIds -> Outcomes]
    BY <1>1, <1>3, <1>4, <1>11, GivingUpBreaks
  <2>2. CliTypeOK'
    BY <1>1, <1>2, <1>3, <1>6, <1>7, <2>1 DEF CliTypeOK
  <2> QED BY <1>3, <1>8, <1>11, <2>1, <2>2, LostPromisesNothing
<1>12. CASE ~EndsStream(f) /\ ~(RunsTool(f) /\ ~linked)
  <2>1. cli' \in {"live", "slow"} /\ taskResult' = taskResult
    BY <1>4, <1>12
  <2>2. CliTypeOK'
    BY <1>1, <1>2, <1>3, <1>6, <1>7, <2>1 DEF CliTypeOK
  <2>3. ResultsInv'
    BY <1>1, <1>3, <2>1 DEF ResultsInv, Streaming, TaskIds
  <2>4. f.kind # "done" /\ ended' = ended
    BY <1>3, <1>12 DEF EndsStream
  <2>5. OwnResult'
    BY <1>1, <1>3, <2>1, <2>4 DEF OwnResult, TaskIds
  <2>6. ASSUME Unbroken' PROVE CurrentInv'
    <3>1. CurrentInv
      BY <1>1, <1>3, <2>1, <2>6 DEF CliInv, Unbroken, Streaming
    <3>2. collected' \subseteq {tasks}
      <4>1. f.kind = "answer" => f.task = tasks
        BY <1>2, <3>1 DEF CurrentInv, OnTheWay
      <4> QED BY <1>3, <3>1, <4>1 DEF CurrentInv, answers
    <3>3. ASSUME NEW n \in Nat, AnswerBefore(n + 1) PROVE AnswerBefore(n)'
      <4>1. CASE collected = {tasks}
        <5>1. collected' = {tasks}
          BY <1>3, <3>2, <4>1 DEF answers
        <5> QED BY <1>3, <5>1 DEF AnswerBefore
      <4>2. CASE \E j \in DOMAIN downlink : j < n + 1 /\ downlink[j].kind = "answer"
        <5>1. PICK j \in DOMAIN downlink : j < n + 1 /\ downlink[j].kind = "answer"
          BY <4>2
        <5>2. CASE j = 1
          <6>1. f.kind = "answer" /\ f.task = tasks
            BY <1>2, <3>1, <5>1, <5>2 DEF CurrentInv, OnTheWay
          <6>2. collected' = {tasks}
            BY <1>3, <3>2, <6>1 DEF answers
          <6> QED BY <1>3, <6>2 DEF AnswerBefore
        <5>3. CASE j # 1
          <6>1. j - 1 \in DOMAIN downlink' /\ j - 1 < n /\ (j - 1) + 1 = j
            BY <1>2, <5>1, <5>3
          <6>2. downlink'[j - 1].kind = "answer"
            BY <1>2, <5>1, <6>1
          <6> QED BY <6>1, <6>2 DEF AnswerBefore
        <5> QED BY <5>2, <5>3
      <4> QED BY <3>3, <4>1, <4>2 DEF AnswerBefore
    <3>4. OnTheWay'
      <4>1. \A i \in DOMAIN downlink' : downlink'[i].kind = "boot" \/ downlink'[i].task = tasks'
        BY <1>2, <1>3, <3>1 DEF CurrentInv, OnTheWay
      <4>2. \A i \in DOMAIN uplink' : uplink'[i].kind = "send" =>
               /\ uplink'[i].task = tasks'
               /\ \A j \in DOMAIN uplink' : uplink'[j].kind = "send" => j = i
        BY <1>3, <1>7, <3>1 DEF CurrentInv, OnTheWay
      <4> QED BY <4>1, <4>2 DEF OnTheWay
    <3>5. EndsLast'
      <4> SUFFICES ASSUME NEW i \in DOMAIN downlink', downlink'[i].kind = "done"
                   PROVE  /\ relaying' = Unrelayed /\ NoSends' /\ AnswerBefore(i)'
                          /\ \A j \in DOMAIN downlink' : j > i => downlink'[j].kind = "boot"
        BY DEF EndsLast, Unrelayed
      <4>1. downlink[i + 1].kind = "done" /\ i + 1 \in DOMAIN downlink /\ i \in Nat
        BY <1>2
      <4>2. /\ relaying = Unrelayed /\ NoSends /\ AnswerBefore(i + 1)
            /\ \A j \in DOMAIN downlink : j > i + 1 => downlink[j].kind = "boot"
        BY <3>1, <4>1 DEF CurrentInv, EndsLast
      <4>3. \A j \in DOMAIN downlink' : j > i => j + 1 > i + 1
        BY <1>2, <4>1
      <4> QED BY <1>2, <1>3, <1>9, <3>3, <4>1, <4>2, <4>3
    <3>6. RelayedNow'
      <4>1. relaying # Unrelayed =>
               /\ relaying.task = tasks /\ NoSends
               /\ \A i \in DOMAIN downlink' : downlink'[i].kind # "done"
        BY <1>2, <3>1 DEF CurrentInv, RelayedNow
      <4>2. relaying.at = "answered" => AnswerBefore(Len(downlink) + 1)
        BY <3>1 DEF CurrentInv, RelayedNow
      <4>3. relaying.at = "answered" => AnswerBefore(Len(downlink) + 1)'
        <5>1. \A n \in Nat : AnswerBefore(n + 1) =>
                 collected' = {tasks'} \/ \E j \in DOMAIN downlink' : j < n /\ downlink'[j].kind = "answer"
          BY <3>3 DEF AnswerBefore
        <5>2. Len(downlink') = Len(downlink) - 1 /\ Len(downlink) \in Nat
          BY <1>2
        <5>3. Len(downlink) = Len(downlink') + 1
          BY <5>2
        <5>4. AnswerBefore(Len(downlink) + 1) =>
                 collected' = {tasks'} \/ \E j \in DOMAIN downlink' : j < Len(downlink) /\ downlink'[j].kind = "answer"
          BY <5>1, <5>2
        <5> QED BY <4>2, <5>3, <5>4 DEF AnswerBefore
      <4> QED BY <1>3, <1>9, <4>1, <4>3 DEF RelayedNow, Unrelayed
    <3> QED BY <1>3, <3>2, <3>4, <3>5, <3>6 DEF CurrentInv
  <2>7. Streaming'
    BY <2>1 DEF Streaming
  <2> QED BY <1>8, <2>2, <2>3, <2>5, <2>6, <2>7 DEF CliInv
<1> QED BY <1>10, <1>11, <1>12

\* The timers of the client and a connection that has ended.
LEMMA WaitingEndsSafely ==
  ASSUME CliInv, FirstTimesOut \/ ResultTimesOut \/ StreamClosed PROVE CliInv'
<1>1. CliTypeOK /\ TasksNamed /\ ResultsInv /\ OwnResult
  BY DEF CliInv
<1>2. /\ tasks' = tasks /\ collected' = collected /\ ended' = ended /\ uplink' = uplink
      /\ downlink' = downlink /\ relaying' = relaying /\ booting' = booting /\ linked' = linked
      /\ Streaming
  BY DEF FirstTimesOut, ResultTimesOut, StreamClosed, gatewaySide, Streaming
<1>3. TasksNamed'
  BY <1>1, <1>2 DEF TasksNamed
<1>4. CASE FirstTimesOut
  <2>1. cli' = "slow" /\ taskResult' = taskResult
    BY <1>4 DEF FirstTimesOut
  <2>2. CliTypeOK'
    BY <1>1, <1>2, <2>1 DEF CliTypeOK
  <2>3. Streaming'
    BY <2>1 DEF Streaming
  <2>4. ResultsInv' /\ OwnResult' /\ Unbroken' = Unbroken
    BY <1>1, <1>2, <2>1, <2>3 DEF ResultsInv, OwnResult, Unbroken
  <2>5. CurrentInv' = CurrentInv
    BY <1>2 DEF CurrentInv, OnTheWay, EndsLast, RelayedNow, AnswerBefore, NoSends
  <2> QED BY <1>2, <1>3, <2>2, <2>3, <2>4, <2>5 DEF CliInv
<1>5. CASE ResultTimesOut
  <2>1. Returns("timeout", {})
    BY <1>5 DEF ResultTimesOut
  <2>2. /\ cli' = "prompt" /\ ResultsInv' /\ taskResult' \in [TaskIds -> Outcomes] /\ ~Unbroken'
        /\ tasks \in TaskIds
        /\ \A t \in TaskIds : t # tasks => taskResult'[t] = taskResult[t]
    BY <1>2, <2>1, GivingUpBreaks
  <2>3. CliTypeOK'
    BY <1>1, <1>2, <2>2 DEF CliTypeOK
  <2>4. OwnResult'
    <3>1. CASE linked
      <4>1. \A t \in TaskIds : t > tasks => taskResult[t].is = "none"
        BY <1>1 DEF ResultsInv
      <4> QED BY <1>2, <2>2, <3>1, <4>1, ResultIsOwn
    <3>2. CASE ~linked
      BY <1>2, <3>2 DEF OwnResult
    <3> QED BY <3>1, <3>2
  <2> QED BY <1>3, <2>2, <2>3, <2>4 DEF CliInv
<1>6. CASE StreamClosed
  <2>1. Returns("ok", collected) /\ ~linked /\ collected \in SUBSET TaskIds
    BY <1>1, <1>6 DEF StreamClosed, CliTypeOK
  <2>2. cli' = "prompt" /\ ResultsInv' /\ taskResult' \in [TaskIds -> Outcomes]
    BY <1>2, <2>1, GivingUpBreaks
  <2>3. CliTypeOK'
    BY <1>1, <1>2, <2>2 DEF CliTypeOK
  <2> QED BY <1>2, <1>3, <2>1, <2>2, <2>3, LostPromisesNothing
<1> QED BY <1>4, <1>5, <1>6

\* The gateway writes no results.
LEMMA GatewayKeepsResults ==
  ASSUME CliInv, UNCHANGED clientSide, linked' => linked
  PROVE  ResultsInv' /\ OwnResult' /\ (Unbroken' => Unbroken) /\ Streaming' = Streaming
<1>1. /\ cli' = cli /\ tasks' = tasks /\ ended' = ended /\ taskResult' = taskResult
      /\ ResultsInv /\ OwnResult
  BY DEF clientSide, CliInv
<1> QED BY <1>1 DEF ResultsInv, OwnResult, Unbroken, Streaming

\* A frame of the current task behind those on their way, when the task has not ended.
LEMMA FrameSent ==
  ASSUME CliTypeOK, NEW t \in 0 .. MaxTasks, t # 0,
         NEW kind \in {"created", "request", "answer", "done"},
         downlink' = Append(downlink, Frame(t, kind))
  PROVE  /\ downlink' \in Seq(Downward) /\ DOMAIN downlink' = 1 .. (Len(downlink) + 1)
         /\ DOMAIN downlink = 1 .. Len(downlink) /\ Len(downlink) \in Nat
         /\ Len(downlink') = Len(downlink) + 1
         /\ \A i \in DOMAIN downlink : downlink'[i] = downlink[i] /\ i \in DOMAIN downlink'
         /\ downlink'[Len(downlink) + 1].kind = kind /\ downlink'[Len(downlink) + 1].task = t
         /\ \A i \in DOMAIN downlink' : i \in DOMAIN downlink \/ i = Len(downlink) + 1
<1>1. Frame(t, kind) \in Downward /\ Frame(t, kind).kind = kind /\ Frame(t, kind).task = t
  BY DEF Frame, Downward
<1>2. downlink \in Seq(Downward)
  BY DEF CliTypeOK
<1> QED BY <1>1, <1>2, FramesAppended

LEMMA SendBootSafely == ASSUME CliInv, SendBoot PROVE CliInv'
<1>1. /\ CliTypeOK /\ TasksNamed /\ downlink \in Seq(Downward) /\ MaxTasks \in Nat
  BY CliAssumption DEF CliInv, CliTypeOK
<1>2. /\ UNCHANGED clientSide /\ uplink' = uplink /\ relaying' = relaying /\ linked' = linked
      /\ cli' = cli /\ tasks' = tasks /\ collected' = collected /\ booting' = FALSE
      /\ taskResult' = taskResult /\ ended' = ended
      /\ downlink' = Append(downlink, Frame(0, "boot"))
  BY DEF SendBoot, clientSide
<1>3. /\ downlink' \in Seq(Downward) /\ DOMAIN downlink' = 1 .. (Len(downlink) + 1)
      /\ DOMAIN downlink = 1 .. Len(downlink) /\ Len(downlink) \in Nat
      /\ Len(downlink') = Len(downlink) + 1
      /\ (\A i \in DOMAIN downlink : downlink'[i] = downlink[i] /\ i \in DOMAIN downlink')
      /\ downlink'[Len(downlink) + 1].kind = "boot"
      /\ \A i \in DOMAIN downlink' : i \in DOMAIN downlink \/ i = Len(downlink) + 1
  <2>1. Frame(0, "boot") \in Downward /\ Frame(0, "boot").kind = "boot"
    BY <1>1 DEF Frame, Downward
  <2> QED BY <1>1, <1>2, <2>1, FramesAppended
<1>4. CliTypeOK'
  BY <1>1, <1>2, <1>3 DEF CliTypeOK
<1>5. TasksNamed'
  BY <1>1, <1>2, <1>3 DEF TasksNamed
<1>6. ResultsInv' /\ OwnResult' /\ (Unbroken' => Unbroken) /\ Streaming' = Streaming
  BY <1>2, GatewayKeepsResults
<1>7. ASSUME CurrentInv PROVE CurrentInv'
  <2>1. \A n \in Nat : AnswerBefore(n) =>
           collected' = {tasks'} \/ \E j \in DOMAIN downlink' : j < n /\ downlink'[j].kind = "answer"
    BY <1>2, <1>3 DEF AnswerBefore
  <2>2. OnTheWay'
    BY <1>2, <1>3, <1>7 DEF CurrentInv, OnTheWay
  <2>3. EndsLast'
    <3> SUFFICES ASSUME NEW i \in DOMAIN downlink', downlink'[i].kind = "done"
                 PROVE  /\ relaying' = Unrelayed /\ NoSends' /\ AnswerBefore(i)'
                        /\ \A j \in DOMAIN downlink' : j > i => downlink'[j].kind = "boot"
      BY DEF EndsLast, Unrelayed
    <3>1. i \in DOMAIN downlink /\ downlink[i].kind = "done" /\ i \in Nat
      BY <1>3
    <3>2. /\ relaying = Unrelayed /\ NoSends /\ AnswerBefore(i)
          /\ \A j \in DOMAIN downlink : j > i => downlink[j].kind = "boot"
      BY <1>7, <3>1 DEF CurrentInv, EndsLast
    <3>3. AnswerBefore(i)'
      BY <2>1, <3>1, <3>2 DEF AnswerBefore
    <3> QED BY <1>2, <1>3, <3>2, <3>3 DEF NoSends
  <2>4. RelayedNow'
    <3>1. relaying # Unrelayed =>
             /\ relaying.task = tasks /\ NoSends
             /\ \A i \in DOMAIN downlink' : downlink'[i].kind # "done"
      BY <1>3, <1>7 DEF CurrentInv, RelayedNow
    <3>2. relaying.at = "answered" => AnswerBefore(Len(downlink) + 1)
      BY <1>7 DEF CurrentInv, RelayedNow
    <3>3. relaying.at = "answered" =>
             collected' = {tasks'} \/ \E j \in DOMAIN downlink' : j < Len(downlink) + 1 /\ downlink'[j].kind = "answer"
      BY <1>3, <2>1, <3>2
    <3>4. relaying.at = "answered" => AnswerBefore(Len(downlink) + 1)'
      BY <1>3, <3>3 DEF AnswerBefore
    <3> QED BY <1>2, <3>1, <3>4 DEF RelayedNow, NoSends, Unrelayed
  <2> QED BY <1>2, <1>7, <2>2, <2>3, <2>4 DEF CurrentInv
<1>8. ASSUME IdleInv PROVE IdleInv'
  BY <1>2, <1>3, <1>8 DEF IdleInv, NoSends, Unrelayed
<1> QED BY <1>4, <1>5, <1>6, <1>7, <1>8 DEF CliInv

\* Frames of a turn that is relayed.
LEMMA RelaysSafely ==
  ASSUME CliInv, NEW kind \in {"request", "answer", "done"},
         NEW to \in {"asking", "answered", "none"}, NEW from \in SUBSET {"working", "resumed", "answered"},
         Relays(from, kind, to), to = "answered" <=> kind = "answer", to = "none" <=> kind = "done",
         kind = "done" => from = {"answered"}
  PROVE  CliInv'
<1>1. /\ CliTypeOK /\ TasksNamed /\ downlink \in Seq(Downward) /\ MaxTasks \in Nat
      /\ relaying \in [task : 0 .. MaxTasks, at : {"none", "working", "asking", "resumed", "answered"}]
  BY CliAssumption DEF CliInv, CliTypeOK
<1>2. /\ UNCHANGED clientSide /\ uplink' = uplink /\ booting' = booting /\ linked' = linked
      /\ cli' = cli /\ tasks' = tasks /\ collected' = collected /\ linked
      /\ taskResult' = taskResult /\ ended' = ended
      /\ downlink' = Append(downlink, Frame(relaying.task, kind))
      /\ relaying' = IF to = "none" THEN Unrelayed ELSE [relaying EXCEPT !.at = to]
      /\ relaying.at \in from /\ relaying.at # "none"
  BY DEF Relays, clientSide
<1>3. relaying.task \in 0 .. MaxTasks /\ relaying.task # 0 /\ relaying # Unrelayed
  BY <1>1, <1>2 DEF TasksNamed, Unrelayed
<1>4. /\ relaying' \in [task : 0 .. MaxTasks, at : {"none", "working", "asking", "resumed", "answered"}]
      /\ kind # "done" => relaying'.task = relaying.task /\ relaying'.at = to
      /\ kind = "done" => relaying' = Unrelayed
  BY <1>1, <1>2 DEF Unrelayed
<1>5. /\ downlink' \in Seq(Downward) /\ DOMAIN downlink' = 1 .. (Len(downlink) + 1)
      /\ DOMAIN downlink = 1 .. Len(downlink) /\ Len(downlink) \in Nat
      /\ Len(downlink') = Len(downlink) + 1
      /\ (\A i \in DOMAIN downlink : downlink'[i] = downlink[i] /\ i \in DOMAIN downlink')
      /\ downlink'[Len(downlink) + 1].kind = kind /\ downlink'[Len(downlink) + 1].task = relaying.task
      /\ \A i \in DOMAIN downlink' : i \in DOMAIN downlink \/ i = Len(downlink) + 1
  <2>1. kind \in {"created", "request", "answer", "done"}
    OBVIOUS
  <2> QED BY <1>1, <1>2, <1>3, <2>1, FrameSent
<1>6. CliTypeOK'
  BY <1>1, <1>2, <1>4, <1>5 DEF CliTypeOK
<1>7. TasksNamed'
  BY <1>1, <1>3, <1>4, <1>5 DEF TasksNamed, Unrelayed
<1>8. ResultsInv' /\ OwnResult' /\ (Unbroken' => Unbroken) /\ Streaming' = Streaming
  BY <1>2, GatewayKeepsResults
<1>9. ~IdleInv
  BY <1>3 DEF IdleInv
<1>10. ASSUME CurrentInv PROVE CurrentInv'
  <2>1. \A n \in Nat : AnswerBefore(n) =>
           collected' = {tasks'} \/ \E j \in DOMAIN downlink' : j < n /\ downlink'[j].kind = "answer"
    BY <1>2, <1>5 DEF AnswerBefore
  <2>2. relaying.task = tasks /\ NoSends /\ \A i \in DOMAIN downlink : downlink[i].kind # "done"
    BY <1>3, <1>10 DEF CurrentInv, RelayedNow
  <2>3. OnTheWay'
    BY <1>2, <1>5, <1>10, <2>2 DEF CurrentInv, OnTheWay
  <2>4. NoSends' 
    BY <1>2, <2>2 DEF NoSends
  <2>5. EndsLast'
    <3> SUFFICES ASSUME NEW i \in DOMAIN downlink', downlink'[i].kind = "done"
                 PROVE  /\ relaying' = Unrelayed /\ NoSends' /\ AnswerBefore(i)'
                        /\ \A j \in DOMAIN downlink' : j > i => downlink'[j].kind = "boot"
      BY DEF EndsLast, Unrelayed
    <3>1. i = Len(downlink) + 1 /\ kind = "done"
      BY <1>5, <2>2
    <3>2. relaying.at = "answered"
      BY <1>2, <3>1
    <3>3. AnswerBefore(Len(downlink) + 1)
      BY <1>10, <3>2 DEF CurrentInv, RelayedNow
    <3>4. i \in Nat /\ AnswerBefore(i)
      BY <1>5, <3>1, <3>3
    <3>5. AnswerBefore(i)'
      BY <2>1, <3>4 DEF AnswerBefore
    <3>6. \A j \in DOMAIN downlink' : ~(j > i)
      BY <1>5, <3>1
    <3> QED BY <1>4, <2>4, <3>1, <3>5, <3>6
  <2>6. RelayedNow'
    <3>1. CASE kind = "done"
      BY <1>4, <3>1 DEF RelayedNow, Unrelayed
    <3>2. CASE kind # "done"
      <4>1. \A i \in DOMAIN downlink' : downlink'[i].kind # "done"
        BY <1>5, <2>2, <3>2
      <4>2. ASSUME relaying'.at = "answered" PROVE AnswerBefore(Len(downlink) + 1)'
        <5>1. kind = "answer"
          BY <1>4, <3>2, <4>2
        <5>2. /\ Len(downlink) + 1 \in DOMAIN downlink' /\ Len(downlink) + 1 < Len(downlink') + 1
              /\ downlink'[Len(downlink) + 1].kind = "answer"
          BY <1>5, <5>1
        <5> QED BY <5>2 DEF AnswerBefore
      <4> QED BY <1>2, <1>4, <2>2, <2>4, <3>2, <4>1, <4>2 DEF RelayedNow, Unrelayed
    <3> QED BY <3>1, <3>2
  <2> QED BY <1>2, <1>10, <2>3, <2>5, <2>6 DEF CurrentInv
<1> QED BY <1>6, <1>7, <1>8, <1>9, <1>10 DEF CliInv

LEMMA ReadFrameSafely == ASSUME CliInv, ReadFrame PROVE CliInv'
<1> DEFINE f == uplink[1]
<1>1. /\ CliTypeOK /\ TasksNamed /\ downlink \in Seq(Downward) /\ MaxTasks \in Nat
      /\ uplink \in Seq(Upward)
      /\ relaying \in [task : 0 .. MaxTasks, at : {"none", "working", "asking", "resumed", "answered"}]
  BY CliAssumption DEF CliInv, CliTypeOK
<1>2. /\ UNCHANGED clientSide /\ uplink' = Tail(uplink) /\ booting' = booting /\ linked' = linked
      /\ cli' = cli /\ tasks' = tasks /\ collected' = collected
      /\ taskResult' = taskResult /\ ended' = ended /\ uplink # <<>>
  BY DEF ReadFrame, clientSide
<1>3. /\ uplink' \in Seq(Upward) /\ Head(uplink) = f /\ f \in Upward /\ 1 \in DOMAIN uplink
      /\ \A i \in DOMAIN uplink' :
            uplink'[i] = uplink[i + 1] /\ i + 1 \in DOMAIN uplink /\ i \in Nat /\ i > 0
  BY <1>1, <1>2, FrameTaken
<1>4. f.task \in 0 .. MaxTasks /\ f.task # 0
  BY <1>1, <1>3 DEF Upward, TaskIds
<1>5. ResultsInv' /\ OwnResult' /\ (Unbroken' => Unbroken) /\ Streaming' = Streaming
  BY <1>2, GatewayKeepsResults
<1>6. NoSends => NoSends'
  BY <1>3 DEF NoSends
<1>7. CASE f.kind = "send" /\ relaying = Unrelayed
  <2>1. /\ relaying' = [task |-> f.task, at |-> "working"]
        /\ downlink' = Append(downlink, Frame(f.task, "created"))
    BY <1>3, <1>7 DEF ReadFrame
  <2>2. /\ downlink' \in Seq(Downward) /\ DOMAIN downlink' = 1 .. (Len(downlink) + 1)
        /\ (\A i \in DOMAIN downlink : downlink'[i] = downlink[i])
        /\ downlink'[Len(downlink) + 1].kind = "created" /\ downlink'[Len(downlink) + 1].task = f.task
        /\ \A i \in DOMAIN downlink' : i \in DOMAIN downlink \/ i = Len(downlink) + 1
    BY <1>1, <1>4, <2>1, FrameSent
  <2>3. /\ relaying' \in [task : 0 .. MaxTasks, at : {"none", "working", "asking", "resumed", "answered"}]
        /\ relaying'.task = f.task /\ relaying'.at = "working"
    BY <1>4, <2>1
  <2>4. CliTypeOK'
    BY <1>1, <1>2, <1>3, <2>2, <2>3 DEF CliTypeOK
  <2>5. TasksNamed'
    BY <1>1, <1>4, <2>2, <2>3 DEF TasksNamed
  <2>6. ~NoSends
    BY <1>3, <1>7 DEF NoSends
  <2>7. ASSUME CurrentInv PROVE CurrentInv'
    <3>1. /\ f.task = tasks
          /\ \A j \in DOMAIN uplink : uplink[j].kind = "send" => j = 1
      BY <1>3, <1>7, <2>7 DEF CurrentInv, OnTheWay
    <3>2. NoSends'
      <4>1. \A i \in DOMAIN uplink' : i + 1 # 1
        BY <1>3
      <4> QED BY <1>3, <3>1, <4>1 DEF NoSends
    <3>3. \A i \in DOMAIN downlink : downlink[i].kind # "done"
      BY <2>6, <2>7 DEF CurrentInv, EndsLast
    <3>4. \A i \in DOMAIN downlink' : downlink'[i].kind # "done"
      BY <2>2, <3>3
    <3>5. OnTheWay'
      BY <1>2, <2>2, <2>7, <3>1, <3>2 DEF CurrentInv, OnTheWay, NoSends
    <3> QED BY <1>2, <2>3, <2>7, <3>1, <3>2, <3>4, <3>5 DEF CurrentInv, EndsLast, RelayedNow
  <2>8. ~IdleInv
    BY <2>6 DEF IdleInv
  <2> QED BY <1>5, <2>4, <2>5, <2>7, <2>8 DEF CliInv
<1>8. CASE f.kind = "result" /\ downlink' = downlink
           /\ relaying' = IF relaying = [task |-> f.task, at |-> "asking"]
                          THEN [relaying EXCEPT !.at = "resumed"] ELSE relaying
  <2>1. /\ relaying' \in [task : 0 .. MaxTasks, at : {"none", "working", "asking", "resumed", "answered"}]
        /\ relaying'.task = relaying.task /\ (relaying'.at = relaying.at \/ relaying'.at = "resumed")
        /\ relaying.at = "none" => relaying'.at = "none"
        /\ relaying = Unrelayed => relaying' = Unrelayed
    BY <1>1, <1>8 DEF Unrelayed
  <2>2. CliTypeOK'
    BY <1>1, <1>2, <1>3, <1>8, <2>1 DEF CliTypeOK
  <2>3. TasksNamed'
    BY <1>1, <1>8, <2>1 DEF TasksNamed
  <2>4. ASSUME CurrentInv PROVE CurrentInv'
    <3>1. \A n : AnswerBefore(n) =>
             collected' = {tasks'} \/ \E j \in DOMAIN downlink' : j < n /\ downlink'[j].kind = "answer"
      BY <1>2, <1>8 DEF AnswerBefore
    <3>2. OnTheWay'
      <4>1. \A i, j \in DOMAIN uplink' : i + 1 = j + 1 => i = j
        BY <1>3
      <4> QED BY <1>2, <1>3, <1>8, <2>4, <4>1 DEF CurrentInv, OnTheWay
    <3>3. EndsLast'
      <4> SUFFICES ASSUME NEW i \in DOMAIN downlink, downlink[i].kind = "done"
                   PROVE  /\ relaying' = Unrelayed /\ NoSends' /\ AnswerBefore(i)'
                          /\ \A j \in DOMAIN downlink : j > i => downlink[j].kind = "boot"
        BY <1>8 DEF EndsLast, Unrelayed
      <4>1. /\ relaying = Unrelayed /\ NoSends /\ AnswerBefore(i)
            /\ \A j \in DOMAIN downlink : j > i => downlink[j].kind = "boot"
        BY <2>4 DEF CurrentInv, EndsLast
      <4>2. AnswerBefore(i)'
        BY <3>1, <4>1 DEF AnswerBefore
      <4> QED BY <1>6, <2>1, <4>1, <4>2
    <3>4. AnswerBefore(Len(downlink) + 1) => AnswerBefore(Len(downlink) + 1)'
      BY <1>2, <1>8 DEF AnswerBefore
    <3>5. RelayedNow'
      BY <1>2, <1>6, <1>8, <2>1, <2>4, <3>4 DEF CurrentInv, RelayedNow, Unrelayed
    <3> QED BY <1>2, <2>4, <3>2, <3>3, <3>5 DEF CurrentInv
  <2>5. ASSUME IdleInv PROVE IdleInv'
    BY <1>6, <1>8, <2>1, <2>5 DEF IdleInv, Unrelayed
  <2> QED BY <1>5, <2>2, <2>3, <2>4, <2>5 DEF CliInv
<1> QED BY <1>3, <1>7, <1>8 DEF ReadFrame

\* The tool's answer is waited for no longer, or the connection is lost.
LEMMA TimesOutSafely == ASSUME CliInv, ToolTimesOut PROVE CliInv'
<1>1. /\ CliTypeOK /\ TasksNamed
      /\ relaying \in [task : 0 .. MaxTasks, at : {"none", "working", "asking", "resumed", "answered"}]
  BY DEF CliInv, CliTypeOK
<1>2. /\ UNCHANGED clientSide /\ uplink' = uplink /\ booting' = booting /\ linked' = linked
      /\ cli' = cli /\ tasks' = tasks /\ collected' = collected /\ downlink' = downlink
      /\ taskResult' = taskResult /\ ended' = ended
      /\ relaying.at = "asking" /\ relaying' = [relaying EXCEPT !.at = "resumed"]
  BY DEF ToolTimesOut, clientSide
<1>3. /\ relaying' \in [task : 0 .. MaxTasks, at : {"none", "working", "asking", "resumed", "answered"}]
      /\ relaying'.task = relaying.task /\ relaying'.at = "resumed" /\ relaying # Unrelayed
  BY <1>1, <1>2 DEF Unrelayed
<1>4. CliTypeOK'
  BY <1>1, <1>2, <1>3 DEF CliTypeOK
<1>5. TasksNamed'
  BY <1>1, <1>2, <1>3 DEF TasksNamed
<1>6. ResultsInv' /\ OwnResult' /\ (Unbroken' => Unbroken) /\ Streaming' = Streaming
  BY <1>2, GatewayKeepsResults
<1>7. ~IdleInv
  BY <1>3 DEF IdleInv
<1>8. ASSUME CurrentInv PROVE CurrentInv'
  <2>1. OnTheWay' /\ (NoSends => NoSends')
    BY <1>2, <1>8 DEF CurrentInv, OnTheWay, NoSends
  <2>2. relaying.task = tasks /\ NoSends /\ \A i \in DOMAIN downlink : downlink[i].kind # "done"
    BY <1>3, <1>8 DEF CurrentInv, RelayedNow
  <2>3. EndsLast'
    BY <1>2, <2>2 DEF EndsLast
  <2>4. RelayedNow'
    BY <1>2, <1>3, <2>1, <2>2 DEF RelayedNow
  <2> QED BY <1>2, <1>8, <2>1, <2>3, <2>4 DEF CurrentInv
<1> QED BY <1>4, <1>5, <1>6, <1>7, <1>8 DEF CliInv

LEMMA LossIsSafe == ASSUME CliInv, ConnectionLost PROVE CliInv'
<1>1. /\ UNCHANGED clientSide /\ uplink' = uplink /\ booting' = booting /\ linked' = FALSE
      /\ cli' = cli /\ tasks' = tasks /\ collected' = collected /\ downlink' = downlink
      /\ taskResult' = taskResult /\ ended' = ended /\ relaying' = relaying
  BY DEF ConnectionLost, clientSide
<1>2. CliTypeOK' /\ TasksNamed'
  BY <1>1 DEF CliInv, CliTypeOK, TasksNamed
<1>3. ResultsInv'
  BY <1>1, GatewayKeepsResults
<1> QED BY <1>1, <1>2, <1>3, LostPromisesNothing

LEMMA CliInitInv == CliInit => CliInv
<1> SUFFICES ASSUME CliInit PROVE CliInv
  OBVIOUS
<1>1. CliTypeOK
  <2>1. 0 \in 0 .. MaxTasks
    BY CliAssumption
  <2>2. [is |-> "none", answers |-> {}] \in Outcomes
    BY DEF Outcomes
  <2>3. taskResult \in [TaskIds -> Outcomes]
    BY <2>2 DEF CliInit
  <2>4. Unrelayed \in [task : 0 .. MaxTasks, at : {"none", "working", "asking", "resumed", "answered"}]
    BY <2>1 DEF Unrelayed
  <2>5. uplink \in Seq(Upward) /\ downlink \in Seq(Downward)
    BY EmptySeq DEF CliInit
  <2> QED BY <2>1, <2>3, <2>4, <2>5 DEF CliInit, CliTypeOK
<1>2. \A t \in TaskIds : taskResult[t].is = "none"
  BY DEF CliInit
<1>3. TasksNamed /\ ResultsInv /\ OwnResult
  BY <1>2 DEF CliInit, TasksNamed, ResultsInv, OwnResult, Unrelayed, Streaming
<1>4. IdleInv /\ ~Streaming
  BY DEF CliInit, IdleInv, NoSends, Streaming
<1> QED BY <1>1, <1>3, <1>4 DEF CliInv

LEMMA CliStep == CliInv /\ [CliNext]_cliVars => CliInv'
<1> SUFFICES ASSUME CliInv, [CliNext]_cliVars PROVE CliInv'
  OBVIOUS
<1>1. CASE SendTask
  BY <1>1, SendTaskSafely
<1>2. CASE ClientSteps \/ ResultTimesOut
  BY <1>2, TakeFrameSafely, WaitingEndsSafely DEF ClientSteps
<1>3. CASE GatewayStep
  <2>1. CASE SendBoot \/ ReadFrame \/ ToolTimesOut
    BY <2>1, SendBootSafely, ReadFrameSafely, TimesOutSafely
  <2>2. CASE RelayToolRequest
    <3>1. Relays({"working"}, "request", "asking")
      BY <2>2 DEF RelayToolRequest
    <3> QED BY <3>1, RelaysSafely
  <2>3. CASE RelayAnswer
    <3>1. Relays({"working", "resumed"}, "answer", "answered")
      BY <2>3 DEF RelayAnswer
    <3> QED BY <3>1, RelaysSafely
  <2>4. CASE RelayTurnDone
    <3>1. Relays({"answered"}, "done", "none")
      BY <2>4 DEF RelayTurnDone
    <3> QED BY <3>1, RelaysSafely
  <2> QED BY <1>3, <2>1, <2>2, <2>3, <2>4 DEF GatewayStep
<1>4. CASE ConnectionLost
  BY <1>4, LossIsSafe
<1>5. CASE UNCHANGED cliVars
  BY <1>5 DEF cliVars, CliInv, CliTypeOK, TasksNamed, ResultsInv, OwnResult, Unbroken,
     Streaming,
     CurrentInv, IdleInv, OnTheWay, EndsLast, RelayedNow, AnswerBefore, NoSends
<1> QED BY <1>1, <1>2, <1>3, <1>4, <1>5 DEF CliNext

\* The answer printed for a task is its own, for any number of tasks, over a connection that is up
\* and until a task is given up (cli/event_stream.py).
THEOREM ResultsAreOwn == CliSpec => [](CliTypeOK /\ OwnResult)
<1>1. CliInv => CliTypeOK /\ OwnResult
  BY DEF CliInv
<1> QED BY <1>1, CliInitInv, CliStep, PTL DEF CliSpec

-----------------------------------------------------------------------------
(* ChatWindow: what the window of a chat lacks is on its way.               *)

\* Until the client is booted nothing is said but its plan and its chats.
BootInv ==
    /\ screen = "authenticating" => Len(toClient) = 1 /\ toClient[1].kind = "plan"
    /\ screen = "booting" =>
          Len(toClient) <= 1 /\ \A i \in DOMAIN toClient : toClient[i].kind = "ready"
    /\ screen # "ready" => toServer = <<>> /\ relayed = NoRelay /\ givenWhole = NoChat
    /\ screen = "ready" => \A i \in DOMAIN toClient : toClient[i].kind \notin {"plan", "ready"}

\* A chat's turns are its own.
TurnsInv ==
    /\ \A i \in DOMAIN toClient : toClient[i].kind = "updated" => toClient[i].chat \in Chats
    /\ \A c \in DOMAIN storedTurns : \A t \in Range(storedTurns[c]) : t.chat = c

\* The turns a chat has stored, and the one that will be.
Due(stored, relay, c) ==
    IF c \in DOMAIN stored
    THEN Range(stored[c]) \union {t \in {relay.turn} : relay # NoRelay /\ t.chat = c}
    ELSE {}

\* No deletion of the chat follows frame i.
LeftAfter(frames, c, i) ==
    \A k \in DOMAIN frames : k > i => ~(frames[k].kind = "deleted" /\ frames[k].chat = c)

\* The turn comes after frame i, and stays.
ComesAfter(frames, c, t, i) ==
    \E j \in DOMAIN frames : /\ j > i /\ frames[j].kind = "created" /\ t \in Range(frames[j].turns)
                             /\ LeftAfter(frames, c, j)

\* Each turn that is due is among those given at frame i, or it comes.
GivesAll(frames, due, i, c, turns) ==
    \A t \in due : (t \in Range(turns) /\ LeftAfter(frames, c, i)) \/ ComesAfter(frames, c, t, i)

NoHistory(frames, i) == \A k \in DOMAIN frames : k > i => frames[k].kind # "history"

\* With no history on its way the window has each turn, or it comes.
ShownInv ==
    NoHistory(toClient, 0) =>
        GivesAll(toClient, Due(storedTurns, relayed, givenWhole), 0, givenWhole, window)

\* The last history on its way has each turn, or it comes.
GivenInv ==
    \A i \in DOMAIN toClient :
        LET f == toClient[i]
        IN (f.kind = "history" /\ f.whole /\ NoHistory(toClient, i)) =>
               GivesAll(toClient, Due(storedTurns, relayed, f.chat), i, f.chat, f.turns)

ChatInv == WindowTypeOK /\ BootInv /\ TurnsInv /\ ShownInv /\ GivenInv

\* What a sequence holds when something is added.
LEMMA RangeAppended ==
  ASSUME NEW S, NEW s \in Seq(S), NEW x \in S
  PROVE  Append(s, x) \in Seq(S) /\ Range(Append(s, x)) = Range(s) \union {x}
<1>1. /\ Append(s, x) \in Seq(S) /\ Len(s) \in Nat
      /\ DOMAIN s = 1 .. Len(s) /\ DOMAIN Append(s, x) = 1 .. (Len(s) + 1)
      /\ \A i \in 1 .. Len(s) : Append(s, x)[i] = s[i]
      /\ Append(s, x)[Len(s) + 1] = x
  BY AppendProperties, LenProperties
<1>2. 1 .. (Len(s) + 1) = 1 .. Len(s) \union {Len(s) + 1}
  BY <1>1
<1> QED BY <1>1, <1>2 DEF Range

LEMMA RangeJoined ==
  ASSUME NEW S, NEW s \in Seq(S), NEW t \in Seq(S)
  PROVE  s \o t \in Seq(S) /\ Range(s \o t) = Range(s) \union Range(t)
<1>1. /\ s \o t \in Seq(S) /\ Len(s) \in Nat /\ Len(t) \in Nat
      /\ DOMAIN s = 1 .. Len(s) /\ DOMAIN t = 1 .. Len(t) /\ DOMAIN (s \o t) = 1 .. (Len(s) + Len(t))
      /\ \A i \in 1 .. (Len(s) + Len(t)) : (s \o t)[i] = IF i <= Len(s) THEN s[i] ELSE t[i - Len(s)]
  BY ConcatProperties, LenProperties
<1>2. \A i \in 1 .. Len(s) : i \in 1 .. (Len(s) + Len(t)) /\ (s \o t)[i] = s[i]
  BY <1>1
<1>3. \A i \in 1 .. Len(t) : i + Len(s) \in 1 .. (Len(s) + Len(t)) /\ (s \o t)[i + Len(s)] = t[i]
  BY <1>1
<1>4. \A i \in 1 .. (Len(s) + Len(t)) : i \in 1 .. Len(s) \/ i - Len(s) \in 1 .. Len(t)
  BY <1>1
<1>5. Range(s \o t) \subseteq Range(s) \union Range(t)
  BY <1>1, <1>4 DEF Range
<1>6. Range(s) \subseteq Range(s \o t)
  BY <1>1, <1>2 DEF Range
<1>7. Range(t) \subseteq Range(s \o t)
  BY <1>1, <1>3, ZenonT(40) DEF Range
<1> QED BY <1>1, <1>5, <1>6, <1>7

LEMMA RangeMember ==
  ASSUME NEW S, NEW s \in Seq(S) PROVE Range(s) \subseteq S
BY LenProperties, ElementOfSeq DEF Range

LEMMA FewElements ==
  ASSUME NEW S, NEW a \in S, NEW b \in S, NEW c \in S
  PROVE  /\ <<a>> \in Seq(S) /\ DOMAIN <<a>> = 1 .. 1
         /\ <<a, b>> \in Seq(S) /\ DOMAIN <<a, b>> = 1 .. 2
         /\ <<a, b, c>> \in Seq(S) /\ DOMAIN <<a, b, c>> = 1 .. 3
<1>1. <<a>> \in Seq(S) /\ Len(<<a>>) = 1
  OBVIOUS
<1>2. <<a, b>> \in Seq(S) /\ Len(<<a, b>>) = 2
  OBVIOUS
<1>3. <<a, b, c>> \in Seq(S) /\ Len(<<a, b, c>>) = 3
  OBVIOUS
<1> QED BY <1>1, <1>2, <1>3, LenProperties

LEMMA RangeOfOne == ASSUME NEW S, NEW a \in S PROVE Range(<<a>>) = {a}
<1> DEFINE s == <<a>>
<1>1. DOMAIN s = 1 .. 1 /\ s[1] = a
  BY FewElements
<1>2. \A k \in 1 .. 1 : k = 1
  OBVIOUS
<1>3. 1 \in 1 .. 1
  OBVIOUS
<1> HIDE DEF s
<1>4. Range(s) = {a}
  BY <1>1, <1>2, <1>3 DEF Range
<1> QED BY <1>4 DEF s

\* The turns that are selected are those of the set.
LEMMA SelectedTurns ==
  ASSUME NEW turns \in Seq(ChatTurns), NEW some
  PROVE  /\ Selected(turns, some) \in Seq(ChatTurns)
         /\ Range(Selected(turns, some)) = Range(turns) \intersect some
<1> DEFINE n == Len(turns)
           V == Seq(ChatTurns)
           step == [p \in (1 .. n) \X V |->
                        IF turns[p[1]] \in some THEN Append(p[2], turns[p[1]]) ELSE p[2]]
<1>1. n \in Nat /\ DOMAIN turns = 1 .. n /\ \A i \in 1 .. n : turns[i] \in ChatTurns
  BY LenProperties, ElementOfSeq
<1>2. step \in [(1 .. n) \X V -> V]
  <2>1. ASSUME NEW p \in (1 .. n) \X V PROVE step[p] \in V
    <3>1. p[1] \in 1 .. n /\ p[2] \in V
      OBVIOUS
    <3> QED BY <1>1, <3>1
  <2> QED BY <2>1
<1>3. <<>> \in V
  OBVIOUS
<1> HIDE DEF step
<1>4. PICK iter \in [SUBSET (1 .. n) -> V] : AreFolded(iter, n, <<>>, step)
  BY <1>1, <1>2, <1>3, FoldsExist
<1>5. \A s \in SUBSET (1 .. n) : s # {} => Max(s) \in 1 .. n /\ s \ {Max(s)} \in SUBSET (1 .. n)
  BY <1>1, GreatestOfPrefix
<1>6. \A s \in SUBSET (1 .. n) : s # {} =>
         step[<<Max(s), iter[s \ {Max(s)}]>>] =
             IF turns[Max(s)] \in some THEN Append(iter[s \ {Max(s)}], turns[Max(s)])
             ELSE iter[s \ {Max(s)}]
  BY <1>4, <1>5 DEF step
<1> DEFINE are(it) ==
               it = [s \in SUBSET (1 .. n) |->
                         IF s = {} THEN <<>>
                         ELSE IF turns[Max(s)] \in some THEN Append(it[s \ {Max(s)}], turns[Max(s)])
                              ELSE it[s \ {Max(s)}]]
<1>7. are(iter)
  BY <1>4, <1>6 DEF AreFolded
<1>8. Selected(turns, some) = LET it == CHOOSE it : are(it) IN it[1 .. n]
  BY <1>1 DEF Selected, FoldLeft, MapThenFoldSet
<1>9. PICK it : are(it) /\ Selected(turns, some) = it[1 .. n]
  <2> HIDE DEF are
  <2> QED BY <1>7, <1>8
<1> DEFINE seen(k) == {turns[i] : i \in 1 .. k} \intersect some
           good == {k \in 0 .. n : it[1 .. k] \in V /\ Range(it[1 .. k]) = seen(k)}
<1>10. 0 \in good
  <2>1. 1 .. 0 = {} /\ it[{}] = <<>>
    BY <1>9
  <2>2. Range(<<>>) = {}
    BY DEF Range
  <2>3. seen(0) = {}
    BY <2>1
  <2> HIDE DEF V
  <2> QED BY <1>1, <1>3, <2>1, <2>2, <2>3
<1>11. ASSUME NEW k \in 1 .. n, k - 1 \in good PROVE k \in good
  <2>1. Max(1 .. k) = k /\ (1 .. k) \ {k} = 1 .. (k - 1) /\ 1 .. k # {} /\ 1 .. k \in SUBSET (1 .. n)
    <3>1. n \in Nat
      BY <1>1
    <3> HIDE DEF n
    <3> QED BY <3>1, GreatestOfPrefix
  <2>2. it[1 .. k] = IF turns[k] \in some THEN Append(it[1 .. (k - 1)], turns[k])
                     ELSE it[1 .. (k - 1)]
    BY <1>9, <2>1
  <2>3. it[1 .. (k - 1)] \in Seq(ChatTurns) /\ turns[k] \in ChatTurns
        /\ Range(it[1 .. (k - 1)]) = seen(k - 1)
    BY <1>1, <1>11
  <2>4. {turns[i] : i \in 1 .. k} = {turns[i] : i \in 1 .. (k - 1)} \union {turns[k]}
    <3>1. 1 .. k = 1 .. (k - 1) \union {k}
      BY <1>1
    <3> QED BY <3>1
  <2>5. CASE turns[k] \in some
    <3>1. it[1 .. k] = Append(it[1 .. (k - 1)], turns[k])
      BY <2>2, <2>5
    <3>2. /\ Append(it[1 .. (k - 1)], turns[k]) \in Seq(ChatTurns)
          /\ Range(Append(it[1 .. (k - 1)], turns[k])) = Range(it[1 .. (k - 1)]) \union {turns[k]}
      BY <2>3, RangeAppended
    <3>3. seen(k) = seen(k - 1) \union {turns[k]}
      BY <2>4, <2>5
    <3> HIDE DEF seen
    <3>4. it[1 .. k] \in V
      BY <3>1, <3>2
    <3>5. Range(it[1 .. k]) = Range(it[1 .. (k - 1)]) \union {turns[k]}
      BY <3>1, <3>2
    <3>6. Range(it[1 .. k]) = seen(k)
      BY <2>3, <3>3, <3>5
    <3>7. k \in 0 .. n
      BY <1>1
    <3> HIDE DEF n, V
    <3> QED BY <3>4, <3>6, <3>7
  <2>6. CASE turns[k] \notin some
    <3>1. it[1 .. k] = it[1 .. (k - 1)]
      BY <2>2, <2>6
    <3>2. seen(k) = seen(k - 1)
      BY <2>4, <2>6
    <3> HIDE DEF seen
    <3> QED BY <2>3, <3>1, <3>2
  <2> QED BY <2>5, <2>6
<1> HIDE DEF good
<1>12. 0 .. n \subseteq good
  <2> HIDE DEF n
  <2> QED BY <1>1, <1>10, <1>11, Stepwise
<1>13. n \in good
  BY <1>1, <1>12
<1>14. seen(n) = Range(turns) \intersect some
  BY <1>1 DEF Range
<1> HIDE DEF n, seen
<1> QED BY <1>9, <1>13, <1>14 DEF good

\* What frames sent behind the others leave true.
LEMMA FramesSent ==
  ASSUME toClient \in Seq(Arrivals), NEW fs \in Seq(Arrivals), toClient' = toClient \o fs
  PROVE  /\ toClient' \in Seq(Arrivals) /\ Len(toClient) \in Nat /\ Len(fs) \in Nat
         /\ DOMAIN toClient = 1 .. Len(toClient) /\ DOMAIN fs = 1 .. Len(fs)
         /\ DOMAIN toClient' = 1 .. (Len(toClient) + Len(fs))
         /\ \A i \in DOMAIN toClient : i \in DOMAIN toClient' /\ toClient'[i] = toClient[i]
         /\ \A i \in DOMAIN fs : i + Len(toClient) \in DOMAIN toClient' /\ toClient'[i + Len(toClient)] = fs[i]
         /\ \A i \in DOMAIN toClient' : i \in DOMAIN toClient
               \/ (i - Len(toClient) \in DOMAIN fs /\ toClient'[i] = fs[i - Len(toClient)] /\ i > Len(toClient))
<1>1. /\ toClient' \in Seq(Arrivals) /\ Len(toClient) \in Nat /\ Len(fs) \in Nat
      /\ DOMAIN toClient = 1 .. Len(toClient) /\ DOMAIN fs = 1 .. Len(fs)
      /\ DOMAIN toClient' = 1 .. (Len(toClient) + Len(fs))
  BY ConcatProperties, LenProperties
<1>2. \A i \in 1 .. (Len(toClient) + Len(fs)) :
         toClient'[i] = IF i <= Len(toClient) THEN toClient[i] ELSE fs[i - Len(toClient)]
  BY ConcatProperties
<1>3. \A i \in 1 .. Len(fs) :
         /\ i + Len(toClient) \in 1 .. (Len(toClient) + Len(fs))
         /\ ~(i + Len(toClient) <= Len(toClient)) /\ (i + Len(toClient)) - Len(toClient) = i
  BY <1>1
<1>4. \A i \in DOMAIN fs : i + Len(toClient) \in DOMAIN toClient' /\ toClient'[i + Len(toClient)] = fs[i]
  BY <1>1, <1>2, <1>3
<1>5. \A i \in DOMAIN toClient : i \in DOMAIN toClient' /\ toClient'[i] = toClient[i]
  BY <1>1, <1>2
<1>6. \A i \in DOMAIN toClient' : i \in DOMAIN toClient
         \/ (i - Len(toClient) \in DOMAIN fs /\ toClient'[i] = fs[i - Len(toClient)] /\ i > Len(toClient))
  BY <1>1, <1>2
<1> QED BY <1>1, <1>4, <1>5, <1>6

LEMMA SendingKeeps ==
  ASSUME toClient \in Seq(Arrivals), NEW fs \in Seq(Arrivals), toClient' = toClient \o fs, NEW c,
         \A k \in DOMAIN fs : ~(fs[k].kind = "deleted" /\ fs[k].chat = c)
  PROVE  /\ \A i : LeftAfter(toClient, c, i) => LeftAfter(toClient', c, i)
         /\ \A t, i : ComesAfter(toClient, c, t, i) => ComesAfter(toClient', c, t, i)
<1>1. ASSUME NEW i, LeftAfter(toClient, c, i) PROVE LeftAfter(toClient', c, i)
  BY <1>1, FramesSent DEF LeftAfter
<1>2. ASSUME NEW t, NEW i, ComesAfter(toClient, c, t, i) PROVE ComesAfter(toClient', c, t, i)
  <2>1. PICK j \in DOMAIN toClient :
            /\ j > i /\ toClient[j].kind = "created" /\ t \in Range(toClient[j].turns)
            /\ LeftAfter(toClient, c, j)
    BY <1>2 DEF ComesAfter
  <2>2. j \in DOMAIN toClient' /\ toClient'[j] = toClient[j]
    BY FramesSent
  <2>3. LeftAfter(toClient', c, j)
    BY <1>1, <2>1
  <2> QED BY <2>1, <2>2, <2>3 DEF ComesAfter
<1> QED BY <1>1, <1>2

\* A turn that is announced behind all frames comes.
LEMMA AnnouncedComes ==
  ASSUME toClient \in Seq(Arrivals), NEW fs \in Seq(Arrivals), toClient' = toClient \o fs, NEW c, NEW t,
         NEW n \in DOMAIN fs, fs[n].kind = "created", t \in Range(fs[n].turns),
         \A k \in DOMAIN fs : fs[k].kind # "deleted",
         NEW i \in 0 .. Len(toClient)
  PROVE  ComesAfter(toClient', c, t, i)
<1> DEFINE j == n + Len(toClient)
<1>1. /\ j \in DOMAIN toClient' /\ toClient'[j] = fs[n] /\ Len(toClient) \in Nat
      /\ DOMAIN fs = 1 .. Len(fs) /\ Len(fs) \in Nat
  BY FramesSent
<1>2. j > i /\ j > Len(toClient)
  BY <1>1
<1>3. ASSUME NEW k \in DOMAIN toClient', k > j PROVE toClient'[k].kind # "deleted"
  <2>1. k \notin DOMAIN toClient
    BY <1>1, <1>2, <1>3, FramesSent
  <2>2. k - Len(toClient) \in DOMAIN fs /\ toClient'[k] = fs[k - Len(toClient)]
    BY <2>1, FramesSent
  <2> QED BY <2>2
<1> HIDE DEF j
<1> QED BY <1>1, <1>2, <1>3 DEF ComesAfter, LeftAfter

\* Each turn that is due was due and its chat is not deleted, or is announced.
LEMMA DueStays ==
  ASSUME toClient \in Seq(Arrivals), NEW fs \in Seq(Arrivals), toClient' = toClient \o fs,
         \A k \in DOMAIN fs : fs[k].kind # "history",
         NEW c, NEW due, NEW next, NEW turns, NEW i \in 0 .. Len(toClient),
         \A t \in next :
             \/ t \in due /\ \A k \in DOMAIN fs : ~(fs[k].kind = "deleted" /\ fs[k].chat = c)
             \/ /\ \E n \in DOMAIN fs : fs[n].kind = "created" /\ t \in Range(fs[n].turns)
                /\ \A k \in DOMAIN fs : fs[k].kind # "deleted"
  PROVE  /\ GivesAll(toClient, due, i, c, turns) => GivesAll(toClient', next, i, c, turns)
         /\ NoHistory(toClient', i) => NoHistory(toClient, i)
<1>1. ASSUME GivesAll(toClient, due, i, c, turns), NEW t \in next
      PROVE  (t \in Range(turns) /\ LeftAfter(toClient', c, i)) \/ ComesAfter(toClient', c, t, i)
  <2>1. CASE t \in due /\ \A k \in DOMAIN fs : ~(fs[k].kind = "deleted" /\ fs[k].chat = c)
    <3>1. /\ LeftAfter(toClient, c, i) => LeftAfter(toClient', c, i)
          /\ ComesAfter(toClient, c, t, i) => ComesAfter(toClient', c, t, i)
      BY <2>1, SendingKeeps
    <3>2. (t \in Range(turns) /\ LeftAfter(toClient, c, i)) \/ ComesAfter(toClient, c, t, i)
      BY <1>1, <2>1 DEF GivesAll
    <3> QED BY <3>1, <3>2
  <2>2. CASE /\ \E n \in DOMAIN fs : fs[n].kind = "created" /\ t \in Range(fs[n].turns)
             /\ \A k \in DOMAIN fs : fs[k].kind # "deleted"
    BY <2>2, AnnouncedComes
  <2> QED BY <1>1, <2>1, <2>2
<1>2. NoHistory(toClient', i) => NoHistory(toClient, i)
  BY FramesSent DEF NoHistory
<1> QED BY <1>1, <1>2 DEF GivesAll

\* What is sent behind the others, when it is no history.
LEMMA SendingGives ==
  ASSUME toClient \in Seq(Arrivals), ShownInv, GivenInv,
         NEW fs \in Seq(Arrivals), toClient' = toClient \o fs,
         givenWhole' = givenWhole, window' = window,
         \A k \in DOMAIN fs : fs[k].kind # "history",
         \A c : \A t \in Due(storedTurns', relayed', c) :
             \/ /\ t \in Due(storedTurns, relayed, c)
                /\ \A k \in DOMAIN fs : ~(fs[k].kind = "deleted" /\ fs[k].chat = c)
             \/ /\ \E n \in DOMAIN fs : fs[n].kind = "created" /\ t \in Range(fs[n].turns)
                /\ \A k \in DOMAIN fs : fs[k].kind # "deleted"
  PROVE  ShownInv' /\ GivenInv'
<1>1. Len(toClient) \in Nat /\ DOMAIN toClient = 1 .. Len(toClient)
  BY LenProperties
<1>2. ShownInv'
  <2>1. 0 \in 0 .. Len(toClient)
    BY <1>1
  <2> DEFINE due == Due(storedTurns, relayed, givenWhole)
             next == Due(storedTurns', relayed', givenWhole)
  <2>2. \A t \in next :
             \/ t \in due /\ \A k \in DOMAIN fs : ~(fs[k].kind = "deleted" /\ fs[k].chat = givenWhole)
             \/ /\ \E n \in DOMAIN fs : fs[n].kind = "created" /\ t \in Range(fs[n].turns)
                /\ \A k \in DOMAIN fs : fs[k].kind # "deleted"
    OBVIOUS
  <2> HIDE DEF due, next
  <2>3. /\ GivesAll(toClient, due, 0, givenWhole, window) => GivesAll(toClient', next, 0, givenWhole, window)
        /\ NoHistory(toClient', 0) => NoHistory(toClient, 0)
    BY <2>1, <2>2, DueStays
  <2> QED BY <2>3 DEF ShownInv, due, next
<1>3. GivenInv'
  <2> SUFFICES ASSUME NEW i \in DOMAIN toClient', NEW f, f = toClient'[i],
                      f.kind = "history", f.whole, NoHistory(toClient', i)
               PROVE  GivesAll(toClient', Due(storedTurns', relayed', f.chat), i, f.chat, f.turns)
    BY DEF GivenInv
  <2>1. i \in DOMAIN toClient /\ f = toClient[i]
    BY FramesSent
  <2>2. i \in 0 .. Len(toClient)
    BY <1>1, <2>1
  <2> DEFINE due == Due(storedTurns, relayed, f.chat)
             next == Due(storedTurns', relayed', f.chat)
  <2>3. \A t \in next :
             \/ t \in due /\ \A k \in DOMAIN fs : ~(fs[k].kind = "deleted" /\ fs[k].chat = f.chat)
             \/ /\ \E n \in DOMAIN fs : fs[n].kind = "created" /\ t \in Range(fs[n].turns)
                /\ \A k \in DOMAIN fs : fs[k].kind # "deleted"
    OBVIOUS
  <2> HIDE DEF due, next
  <2>4. /\ GivesAll(toClient, due, i, f.chat, f.turns) => GivesAll(toClient', next, i, f.chat, f.turns)
        /\ NoHistory(toClient', i) => NoHistory(toClient, i)
    BY <2>2, <2>3, DueStays, ZenonT(40)
  <2>5. GivesAll(toClient, due, i, f.chat, f.turns)
    BY <2>1, <2>4 DEF GivenInv, due
  <2> QED BY <2>4, <2>5 DEF next
<1> QED BY <1>2, <1>3

\* What a chat has stored is its own.
StoredOwn(stored) ==
    /\ DOMAIN stored \subseteq Chats
    /\ \A c \in DOMAIN stored : stored[c] \in Seq(ChatTurns) /\ \A t \in Range(stored[c]) : t.chat = c

LEMMA SendingTyped ==
  ASSUME ChatInv, NEW fs \in Seq(Arrivals), toClient' = toClient \o fs,
         UNCHANGED clientState, screen = "ready",
         \A k \in DOMAIN fs : /\ fs[k].kind \notin {"plan", "ready"}
                              /\ fs[k].kind = "updated" => fs[k].chat \in Chats,
         toServer' \in Seq(ToServer), openedChat' \in Chats \union {NoChat}, StoredOwn(storedTurns'),
         relayed' \in [turn : ChatTurns, at : {"running", "storing"}] \union {NoRelay},
         msgCount' \in 0 .. MaxTurnsSent, opens' \in 0 .. MaxOpens
  PROVE  WindowTypeOK' /\ BootInv' /\ TurnsInv'
<1>1. /\ screen' = screen /\ chatList' = chatList /\ activeChat' = activeChat /\ window' = window
      /\ givenWhole' = givenWhole /\ toClient \in Seq(Arrivals)
  BY DEF clientState, ChatInv, WindowTypeOK
<1>2. toClient' \in Seq(Arrivals)
  BY <1>1, FramesSent
<1>3. WindowTypeOK'
  BY <1>1, <1>2 DEF ChatInv, WindowTypeOK, StoredOwn
<1>4. /\ \A i \in DOMAIN toClient' : toClient'[i].kind \notin {"plan", "ready"}
      /\ \A i \in DOMAIN toClient' : toClient'[i].kind = "updated" => toClient'[i].chat \in Chats
  <2>1. /\ \A i \in DOMAIN toClient : toClient[i].kind \notin {"plan", "ready"}
        /\ \A i \in DOMAIN toClient : toClient[i].kind = "updated" => toClient[i].chat \in Chats
    BY DEF ChatInv, BootInv, TurnsInv
  <2> QED BY <1>1, <2>1, FramesSent, SMTT(30)
<1>5. BootInv'
  BY <1>1, <1>4 DEF BootInv
<1>6. TurnsInv'
  BY <1>4 DEF TurnsInv, StoredOwn
<1> QED BY <1>3, <1>5, <1>6

\* What is stored now, in the words of StoredOwn.
LEMMA StoredNow ==
  ChatInv => /\ StoredOwn(storedTurns) /\ toClient \in Seq(Arrivals) /\ toServer \in Seq(ToServer)
             /\ openedChat \in Chats \union {NoChat}
             /\ relayed \in [turn : ChatTurns, at : {"running", "storing"}] \union {NoRelay}
             /\ msgCount \in 0 .. MaxTurnsSent /\ opens \in 0 .. MaxOpens /\ window \in Seq(ChatTurns)
             /\ MaxTurnsSent \in Nat /\ MaxOpens \in Nat /\ NoChat \notin Chats /\ OldChats \subseteq Chats
             /\ ShownInv /\ GivenInv
BY WindowAssumption DEF ChatInv, WindowTypeOK, TurnsInv, StoredOwn

\* Nothing is handled before the client is booted.
LEMMA WorkWhenReady ==
  ASSUME ChatInv, toServer # <<>> \/ relayed # NoRelay PROVE screen = "ready"
BY DEF ChatInv, BootInv

LEMMA TurnDoneKeeps == ASSUME ChatInv, TurnDoneSent PROVE ChatInv'
<1> DEFINE frame == ToClient("done", relayed.turn.chat, <<relayed.turn>>, FALSE)
           fs == <<frame>>
<1>1. /\ relayed.at = "running" /\ relayed' = [relayed EXCEPT !.at = "storing"]
      /\ toClient' = toClient \o fs /\ UNCHANGED clientState /\ toServer' = toServer
      /\ openedChat' = openedChat /\ storedTurns' = storedTurns /\ msgCount' = msgCount /\ opens' = opens
      /\ givenWhole' = givenWhole /\ window' = window
  BY DEF TurnDoneSent, Sends, clientState
<1>2. /\ relayed \in [turn : ChatTurns, at : {"running", "storing"}] /\ relayed # NoRelay
  BY <1>1, StoredNow DEF NoRelay
<1>3. /\ relayed' \in [turn : ChatTurns, at : {"running", "storing"}] /\ relayed'.turn = relayed.turn
      /\ relayed' # NoRelay
  BY <1>1, <1>2 DEF NoRelay
<1>4. frame \in Arrivals /\ frame.kind = "done"
  BY <1>2 DEF ToClient, Arrivals, ChatTurns
<1> HIDE DEF frame
<1>5. fs \in Seq(Arrivals) /\ fs[1] = frame /\ \A k \in DOMAIN fs : k = 1
  BY <1>4, FewElements
<1> HIDE DEF fs
<1>6. screen = "ready"
  BY <1>2, WorkWhenReady
<1>7. WindowTypeOK' /\ BootInv' /\ TurnsInv'
  BY <1>1, <1>3, <1>4, <1>5, <1>6, StoredNow, SendingTyped
<1>8. \A c : Due(storedTurns', relayed', c) = Due(storedTurns, relayed, c)
  BY <1>1, <1>2, <1>3 DEF Due
<1>9. ShownInv' /\ GivenInv'
  BY <1>1, <1>4, <1>5, <1>8, StoredNow, SendingGives
<1> QED BY <1>7, <1>9 DEF ChatInv

LEMMA TurnStoredKeeps == ASSUME ChatInv, TurnStored PROVE ChatInv'
<1> DEFINE d == relayed.turn.chat
<1>1. /\ relayed.at = "storing" /\ relayed' = NoRelay
      /\ storedTurns' = IF d \in DOMAIN storedTurns
                        THEN [storedTurns EXCEPT ![d] = Append(@, relayed.turn)] ELSE storedTurns
      /\ toClient' = toClient /\ UNCHANGED clientState /\ toServer' = toServer
      /\ openedChat' = openedChat /\ msgCount' = msgCount /\ opens' = opens
      /\ givenWhole' = givenWhole /\ window' = window
  BY DEF TurnStored, clientState
<1>2. /\ relayed \in [turn : ChatTurns, at : {"running", "storing"}] /\ relayed # NoRelay
      /\ relayed.turn \in ChatTurns
  BY <1>1, StoredNow DEF NoRelay
<1>3. toClient' = toClient \o <<>> /\ <<>> \in Seq(Arrivals) /\ DOMAIN <<>> = {}
  <2>1. toClient \o <<>> = toClient
    BY StoredNow, ConcatEmptySeq
  <2> QED BY <1>1, <2>1
<1>4. ASSUME d \in DOMAIN storedTurns
      PROVE  /\ DOMAIN storedTurns' = DOMAIN storedTurns
             /\ storedTurns'[d] = Append(storedTurns[d], relayed.turn)
             /\ \A c \in DOMAIN storedTurns : c # d => storedTurns'[c] = storedTurns[c]
             /\ storedTurns[d] \in Seq(ChatTurns)
             /\ storedTurns'[d] \in Seq(ChatTurns)
             /\ Range(storedTurns'[d]) = Range(storedTurns[d]) \union {relayed.turn}
  <2>1. /\ DOMAIN storedTurns' = DOMAIN storedTurns
        /\ storedTurns'[d] = Append(storedTurns[d], relayed.turn)
        /\ \A c \in DOMAIN storedTurns : c # d => storedTurns'[c] = storedTurns[c]
    BY <1>1, <1>4
  <2>2. storedTurns[d] \in Seq(ChatTurns)
    BY <1>4, StoredNow DEF StoredOwn
  <2> QED BY <1>2, <2>1, <2>2, RangeAppended
<1>5. StoredOwn(storedTurns')
  <2>1. CASE d \in DOMAIN storedTurns
    <3>1. \A c \in DOMAIN storedTurns : c # d => /\ storedTurns'[c] \in Seq(ChatTurns)
                                                /\ \A t \in Range(storedTurns'[c]) : t.chat = c
      BY <1>4, <2>1, StoredNow DEF StoredOwn
    <3>2. \A t \in Range(storedTurns'[d]) : t.chat = d
      BY <1>4, <2>1, StoredNow DEF StoredOwn
    <3> HIDE DEF d
    <3> QED BY <1>4, <2>1, <3>1, <3>2, StoredNow DEF StoredOwn
  <2>2. CASE d \notin DOMAIN storedTurns
    BY <1>1, <2>2, StoredNow
  <2> QED BY <2>1, <2>2
<1>6. screen = "ready"
  BY <1>2, WorkWhenReady
<1>7. WindowTypeOK' /\ BootInv' /\ TurnsInv'
  <2>1. \A k \in DOMAIN <<>> : /\ <<>>[k].kind \notin {"plan", "ready"}
                               /\ <<>>[k].kind = "updated" => <<>>[k].chat \in Chats
    BY <1>3
  <2> QED BY <1>1, <1>3, <1>5, <1>6, <2>1, StoredNow, SendingTyped
<1>8. \A c : \A t \in Due(storedTurns', relayed', c) : t \in Due(storedTurns, relayed, c)
  <2> SUFFICES ASSUME NEW c, NEW t \in Due(storedTurns', relayed', c)
               PROVE  t \in Due(storedTurns, relayed, c)
    OBVIOUS
  <2>1. c \in DOMAIN storedTurns' /\ t \in Range(storedTurns'[c])
    BY <1>1 DEF Due
  <2>2. DOMAIN storedTurns' = DOMAIN storedTurns
    BY <1>1, <1>4
  <2>3. CASE d \in DOMAIN storedTurns /\ c = d
    BY <1>2, <1>4, <2>1, <2>2, <2>3 DEF Due
  <2>4. CASE d \in DOMAIN storedTurns /\ c # d
    BY <1>4, <2>1, <2>2, <2>4 DEF Due
  <2>5. CASE d \notin DOMAIN storedTurns
    BY <1>1, <2>1, <2>5 DEF Due
  <2> QED BY <2>3, <2>4, <2>5
<1>9. ShownInv' /\ GivenInv'
  <2>1. \A k \in DOMAIN <<>> : <<>>[k].kind # "history"
    BY <1>3
  <2>2. \A k \in DOMAIN <<>> : \A c : ~(<<>>[k].kind = "deleted" /\ <<>>[k].chat = c)
    BY <1>3
  <2> HIDE DEF d
  <2> QED BY <1>1, <1>3, <1>8, <2>1, <2>2, StoredNow, SendingGives
<1> QED BY <1>7, <1>9 DEF ChatInv

LEMMA HandleMessageKeeps ==
  ASSUME ChatInv, NEW c \in Chats, NEW n \in 0 .. MaxTurnsSent, HandleMessage(c, n),
         UNCHANGED clientState, toServer # <<>>, toServer' \in Seq(ToServer),
         msgCount' = msgCount, opens' = opens
  PROVE  ChatInv'
<1> DEFINE u == ChatTurn(c, n, "user")
           a == ChatTurn(c, n, "assistant")
           said == ToClient("updated", c, <<>>, FALSE)
           mine == ToClient("created", c, <<u>>, FALSE)
           its == ToClient("created", c, <<a>>, FALSE)
           fs == <<said, mine, its>>
<1>1. /\ relayed = NoRelay /\ relayed' = [turn |-> a, at |-> "running"] /\ openedChat' = openedChat
      /\ storedTurns' = [d \in DOMAIN storedTurns \union {c} |->
                            IF d = c THEN Append(Stored(c), u) ELSE storedTurns[d]]
      /\ toClient' = toClient \o fs /\ givenWhole' = givenWhole /\ window' = window
  BY DEF HandleMessage, Sends, clientState
<1>2. u \in ChatTurns /\ a \in ChatTurns /\ u.chat = c /\ a.chat = c
  BY DEF ChatTurn, ChatTurns
<1>3. /\ said.kind = "updated" /\ said.chat = c /\ mine.kind = "created" /\ mine.turns = <<u>>
      /\ its.kind = "created" /\ its.turns = <<a>>
  BY DEF ToClient
<1>4. said \in Arrivals /\ mine \in Arrivals /\ its \in Arrivals
  BY <1>2 DEF ToClient, Arrivals
<1> HIDE DEF said, mine, its, u, a
<1>5. /\ fs \in Seq(Arrivals) /\ DOMAIN fs = 1 .. 3
      /\ fs[1] = said /\ fs[2] = mine /\ fs[3] = its
  BY <1>4, FewElements
<1> HIDE DEF fs
<1>6. \A k \in DOMAIN fs : k = 1 \/ k = 2 \/ k = 3
  BY <1>5
<1>7. /\ Stored(c) \in Seq(ChatTurns) /\ \A t \in Range(Stored(c)) : t.chat = c
      /\ Range(Stored(c)) = IF c \in DOMAIN storedTurns THEN Range(storedTurns[c]) ELSE {}
  <2>1. CASE c \in DOMAIN storedTurns
    BY <2>1, StoredNow DEF Stored, StoredOwn
  <2>2. CASE c \notin DOMAIN storedTurns
    <3>1. Range(<<>>) = {} /\ <<>> \in Seq(ChatTurns)
      BY EmptySeq DEF Range
    <3> QED BY <2>2, <3>1 DEF Stored
  <2> QED BY <2>1, <2>2
<1>8. /\ DOMAIN storedTurns' = DOMAIN storedTurns \union {c}
      /\ storedTurns'[c] = Append(Stored(c), u)
      /\ \A d \in DOMAIN storedTurns : d # c => storedTurns'[d] = storedTurns[d]
  BY <1>1
<1>9. /\ storedTurns'[c] \in Seq(ChatTurns) /\ Range(storedTurns'[c]) = Range(Stored(c)) \union {u}
  BY <1>2, <1>7, <1>8, RangeAppended
<1>10. StoredOwn(storedTurns')
  <2>1. \A d \in DOMAIN storedTurns : d # c => /\ storedTurns'[d] \in Seq(ChatTurns)
                                              /\ \A t \in Range(storedTurns'[d]) : t.chat = d
    BY <1>8, StoredNow DEF StoredOwn
  <2>2. \A t \in Range(storedTurns'[c]) : t.chat = c
    BY <1>2, <1>7, <1>9
  <2> QED BY <1>8, <1>9, <2>1, <2>2, StoredNow DEF StoredOwn
<1>11. screen = "ready"
  BY WorkWhenReady
<1>12. relayed' \in [turn : ChatTurns, at : {"running", "storing"}]
  BY <1>1, <1>2
<1>13. WindowTypeOK' /\ BootInv' /\ TurnsInv'
  <2>1. \A k \in DOMAIN fs : /\ fs[k].kind \notin {"plan", "ready"}
                             /\ fs[k].kind = "updated" => fs[k].chat \in Chats
    BY <1>3, <1>5, <1>6
  <2> QED BY <1>1, <1>5, <1>10, <1>11, <1>12, <2>1, StoredNow, SendingTyped
<1>14. \A k \in DOMAIN fs : fs[k].kind # "history" /\ fs[k].kind # "deleted"
  BY <1>3, <1>5, <1>6
<1>15. ASSUME NEW d, NEW t \in Due(storedTurns', relayed', d)
       PROVE  \/ t \in Due(storedTurns, relayed, d)
              \/ \E k \in DOMAIN fs : fs[k].kind = "created" /\ t \in Range(fs[k].turns)
  <2>1. /\ d \in DOMAIN storedTurns'
        /\ t \in Range(storedTurns'[d]) \/ (t = a /\ a.chat = d)
    BY <1>1 DEF Due
  <2>2. Range(<<u>>) = {u} /\ Range(<<a>>) = {a}
    BY <1>2, RangeOfOne
  <2>3. t \in {u, a} => \E k \in DOMAIN fs : fs[k].kind = "created" /\ t \in Range(fs[k].turns)
    <3>1. 2 \in DOMAIN fs /\ 3 \in DOMAIN fs
      BY <1>5
    <3> QED BY <1>3, <1>5, <2>2, <3>1
  <2>4. CASE d = c /\ t \in Range(storedTurns'[c])
    <3>1. t = u \/ (c \in DOMAIN storedTurns /\ t \in Range(storedTurns[c]))
      BY <1>7, <1>9, <2>4
    <3> QED BY <2>3, <2>4, <3>1 DEF Due
  <2>5. CASE d # c
    <3>1. d \in DOMAIN storedTurns /\ t \in Range(storedTurns[d])
      BY <1>2, <1>8, <2>1, <2>5
    <3> QED BY <3>1 DEF Due
  <2> QED BY <2>1, <2>3, <2>4, <2>5
<1>16. ShownInv' /\ GivenInv'
  BY <1>1, <1>5, <1>14, <1>15, StoredNow, SendingGives
<1> QED BY <1>13, <1>16 DEF ChatInv

LEMMA HandleDeleteKeeps ==
  ASSUME ChatInv, NEW c \in Chats, HandleDelete(c), c \in DOMAIN storedTurns,
         UNCHANGED clientState, toServer # <<>>, toServer' \in Seq(ToServer),
         msgCount' = msgCount, opens' = opens
  PROVE  ChatInv'
<1> DEFINE gone == ToClient("deleted", c, <<>>, FALSE)
           fs == <<gone>>
<1>1. /\ relayed' = relayed /\ openedChat' \in {openedChat, NoChat}
      /\ storedTurns' = [d \in DOMAIN storedTurns \ {c} |-> storedTurns[d]]
      /\ toClient' = toClient \o fs /\ givenWhole' = givenWhole /\ window' = window
  BY DEF HandleDelete, Sends, clientState
<1>2. gone \in Arrivals /\ gone.kind = "deleted" /\ gone.chat = c
  <2>1. <<>> \in Seq(ChatTurns)
    BY EmptySeq
  <2> QED BY <2>1 DEF ToClient, Arrivals
<1> HIDE DEF gone
<1>3. fs \in Seq(Arrivals) /\ fs[1] = gone /\ \A k \in DOMAIN fs : k = 1
  BY <1>2, FewElements
<1> HIDE DEF fs
<1>4. /\ DOMAIN storedTurns' = DOMAIN storedTurns \ {c}
      /\ \A d \in DOMAIN storedTurns' : storedTurns'[d] = storedTurns[d]
  BY <1>1
<1>5. StoredOwn(storedTurns')
  BY <1>4, StoredNow DEF StoredOwn
<1>6. screen = "ready"
  BY WorkWhenReady
<1>7. WindowTypeOK' /\ BootInv' /\ TurnsInv'
  <2>1. \A k \in DOMAIN fs : /\ fs[k].kind \notin {"plan", "ready"}
                             /\ fs[k].kind = "updated" => fs[k].chat \in Chats
    BY <1>2, <1>3
  <2>2. openedChat' \in Chats \union {NoChat}
    BY <1>1, StoredNow
  <2> QED BY <1>1, <1>3, <1>5, <1>6, <2>1, <2>2, StoredNow, SendingTyped
<1>8. ASSUME NEW d, NEW t \in Due(storedTurns', relayed', d)
      PROVE  t \in Due(storedTurns, relayed, d) /\ d # c
  BY <1>1, <1>4 DEF Due
<1>9. ShownInv' /\ GivenInv'
  <2>1. \A k \in DOMAIN fs : fs[k].kind # "history"
    BY <1>2, <1>3
  <2>2. \A d : d # c => \A k \in DOMAIN fs : ~(fs[k].kind = "deleted" /\ fs[k].chat = d)
    BY <1>2, <1>3
  <2> QED BY <1>1, <1>3, <1>8, <2>1, <2>2, StoredNow, SendingGives
<1> QED BY <1>7, <1>9 DEF ChatInv

LEMMA HandleCancelKeeps ==
  ASSUME ChatInv, HandleCancel,
         UNCHANGED clientState, toServer # <<>>, toServer' \in Seq(ToServer),
         msgCount' = msgCount, opens' = opens
  PROVE  ChatInv'
<1> DEFINE end == ToClient("done", NoChat, <<>>, FALSE)
           fs == <<end>>
<1>1. /\ relayed' = NoRelay /\ openedChat' = openedChat /\ storedTurns' = storedTurns
      /\ toClient' = toClient \o fs /\ givenWhole' = givenWhole /\ window' = window
  BY DEF HandleCancel, Sends, clientState
<1>2. end \in Arrivals /\ end.kind = "done"
  <2>1. <<>> \in Seq(ChatTurns)
    BY EmptySeq
  <2> QED BY <2>1 DEF ToClient, Arrivals
<1> HIDE DEF end
<1>3. fs \in Seq(Arrivals) /\ fs[1] = end /\ \A k \in DOMAIN fs : k = 1
  BY <1>2, FewElements
<1> HIDE DEF fs
<1>4. screen = "ready"
  BY WorkWhenReady
<1>5. WindowTypeOK' /\ BootInv' /\ TurnsInv'
  <2>1. \A k \in DOMAIN fs : /\ fs[k].kind \notin {"plan", "ready"}
                             /\ fs[k].kind = "updated" => fs[k].chat \in Chats
    BY <1>2, <1>3
  <2> QED BY <1>1, <1>3, <1>4, <2>1, StoredNow, SendingTyped
<1>6. \A d : \A t \in Due(storedTurns', relayed', d) : t \in Due(storedTurns, relayed, d)
  BY <1>1 DEF Due
<1>7. ShownInv' /\ GivenInv'
  <2>1. \A k \in DOMAIN fs : fs[k].kind # "history" /\ fs[k].kind # "deleted"
    BY <1>2, <1>3
  <2> QED BY <1>1, <1>3, <1>6, <2>1, StoredNow, SendingGives
<1> QED BY <1>5, <1>7 DEF ChatInv

\* Nothing is sent, and nothing else than what is active or asked for changes.
LEMMA AskingKeeps ==
  ASSUME ChatInv, screen = "ready",
         screen' = screen, chatList' = chatList, window' = window, givenWhole' = givenWhole,
         toClient' = toClient, storedTurns' = storedTurns, relayed' = relayed,
         activeChat' \in Chats \union {NoChat}, openedChat' \in Chats \union {NoChat},
         toServer' \in Seq(ToServer), msgCount' \in 0 .. MaxTurnsSent, opens' \in 0 .. MaxOpens
  PROVE  ChatInv'
<1>1. WindowTypeOK'
  BY DEF ChatInv, WindowTypeOK
<1>2. BootInv' /\ TurnsInv'
  BY DEF ChatInv, BootInv, TurnsInv
<1>3. ShownInv' /\ GivenInv'
  BY DEF ChatInv, ShownInv, GivenInv
<1> QED BY <1>1, <1>2, <1>3 DEF ChatInv

LEMMA HandleOpenKeeps ==
  ASSUME ChatInv, NEW c \in Chats, HandleOpen(c), c \in DOMAIN storedTurns,
         UNCHANGED clientState, toServer # <<>>, toServer' \in Seq(ToServer),
         msgCount' = msgCount, opens' = opens
  PROVE  ChatInv'
<1> DEFINE whole == relayed.turn.chat # c
           said == ToClient("updated", c, <<>>, FALSE)
           given == ToClient("history", c, storedTurns[c], whole)
           fs == <<said, given>>
<1>1. /\ relayed' = relayed /\ openedChat' = c /\ storedTurns' = storedTurns
      /\ toClient' = toClient \o fs /\ givenWhole' = givenWhole /\ window' = window
  BY DEF HandleOpen, Sends, clientState
<1>2. /\ said \in Arrivals /\ said.kind = "updated" /\ said.chat = c
      /\ given \in Arrivals /\ given.kind = "history" /\ given.chat = c
      /\ given.turns = storedTurns[c] /\ given.whole = whole
  <2>1. <<>> \in Seq(ChatTurns) /\ storedTurns[c] \in Seq(ChatTurns) /\ whole \in BOOLEAN
    BY EmptySeq, StoredNow DEF StoredOwn
  <2> HIDE DEF whole
  <2> QED BY <2>1 DEF ToClient, Arrivals
<1> HIDE DEF said, given
<1>3. fs \in Seq(Arrivals) /\ fs[1] = said /\ fs[2] = given /\ DOMAIN fs = 1 .. 2
  BY <1>2, FewElements
<1> HIDE DEF fs
<1>4. \A k \in DOMAIN fs : k = 1 \/ k = 2
  BY <1>3
<1>5. screen = "ready"
  BY WorkWhenReady
<1>6. WindowTypeOK' /\ BootInv' /\ TurnsInv'
  <2>1. \A k \in DOMAIN fs : /\ fs[k].kind \notin {"plan", "ready"}
                             /\ fs[k].kind = "updated" => fs[k].chat \in Chats
    BY <1>2, <1>3, <1>4
  <2> QED BY <1>1, <1>3, <1>5, <2>1, StoredNow, SendingTyped
<1> DEFINE last == 2 + Len(toClient)
<1>7. /\ last \in DOMAIN toClient' /\ toClient'[last] = given /\ Len(toClient) \in Nat
      /\ DOMAIN toClient' = 1 .. last
  <2>1. 2 \in DOMAIN fs /\ Len(fs) = 2
    BY <1>3, LenProperties
  <2>2. /\ 2 + Len(toClient) \in DOMAIN toClient' /\ toClient'[2 + Len(toClient)] = fs[2]
        /\ DOMAIN toClient' = 1 .. (Len(toClient) + 2) /\ Len(toClient) \in Nat
    BY <1>1, <1>3, <2>1, StoredNow, FramesSent
  <2> QED BY <1>3, <2>2
<1>8. ShownInv'
  <2>1. last > 0
    BY <1>7
  <2> HIDE DEF last
  <2> QED BY <1>2, <1>7, <2>1 DEF ShownInv, NoHistory
<1>9. GivenInv'
  <2> SUFFICES ASSUME NEW i \in DOMAIN toClient', NEW f, f = toClient'[i],
                      f.kind = "history", f.whole, NoHistory(toClient', i)
               PROVE  GivesAll(toClient', Due(storedTurns', relayed', f.chat), i, f.chat, f.turns)
    BY DEF GivenInv
  <2>1. ~(last > i)
    <3> HIDE DEF last
    <3> QED BY <1>2, <1>7 DEF NoHistory
  <2>2. i = last
    BY <1>7, <2>1
  <2>3. f = given
    BY <1>7, <2>2
  <2>4. relayed.turn.chat # c
    BY <1>2, <2>3
  <2>5. Due(storedTurns', relayed', c) = Range(storedTurns[c])
    BY <1>1, <2>4 DEF Due
  <2>6. LeftAfter(toClient', c, i)
    BY <1>7, <2>2 DEF LeftAfter
  <2> QED BY <1>2, <2>3, <2>5, <2>6 DEF GivesAll
<1> QED BY <1>6, <1>8, <1>9 DEF ChatInv

LEMMA HandleFrameKeeps == ASSUME ChatInv, HandleFrame PROVE ChatInv'
<1> DEFINE f == Head(toServer)
<1>1. /\ toServer # <<>> /\ toServer' = Tail(toServer) /\ UNCHANGED clientState
      /\ msgCount' = msgCount /\ opens' = opens
      /\ \/ f.kind = "send" /\ HandleMessage(f.chat, f.n)
         \/ f.kind = "open" /\ HandleOpen(f.chat)
         \/ f.kind = "delete" /\ HandleDelete(f.chat)
         \/ f.kind = "cancel" /\ HandleCancel
  BY DEF HandleFrame
<1>2. f \in ToServer /\ toServer' \in Seq(ToServer)
  BY <1>1, StoredNow, HeadTailProperties
<1>3. f.chat \in Chats /\ f.n \in 0 .. MaxTurnsSent
  BY <1>2 DEF ToServer
<1>4. screen = "ready"
  BY <1>1, WorkWhenReady
<1>5. ASSUME UNCHANGED <<openedChat, toClient, storedTurns, relayed>> PROVE ChatInv'
  <2>1. activeChat' \in Chats \union {NoChat} /\ screen' = screen /\ chatList' = chatList
        /\ window' = window /\ givenWhole' = givenWhole
    BY <1>1 DEF clientState, ChatInv, WindowTypeOK
  <2> QED BY <1>1, <1>2, <1>4, <1>5, <2>1, StoredNow, AskingKeeps
<1> HIDE DEF f
<1>6. CASE f.kind = "send" /\ HandleMessage(f.chat, f.n)
  BY <1>1, <1>2, <1>3, <1>6, HandleMessageKeeps
<1>7. CASE f.kind = "open" /\ HandleOpen(f.chat)
  <2>1. CASE f.chat \in DOMAIN storedTurns
    BY <1>1, <1>2, <1>3, <1>7, <2>1, HandleOpenKeeps
  <2>2. CASE f.chat \notin DOMAIN storedTurns
    BY <1>5, <1>7, <2>2 DEF HandleOpen
  <2> QED BY <2>1, <2>2
<1>8. CASE f.kind = "delete" /\ HandleDelete(f.chat)
  <2>1. CASE f.chat \in DOMAIN storedTurns
    BY <1>1, <1>2, <1>3, <1>8, <2>1, HandleDeleteKeeps
  <2>2. CASE f.chat \notin DOMAIN storedTurns
    BY <1>5, <1>8, <2>2 DEF HandleDelete
  <2> QED BY <2>1, <2>2
<1>9. CASE f.kind = "cancel" /\ HandleCancel
  BY <1>1, <1>2, <1>9, HandleCancelKeeps
<1> QED BY <1>1, <1>6, <1>7, <1>8, <1>9

\* What the first frame leaves true of those behind it.
LEMMA ArrivalTaken ==
  ASSUME toClient \in Seq(Arrivals), toClient # <<>>, toClient' = Tail(toClient)
  PROVE  /\ toClient' \in Seq(Arrivals) /\ Head(toClient) = toClient[1] /\ 1 \in DOMAIN toClient
         /\ toClient[1] \in Arrivals /\ Len(toClient') = Len(toClient) - 1 /\ Len(toClient) \in Nat
         /\ \A i \in DOMAIN toClient' :
               toClient'[i] = toClient[i + 1] /\ i + 1 \in DOMAIN toClient /\ i \in Nat /\ i > 0
         /\ \A j \in DOMAIN toClient : j # 1 => j - 1 \in DOMAIN toClient' /\ toClient'[j - 1] = toClient[j]
         /\ \A j \in DOMAIN toClient : j \in Nat /\ j > 0
<1>1. /\ Head(toClient) = toClient[1] /\ toClient' \in Seq(Arrivals)
      /\ Len(toClient') = Len(toClient) - 1 /\ Len(toClient) \in Nat /\ Len(toClient) # 0
  BY HeadTailProperties, LenProperties, EmptySeq
<1>2. DOMAIN toClient = 1 .. Len(toClient) /\ DOMAIN toClient' = 1 .. (Len(toClient) - 1)
  BY <1>1, LenProperties
<1>3. 1 \in DOMAIN toClient
  BY <1>1, <1>2
<1>4. toClient[1] \in Arrivals
  BY <1>2, <1>3, ElementOfSeq
<1>5. \A i \in 1 .. (Len(toClient) - 1) : toClient'[i] = toClient[i + 1]
  BY <1>1, HeadTailProperties
<1>6. \A i \in 1 .. (Len(toClient) - 1) : i + 1 \in 1 .. Len(toClient) /\ i \in Nat /\ i > 0
  BY <1>1
<1>7. \A j \in 1 .. Len(toClient) : j # 1 => j - 1 \in 1 .. (Len(toClient) - 1) /\ (j - 1) + 1 = j
  BY <1>1
<1>8. \A j \in 1 .. Len(toClient) : j \in Nat /\ j > 0
  BY <1>1
<1> QED BY <1>1, <1>2, <1>3, <1>4, <1>5, <1>6, <1>7, <1>8

LEMMA TakingKeeps ==
  ASSUME toClient \in Seq(Arrivals), toClient # <<>>, toClient' = Tail(toClient), NEW i \in Nat, NEW c
  PROVE  /\ LeftAfter(toClient, c, i + 1) => LeftAfter(toClient', c, i)
         /\ LeftAfter(toClient, c, i) => LeftAfter(toClient, c, i + 1)
         /\ \A t : ComesAfter(toClient, c, t, i + 1) => ComesAfter(toClient', c, t, i)
         /\ NoHistory(toClient', i) => NoHistory(toClient, i + 1)
<1>1. ASSUME NEW n \in Nat, LeftAfter(toClient, c, n + 1) PROVE LeftAfter(toClient', c, n)
  <2> SUFFICES ASSUME NEW k \in DOMAIN toClient', k > n
               PROVE  ~(toClient'[k].kind = "deleted" /\ toClient'[k].chat = c)
    BY DEF LeftAfter
  <2>1. toClient'[k] = toClient[k + 1] /\ k + 1 \in DOMAIN toClient /\ k \in Nat
    BY ArrivalTaken
  <2>2. k + 1 > n + 1
    BY <2>1
  <2> QED BY <1>1, <2>1, <2>2 DEF LeftAfter
<1>2. LeftAfter(toClient, c, i) => LeftAfter(toClient, c, i + 1)
  <2>1. \A k \in DOMAIN toClient : k > i + 1 => k > i
    BY ArrivalTaken
  <2> QED BY <2>1 DEF LeftAfter
<1>3. ASSUME NEW t, ComesAfter(toClient, c, t, i + 1) PROVE ComesAfter(toClient', c, t, i)
  <2>1. PICK j \in DOMAIN toClient :
            /\ j > i + 1 /\ toClient[j].kind = "created" /\ t \in Range(toClient[j].turns)
            /\ LeftAfter(toClient, c, j)
    BY <1>3 DEF ComesAfter
  <2>2. j \in Nat /\ j # 1 /\ j - 1 \in Nat /\ j - 1 > i /\ (j - 1) + 1 = j
    BY <2>1, ArrivalTaken
  <2>3. j - 1 \in DOMAIN toClient' /\ toClient'[j - 1] = toClient[j]
    BY <2>2, ArrivalTaken
  <2>4. LeftAfter(toClient', c, j - 1)
    BY <1>1, <2>1, <2>2
  <2> QED BY <2>1, <2>2, <2>3, <2>4 DEF ComesAfter
<1>4. NoHistory(toClient', i) => NoHistory(toClient, i + 1)
  <2> SUFFICES ASSUME NoHistory(toClient', i), NEW k \in DOMAIN toClient, k > i + 1
               PROVE  toClient[k].kind # "history"
    BY DEF NoHistory
  <2>1. k # 1 /\ k - 1 > i /\ k - 1 \in DOMAIN toClient' /\ toClient'[k - 1] = toClient[k]
    BY ArrivalTaken
  <2> QED BY <2>1 DEF NoHistory
<1> QED BY <1>1, <1>2, <1>3, <1>4

\* What is given at a frame is given at it when a frame before it is taken.
LEMMA GivingShifts ==
  ASSUME toClient \in Seq(Arrivals), toClient # <<>>, toClient' = Tail(toClient), NEW i \in Nat, NEW c,
         NEW due, NEW turns, GivesAll(toClient, due, i + 1, c, turns)
  PROVE  GivesAll(toClient', due, i, c, turns)
<1> SUFFICES ASSUME NEW t \in due
             PROVE  (t \in Range(turns) /\ LeftAfter(toClient', c, i)) \/ ComesAfter(toClient', c, t, i)
  BY DEF GivesAll
<1>1. (t \in Range(turns) /\ LeftAfter(toClient, c, i + 1)) \/ ComesAfter(toClient, c, t, i + 1)
  BY DEF GivesAll
<1> QED BY <1>1, TakingKeeps

LEMMA ReducingGives ==
  ASSUME ChatInv, toClient # <<>>, toClient' = Tail(toClient),
         storedTurns' = storedTurns, relayed' = relayed
  PROVE  GivenInv'
<1> SUFFICES ASSUME NEW i \in DOMAIN toClient', NEW f, f = toClient'[i],
                    f.kind = "history", f.whole, NoHistory(toClient', i)
             PROVE  GivesAll(toClient', Due(storedTurns', relayed', f.chat), i, f.chat, f.turns)
  BY DEF GivenInv
<1>1. f = toClient[i + 1] /\ i + 1 \in DOMAIN toClient /\ i \in Nat
  BY StoredNow, ArrivalTaken
<1>2. NoHistory(toClient, i + 1)
  BY <1>1, StoredNow, TakingKeeps
<1>3. GivesAll(toClient, Due(storedTurns, relayed, f.chat), i + 1, f.chat, f.turns)
  BY <1>1, <1>2, StoredNow DEF GivenInv
<1> QED BY <1>1, <1>3, StoredNow, GivingShifts

\* What the window had or what comes, with the frame taken into the window.
LEMMA TakingShows ==
  ASSUME ChatInv, toClient # <<>>, toClient' = Tail(toClient),
         storedTurns' = storedTurns, relayed' = relayed, givenWhole' = givenWhole,
         toClient[1].kind # "history",
         \A t \in Due(storedTurns, relayed, givenWhole) :
             /\ t \in Range(window) /\ LeftAfter(toClient, givenWhole, 0) => t \in Range(window')
             /\ toClient[1].kind = "created" /\ t \in Range(toClient[1].turns) => t \in Range(window')
  PROVE  ShownInv'
<1> SUFFICES ASSUME NoHistory(toClient', 0)
             PROVE  GivesAll(toClient', Due(storedTurns', relayed', givenWhole'), 0, givenWhole', window')
  BY DEF ShownInv
<1>1. NoHistory(toClient, 0)
  <2>1. NoHistory(toClient, 0 + 1)
    BY StoredNow, TakingKeeps
  <2> SUFFICES ASSUME NEW k \in DOMAIN toClient, k > 0 PROVE toClient[k].kind # "history"
    BY DEF NoHistory
  <2>2. k = 1 \/ k > 0 + 1
    BY StoredNow, ArrivalTaken
  <2> QED BY <2>1, <2>2 DEF NoHistory
<1>2. GivesAll(toClient, Due(storedTurns, relayed, givenWhole), 0, givenWhole, window)
  BY <1>1 DEF ChatInv, ShownInv
<1>3. ASSUME NEW t \in Due(storedTurns, relayed, givenWhole)
      PROVE  (t \in Range(window') /\ LeftAfter(toClient', givenWhole, 0))
                \/ ComesAfter(toClient', givenWhole, t, 0)
  <2>1. 0 \in Nat
    OBVIOUS
  <2>2. CASE t \in Range(window) /\ LeftAfter(toClient, givenWhole, 0)
    <3>1. LeftAfter(toClient, givenWhole, 0 + 1)
      BY <2>1, <2>2, StoredNow, TakingKeeps
    <3> QED BY <1>3, <2>1, <2>2, <3>1, StoredNow, TakingKeeps
  <2>3. CASE ComesAfter(toClient, givenWhole, t, 0)
    <3>1. PICK j \in DOMAIN toClient :
              /\ j > 0 /\ toClient[j].kind = "created" /\ t \in Range(toClient[j].turns)
              /\ LeftAfter(toClient, givenWhole, j)
      BY <2>3 DEF ComesAfter
    <3>2. CASE j = 1
      <4>1. LeftAfter(toClient, givenWhole, 0 + 1)
        BY <3>1, <3>2
      <4> QED BY <1>3, <2>1, <3>1, <3>2, <4>1, StoredNow, TakingKeeps
    <3>3. CASE j # 1
      <4>1. j > 0 + 1
        BY <3>3, StoredNow, ArrivalTaken
      <4>2. ComesAfter(toClient, givenWhole, t, 0 + 1)
        BY <3>1, <4>1 DEF ComesAfter
      <4> QED BY <2>1, <4>2, StoredNow, TakingKeeps
    <3> QED BY <3>2, <3>3
  <2> QED BY <1>2, <1>3, <2>2, <2>3 DEF GivesAll
<1> QED BY <1>3 DEF GivesAll

\* A chat's turns that are due are its own.
LEMMA DueIsOwn ==
  ASSUME ChatInv, NEW c PROVE \A t \in Due(storedTurns, relayed, c) : t.chat = c /\ t \in ChatTurns /\ c \in Chats
<1>1. StoredOwn(storedTurns) /\ relayed \in [turn : ChatTurns, at : {"running", "storing"}] \union {NoRelay}
  BY StoredNow
<1>2. ASSUME c \in DOMAIN storedTurns
      PROVE  Range(storedTurns[c]) \subseteq ChatTurns /\ c \in Chats /\ \A t \in Range(storedTurns[c]) : t.chat = c
  BY <1>1, <1>2, RangeMember DEF StoredOwn
<1> QED BY <1>1, <1>2 DEF Due

LEMMA ReduceKeeps == ASSUME ChatInv, Reduce PROVE ChatInv'
<1> DEFINE f == toClient[1]
<1>1. /\ toClient \in Seq(Arrivals) /\ toClient # <<>> /\ toClient' = Tail(toClient)
      /\ toServer' = toServer /\ openedChat' = openedChat /\ storedTurns' = storedTurns
      /\ relayed' = relayed /\ msgCount' = msgCount /\ opens' = opens
  BY StoredNow DEF Reduce, serverState
<1>2. /\ toClient' \in Seq(Arrivals) /\ Head(toClient) = f /\ f \in Arrivals /\ 1 \in DOMAIN toClient
      /\ Len(toClient') = Len(toClient) - 1 /\ Len(toClient) \in Nat
      /\ \A i \in DOMAIN toClient' : toClient'[i] = toClient[i + 1] /\ i + 1 \in DOMAIN toClient
  BY <1>1, ArrivalTaken
<1>3. GivenInv'
  BY <1>1, ReducingGives
<1>4. TurnsInv'
  BY <1>1, <1>2 DEF ChatInv, TurnsInv
<1>5. f.chat \in Chats \union {NoChat} /\ f.turns \in Seq(ChatTurns)
  BY <1>2 DEF Arrivals
<1>6. /\ screen \in {"authenticating", "booting", "ready"} /\ window \in Seq(ChatTurns)
      /\ chatList \subseteq Chats /\ activeChat \in Chats \union {NoChat}
      /\ givenWhole \in Chats \union {NoChat}
  BY DEF ChatInv, WindowTypeOK
<1>7. \/ /\ f.kind = "plan" /\ screen' = "booting"
         /\ UNCHANGED <<chatList, activeChat, window, givenWhole>>
      \/ f.kind = "ready" /\ BootReducer(f)
      \/ /\ f.kind = "updated" /\ chatList' = chatList \union {f.chat}
         /\ UNCHANGED <<screen, activeChat, window, givenWhole>>
      \/ /\ f.kind = "created" /\ window' = window \o f.turns
         /\ UNCHANGED <<screen, chatList, activeChat, givenWhole>>
      \/ /\ f.kind = "history" /\ window' = Merge(OfChat(f.chat), f.turns)
         /\ givenWhole' = IF f.whole THEN f.chat ELSE NoChat
         /\ UNCHANGED <<screen, chatList, activeChat>>
      \/ f.kind = "deleted" /\ DeletedReducer(f)
      \/ f.kind = "done" /\ UNCHANGED clientState
  <2>1. Head(toClient) = f
    BY <1>2
  <2> HIDE DEF f
  <2> QED BY <2>1 DEF Reduce
<1>8. WindowTypeOK' <=> /\ screen' \in {"authenticating", "booting", "ready"} /\ window' \in Seq(ChatTurns)
                        /\ chatList' \subseteq Chats /\ activeChat' \in Chats \union {NoChat}
                        /\ givenWhole' \in Chats \union {NoChat}
  BY <1>1, <1>2 DEF ChatInv, WindowTypeOK
<1>9. screen # "ready" =>
         /\ relayed = NoRelay /\ toServer = <<>> /\ givenWhole = NoChat
         /\ Len(toClient) <= 1
         /\ f.kind = IF screen = "booting" THEN "ready" ELSE "plan"
  BY <1>2, <1>6 DEF ChatInv, BootInv
<1>10. screen = "ready" => \A i \in DOMAIN toClient : toClient[i].kind \notin {"plan", "ready"}
  BY DEF ChatInv, BootInv
<1>11. ASSUME screen = "ready", screen' = "ready" PROVE BootInv'
  BY <1>2, <1>10, <1>11 DEF BootInv
<1>12. ASSUME f.kind \notin {"plan", "ready"} PROVE screen = "ready"
  BY <1>9, <1>12
<1> HIDE DEF f
<1>13. CASE f.kind = "plan" \/ f.kind = "ready"
  <2>1. screen # "ready"
    BY <1>2, <1>10, <1>13 DEF f
  <2>2. Len(toClient') <= 0 /\ \A i \in DOMAIN toClient' : FALSE
    <3>1. Len(toClient') <= 0
      BY <1>2, <1>9, <2>1
    <3>2. DOMAIN toClient' = 1 .. Len(toClient') /\ Len(toClient') \in Nat
      BY <1>2, LenProperties
    <3> QED BY <3>1, <3>2
  <2>3. givenWhole' = NoChat
    BY <1>7, <1>9, <1>13, <2>1 DEF BootReducer
  <2>4. ShownInv'
    <3>1. NoChat \notin DOMAIN storedTurns
      BY StoredNow DEF StoredOwn
    <3> QED BY <1>1, <2>3, <3>1 DEF ShownInv, GivesAll, Due
  <2>5. WindowTypeOK'
    <3>1. CASE f.kind = "plan"
      BY <1>6, <1>7, <1>8, <3>1
    <3>2. CASE f.kind = "ready"
      <4>1. BootReducer(f)
        BY <1>7, <3>2
      <4>2. screen' = "ready" /\ window' = <<>> /\ chatList' = OldChats
        BY <1>6, <2>1, <4>1 DEF BootReducer
      <4>3. activeChat' \in Chats \union {NoChat}
        BY <1>5, <4>1 DEF BootReducer
      <4>4. <<>> \in Seq(ChatTurns)
        BY EmptySeq
      <4> QED BY <1>6, <1>8, <2>3, <4>2, <4>3, <4>4, StoredNow
    <3> QED BY <1>13, <3>1, <3>2
  <2>6. BootInv'
    <3>1. CASE f.kind = "plan"
      <4>1. screen' = "booting" /\ Len(toClient') <= 1
        BY <1>2, <1>7, <2>2, <3>1
      <4> QED BY <1>1, <1>9, <2>1, <2>2, <2>3, <4>1 DEF BootInv
    <3>2. CASE f.kind = "ready"
      <4>1. screen' = "ready"
        BY <1>6, <1>7, <2>1, <3>2 DEF BootReducer
      <4> QED BY <2>2, <4>1 DEF BootInv
    <3> QED BY <1>13, <3>1, <3>2
  <2> QED BY <1>3, <1>4, <2>4, <2>5, <2>6 DEF ChatInv
<1>14. CASE f.kind = "updated"
  <2>1. /\ chatList' = chatList \union {f.chat} /\ screen' = screen /\ activeChat' = activeChat
        /\ window' = window /\ givenWhole' = givenWhole
    BY <1>7, <1>14
  <2>2. f.chat \in Chats
    BY <1>2, <1>14 DEF ChatInv, TurnsInv, f
  <2>3. WindowTypeOK' /\ BootInv'
    BY <1>6, <1>8, <1>11, <1>12, <1>14, <2>1, <2>2
  <2>4. ShownInv'
    BY <1>1, <1>14, <2>1, TakingShows DEF f
  <2> QED BY <1>3, <1>4, <2>3, <2>4 DEF ChatInv
<1>15. CASE f.kind = "created"
  <2>1. /\ window' = window \o f.turns /\ screen' = screen /\ activeChat' = activeChat
        /\ chatList' = chatList /\ givenWhole' = givenWhole
    BY <1>7, <1>15
  <2>2. window' \in Seq(ChatTurns) /\ Range(window') = Range(window) \union Range(f.turns)
    BY <1>5, <1>6, <2>1, RangeJoined
  <2>3. WindowTypeOK' /\ BootInv'
    BY <1>6, <1>8, <1>11, <1>12, <1>15, <2>1, <2>2
  <2>4. ShownInv'
    BY <1>1, <1>15, <2>1, <2>2, TakingShows DEF f
  <2> QED BY <1>3, <1>4, <2>3, <2>4 DEF ChatInv
<1>16. CASE f.kind = "history"
  <2>1. /\ window' = Merge(OfChat(f.chat), f.turns) /\ screen' = screen /\ activeChat' = activeChat
        /\ chatList' = chatList /\ givenWhole' = IF f.whole THEN f.chat ELSE NoChat
    BY <1>7, <1>16
  <2>2. window' \in Seq(ChatTurns) /\ Range(f.turns) \subseteq Range(window')
    <3> DEFINE kept == OfChat(f.chat)
               new == Selected(f.turns, ChatTurns \ Range(kept))
    <3>1. kept \in Seq(ChatTurns)
      BY <1>6, SelectedTurns DEF OfChat
    <3>2. new \in Seq(ChatTurns) /\ Range(new) = Range(f.turns) \intersect (ChatTurns \ Range(kept))
      BY <1>5, SelectedTurns
    <3>3. window' = kept \o new
      BY <2>1 DEF Merge
    <3>4. Range(f.turns) \subseteq ChatTurns
      BY <1>5, RangeMember
    <3> HIDE DEF kept, new
    <3>5. window' \in Seq(ChatTurns) /\ Range(window') = Range(kept) \union Range(new)
      BY <3>1, <3>2, <3>3, RangeJoined
    <3> QED BY <3>2, <3>4, <3>5
  <2>3. WindowTypeOK' /\ BootInv'
    BY <1>5, <1>6, <1>8, <1>11, <1>12, <1>16, <2>1, <2>2
  <2>4. ShownInv'
    <3> SUFFICES ASSUME NoHistory(toClient', 0)
                 PROVE  GivesAll(toClient', Due(storedTurns, relayed, givenWhole'), 0, givenWhole', window')
      BY <1>1 DEF ShownInv
    <3>1. CASE f.whole
      <4>1. 0 \in Nat /\ 0 + 1 = 1
        OBVIOUS
      <4>2. NoHistory(toClient, 1)
        BY <1>1, <4>1, TakingKeeps
      <4>3. GivesAll(toClient, Due(storedTurns, relayed, f.chat), 1, f.chat, f.turns)
        BY <1>2, <1>16, <3>1, <4>2, StoredNow DEF GivenInv, f
      <4>4. GivesAll(toClient', Due(storedTurns, relayed, f.chat), 0, f.chat, f.turns)
        BY <1>1, <4>1, <4>3, GivingShifts
      <4>5. GivesAll(toClient', Due(storedTurns, relayed, f.chat), 0, f.chat, window')
        BY <2>2, <4>4 DEF GivesAll
      <4> QED BY <2>1, <3>1, <4>5
    <3>2. CASE ~f.whole
      <4>1. NoChat \notin DOMAIN storedTurns /\ givenWhole' = NoChat
        BY <2>1, <3>2, StoredNow DEF StoredOwn
      <4> QED BY <4>1 DEF GivesAll, Due
    <3> QED BY <3>1, <3>2
  <2> QED BY <1>3, <1>4, <2>3, <2>4 DEF ChatInv
<1>17. CASE f.kind = "deleted"
  <2>1. /\ chatList' = chatList \ {f.chat} /\ window' = NotOfChat(f.chat)
        /\ screen' = screen /\ givenWhole' = givenWhole
        /\ activeChat' = activeChat \/ activeChat' = NoChat \/ activeChat' \in chatList'
    BY <1>7, <1>17 DEF DeletedReducer
  <2>2. /\ window' \in Seq(ChatTurns)
        /\ Range(window') = Range(window) \intersect {t \in ChatTurns : t.chat # f.chat}
    BY <1>6, <2>1, SelectedTurns DEF NotOfChat
  <2>3. WindowTypeOK' /\ BootInv'
    BY <1>6, <1>8, <1>11, <1>12, <1>17, <2>1, <2>2
  <2>4. ShownInv'
    <3>1. \A t \in Due(storedTurns, relayed, givenWhole) :
             t \in Range(window) /\ LeftAfter(toClient, givenWhole, 0) => t \in Range(window')
      <4>1. LeftAfter(toClient, givenWhole, 0) => f.chat # givenWhole
        BY <1>2, <1>17 DEF LeftAfter, f
      <4> QED BY <2>2, <4>1, DueIsOwn
    <3> QED BY <1>1, <1>17, <2>1, <3>1, TakingShows DEF f
  <2> QED BY <1>3, <1>4, <2>3, <2>4 DEF ChatInv
<1>18. CASE f.kind = "done"
  <2>1. /\ chatList' = chatList /\ screen' = screen /\ activeChat' = activeChat
        /\ window' = window /\ givenWhole' = givenWhole
    BY <1>7, <1>18 DEF clientState
  <2>2. WindowTypeOK' /\ BootInv'
    BY <1>6, <1>8, <1>11, <1>12, <1>18, <2>1
  <2>3. ShownInv'
    BY <1>1, <1>18, <2>1, TakingShows DEF f
  <2> QED BY <1>3, <1>4, <2>2, <2>3 DEF ChatInv
<1> QED BY <1>7, <1>13, <1>14, <1>15, <1>16, <1>17, <1>18

\* A command of the user changes nothing that is owed to the window.
LEMMA CommandKeeps ==
  ASSUME ChatInv, \/ \E c \in Chats : OpenChat(c) \/ NewChat(c)
                  \/ SendMessage \/ OtherCommand
  PROVE  ChatInv'
<1>1. /\ toServer \in Seq(ToServer) /\ opens \in Nat /\ msgCount \in Nat /\ MaxOpens \in Nat /\ MaxTurnsSent \in Nat
      /\ opens \in 0 .. MaxOpens /\ msgCount \in 0 .. MaxTurnsSent
      /\ chatList \subseteq Chats /\ activeChat \in Chats \union {NoChat}
      /\ openedChat \in Chats \union {NoChat} /\ window \in Seq(ChatTurns)
  BY StoredNow DEF ChatInv, WindowTypeOK
<1>2. ASSUME NEW f \in ToServer PROVE Append(toServer, f) \in Seq(ToServer)
  BY <1>1, AppendProperties
<1>3. ASSUME NEW c \in Chats, NEW n \in 0 .. MaxTurnsSent, NEW k \in {"open", "delete", "send", "cancel"}
      PROVE  Command(k, c, n) \in ToServer
  BY DEF Command, ToServer
<1>4. 0 \in 0 .. MaxTurnsSent
  BY <1>1
<1>5. opens < MaxOpens => opens + 1 \in 0 .. MaxOpens
  BY <1>1
<1>6. ASSUME NEW c \in Chats, OpenChat(c) PROVE ChatInv'
  <2>1. /\ screen = "ready" /\ activeChat' = c /\ toServer' = Append(toServer, Command("open", c, 0))
        /\ screen' = screen /\ chatList' = chatList /\ window' = window /\ givenWhole' = givenWhole
        /\ toClient' = toClient /\ openedChat' = openedChat /\ storedTurns' = storedTurns
        /\ relayed' = relayed /\ msgCount' = msgCount /\ opens < MaxOpens /\ opens' = opens + 1
    BY <1>6 DEF OpenChat, Commands, serverState
  <2>2. toServer' \in Seq(ToServer)
    BY <1>2, <1>3, <1>4, <2>1
  <2>3. opens' \in 0 .. MaxOpens /\ msgCount' \in 0 .. MaxTurnsSent
    BY <1>1, <1>5, <2>1
  <2> QED BY <1>1, <2>1, <2>2, <2>3, AskingKeeps
<1>7. ASSUME NEW c \in Chats, NewChat(c) PROVE ChatInv'
  <2>1. /\ screen = "ready" /\ activeChat' = c /\ toServer' = toServer
        /\ screen' = screen /\ chatList' = chatList /\ window' = window /\ givenWhole' = givenWhole
        /\ toClient' = toClient /\ openedChat' = openedChat /\ storedTurns' = storedTurns
        /\ relayed' = relayed /\ msgCount' = msgCount /\ opens < MaxOpens /\ opens' = opens + 1
    BY <1>7 DEF NewChat, serverState
  <2>2. opens' \in 0 .. MaxOpens /\ msgCount' \in 0 .. MaxTurnsSent
    BY <1>1, <1>5, <2>1
  <2> QED BY <1>1, <2>1, <2>2, AskingKeeps
<1>8. CASE SendMessage
  <2>1. /\ screen = "ready" /\ activeChat # NoChat /\ msgCount < MaxTurnsSent /\ msgCount' = msgCount + 1
        /\ toServer' = Append(toServer, Command("send", activeChat, msgCount + 1))
        /\ screen' = screen /\ chatList' = chatList /\ window' = window /\ givenWhole' = givenWhole
        /\ activeChat' = activeChat
        /\ toClient' = toClient /\ openedChat' = openedChat /\ storedTurns' = storedTurns
        /\ relayed' = relayed /\ opens' = opens
    BY <1>8 DEF SendMessage, Commands, clientState, serverState
  <2>2. msgCount + 1 \in 0 .. MaxTurnsSent
    BY <1>1, <2>1
  <2>3. activeChat \in Chats
    BY <1>1, <2>1
  <2>4. toServer' \in Seq(ToServer)
    BY <1>2, <1>3, <2>1, <2>2, <2>3
  <2> QED BY <1>1, <2>1, <2>2, <2>4, AskingKeeps
<1>9. CASE OtherCommand
  <2>1. /\ screen = "ready" /\ opens < MaxOpens /\ opens' = opens + 1
        /\ screen' = screen /\ chatList' = chatList /\ window' = window /\ givenWhole' = givenWhole
        /\ activeChat' = activeChat
        /\ toClient' = toClient /\ openedChat' = openedChat /\ storedTurns' = storedTurns
        /\ relayed' = relayed /\ msgCount' = msgCount
    BY <1>9 DEF OtherCommand, clientState, serverState
  <2>2. toServer' \in Seq(ToServer)
    <3>1. ASSUME NEW c \in chatList, Commands(Command("delete", c, 0))
          PROVE  toServer' \in Seq(ToServer)
      BY <1>1, <1>2, <1>3, <1>4, <3>1 DEF Commands
    <3>2. ASSUME NEW t \in Range(window), t.chat = activeChat, Commands(Command("cancel", activeChat, 0))
          PROVE  toServer' \in Seq(ToServer)
      <4>1. t \in ChatTurns
        BY <1>1, RangeMember
      <4>2. activeChat \in Chats
        BY <3>2, <4>1 DEF ChatTurns
      <4> QED BY <1>2, <1>3, <1>4, <3>2, <4>2 DEF Commands
    <3> QED BY <1>9, <3>1, <3>2 DEF OtherCommand
  <2>3. opens' \in 0 .. MaxOpens /\ msgCount' \in 0 .. MaxTurnsSent
    BY <1>1, <1>5, <2>1
  <2> QED BY <1>1, <2>1, <2>2, <2>3, AskingKeeps
<1> QED BY <1>6, <1>7, <1>8, <1>9

\* The gateway's boot.ready comes alone.
LEMMA BootReadyKeeps == ASSUME ChatInv, BootReady PROVE ChatInv'
<1>1. PICK c \in (IF OldChats = {} THEN {NoChat} ELSE OldChats) :
         toClient' = toClient \o <<ToClient("ready", c, <<>>, FALSE)>>
  BY DEF BootReady, Sends
<1> DEFINE frame == ToClient("ready", c, <<>>, FALSE)
           fs == <<frame>>
<1>2. /\ screen = "booting" /\ screen' = screen /\ chatList' = chatList /\ activeChat' = activeChat
      /\ window' = window /\ givenWhole' = givenWhole /\ toServer' = toServer /\ openedChat' = openedChat
      /\ storedTurns' = storedTurns /\ relayed' = relayed /\ msgCount' = msgCount /\ opens' = opens
      /\ ~\E i \in DOMAIN toClient : toClient[i].kind = "ready"
  BY DEF BootReady, clientState, serverState
<1>3. frame \in Arrivals /\ frame.kind = "ready"
  <2>1. <<>> \in Seq(ChatTurns) /\ c \in Chats \union {NoChat}
    BY EmptySeq, StoredNow
  <2> QED BY <2>1 DEF ToClient, Arrivals
<1>4. toClient' = toClient \o fs
  BY <1>1
<1> HIDE DEF frame
<1>5. fs \in Seq(Arrivals) /\ fs[1] = frame /\ Len(fs) = 1 /\ \A k \in DOMAIN fs : k = 1
  BY <1>3, FewElements
<1> HIDE DEF fs
<1>6. toClient = <<>>
  <2>1. /\ Len(toClient) <= 1 /\ \A i \in DOMAIN toClient : toClient[i].kind = "ready"
    BY <1>2 DEF ChatInv, BootInv
  <2>2. DOMAIN toClient = {}
    BY <1>2, <2>1
  <2> QED BY <2>2, StoredNow, EmptySeq
<1>7. toClient' = fs
  BY <1>4, <1>5, <1>6, ConcatEmptySeq
<1>8. relayed = NoRelay /\ toServer = <<>> /\ givenWhole = NoChat
  BY <1>2 DEF ChatInv, BootInv
<1>9. \A i \in DOMAIN toClient' : toClient'[i].kind = "ready"
  BY <1>3, <1>5, <1>7
<1>10. WindowTypeOK'
  BY <1>2, <1>5, <1>7 DEF ChatInv, WindowTypeOK
<1>11. BootInv' /\ TurnsInv'
  <2>1. Len(toClient') <= 1
    <3>1. Len(toClient') = 1
      BY <1>5, <1>7, ZenonT(30)
    <3> QED BY <3>1
  <2>2. BootInv'
    BY <1>2, <1>8, <1>9, <2>1 DEF BootInv
  <2>3. TurnsInv'
    BY <1>2, <1>9 DEF ChatInv, TurnsInv
  <2> QED BY <2>2, <2>3
<1>12. ShownInv'
  <2>1. NoChat \notin DOMAIN storedTurns
    BY StoredNow DEF StoredOwn
  <2> QED BY <1>2, <1>8, <2>1 DEF ShownInv, GivesAll, Due
<1>13. GivenInv'
  BY <1>9 DEF GivenInv
<1> QED BY <1>10, <1>11, <1>12, <1>13 DEF ChatInv

LEMMA WindowStarts == ASSUME WindowInit PROVE ChatInv
<1> DEFINE frame == ToClient("plan", NoChat, <<>>, FALSE)
<1>1. /\ screen = "authenticating" /\ chatList = {} /\ activeChat = NoChat /\ window = <<>>
      /\ toServer = <<>> /\ toClient = <<frame>> /\ openedChat = NoChat /\ relayed = NoRelay
      /\ msgCount = 0 /\ opens = 0 /\ givenWhole = NoChat
      /\ storedTurns = [c \in OldChats |-> <<ChatTurn(c, 0, "user")>>]
  BY DEF WindowInit
<1>2. MaxTurnsSent \in Nat /\ MaxOpens \in Nat /\ NoChat \notin Chats /\ OldChats \subseteq Chats
  BY WindowAssumption
<1>3. frame \in Arrivals /\ frame.kind = "plan"
  <2>1. <<>> \in Seq(ChatTurns)
    BY EmptySeq
  <2> QED BY <2>1 DEF ToClient, Arrivals
<1> HIDE DEF frame
<1>4. /\ toClient \in Seq(Arrivals) /\ toClient[1] = frame /\ Len(toClient) = 1
      /\ \A k \in DOMAIN toClient : k = 1
  BY <1>1, <1>3, FewElements
<1>5. \A c \in OldChats : LET u == ChatTurn(c, 0, "user")
                         IN u \in ChatTurns /\ u.chat = c /\ <<u>> \in Seq(ChatTurns) /\ Range(<<u>>) = {u}
  <2> TAKE c \in OldChats
  <2>1. ChatTurn(c, 0, "user") \in ChatTurns /\ ChatTurn(c, 0, "user").chat = c
    BY <1>2 DEF ChatTurn, ChatTurns
  <2> QED BY <2>1, RangeOfOne, FewElements
<1>6. \A k \in DOMAIN toClient : toClient[k].kind = "plan"
  BY <1>3, <1>4
<1>7. WindowTypeOK
  <2>1. <<>> \in Seq(ChatTurns) /\ <<>> \in Seq(ToServer)
    BY EmptySeq
  <2>2. 0 \in 0 .. MaxTurnsSent /\ 0 \in 0 .. MaxOpens
    BY <1>2
  <2>3. DOMAIN storedTurns = OldChats /\ \A c \in OldChats : storedTurns[c] \in Seq(ChatTurns)
    BY <1>1, <1>5
  <2> QED BY <1>1, <1>2, <1>4, <2>1, <2>2, <2>3 DEF WindowTypeOK
<1>8. BootInv
  BY <1>1, <1>3, <1>4 DEF BootInv
<1>9. TurnsInv
  <2>1. \A c \in DOMAIN storedTurns : \A t \in Range(storedTurns[c]) : t.chat = c
    BY <1>1, <1>5
  <2> QED BY <1>6, <2>1 DEF TurnsInv
<1>10. ShownInv
  <2>1. NoChat \notin DOMAIN storedTurns
    BY <1>1, <1>2
  <2> QED BY <1>1, <2>1 DEF ShownInv, GivesAll, Due
<1>11. GivenInv
  BY <1>6 DEF GivenInv
<1> QED BY <1>7, <1>8, <1>9, <1>10, <1>11 DEF ChatInv

\* Everything has arrived: the window of the chat given last has every turn of it.
LEMMA ChatShowsAll == ASSUME ChatInv PROVE WindowComplete
<1> SUFFICES ASSUME toClient = <<>>, relayed = NoRelay, activeChat = givenWhole
             PROVE  Range(Stored(activeChat)) \subseteq Range(window)
  BY DEF WindowComplete
<1>1. DOMAIN toClient = {}
  BY LenProperties
<1>2. GivesAll(toClient, Due(storedTurns, relayed, givenWhole), 0, givenWhole, window)
  BY <1>1, StoredNow DEF ShownInv, NoHistory
<1>3. Due(storedTurns, relayed, givenWhole) \subseteq Range(window)
  BY <1>1, <1>2 DEF GivesAll, ComesAfter
<1>4. CASE activeChat \in DOMAIN storedTurns
  BY <1>3, <1>4 DEF Due, Stored
<1>5. CASE activeChat \notin DOMAIN storedTurns
  <2>1. Stored(activeChat) = <<>>
    BY <1>5 DEF Stored
  <2> QED BY <2>1 DEF Range
<1> QED BY <1>4, <1>5

LEMMA WindowStepKeeps == ASSUME ChatInv, [WindowNext]_windowVars PROVE ChatInv'
<1>1. CASE \/ \E c \in Chats : OpenChat(c) \/ NewChat(c)
           \/ SendMessage \/ OtherCommand
  BY <1>1, CommandKeeps
<1>2. CASE BootReady
  BY <1>2, BootReadyKeeps
<1>3. CASE HandleFrame
  BY <1>3, HandleFrameKeeps
<1>4. CASE TurnDoneSent
  BY <1>4, TurnDoneKeeps
<1>5. CASE TurnStored
  BY <1>5, TurnStoredKeeps
<1>6. CASE Reduce
  BY <1>6, ReduceKeeps
<1>7. CASE UNCHANGED windowVars
  BY <1>7 DEF windowVars, ChatInv, WindowTypeOK, BootInv, TurnsInv, ShownInv, GivenInv
<1> QED BY <1>1, <1>2, <1>3, <1>4, <1>5, <1>6, <1>7 DEF WindowNext

\* The window of the chat opened last shows every stored turn of that chat once all
\* that was sent has arrived and no turn runs, however often chats are opened, deleted
\* and written to (useLabmateWS.ts's reducer against ws_gateway/server.py).
THEOREM WindowsAreComplete == WindowSpec => [](WindowTypeOK /\ WindowComplete)
<1>1. WindowInit => ChatInv
  BY WindowStarts
<1>2. ChatInv /\ [WindowNext]_windowVars => ChatInv'
  BY WindowStepKeeps
<1>3. ChatInv => WindowTypeOK /\ WindowComplete
  BY ChatShowsAll DEF ChatInv
<1> QED BY <1>1, <1>2, <1>3, PTL DEF WindowSpec

-----------------------------------------------------------------------------
(* TurnView: applying the frames on their way to the turn that is shown gives the turn *)
(* the relay has gathered, and adding the events on their way to its text the answer.  *)

\* The steps es take s to end, each as the function F says.
Reaches(F, T, s, es, end) ==
    \E h \in [0 .. Len(es) -> T] : /\ h[0] = s /\ h[Len(es)] = end
                                   /\ \A k \in 1 .. Len(es) : h[k] = F[<<h[k - 1], es[k]>>]

StreamEvents ==
    {e \in [kind : {"reasoning", "tool.start", "tool.done", "answer.delta", "turn.done"},
            id : ToolIds \union {""}, status : {"", "done", "error", "complete"}, text : Seq(Pieces)] :
        /\ e.kind \in {"tool.start", "tool.done"} => e.id \in ToolIds
        /\ e.kind = "tool.done" => e.status \in {"done", "error"}
        /\ e.kind = "turn.done" => e.status \in {"complete", "error"}}
ReasoningFrames == [kind : {"reasoning.done"}, reasoning : Nat]
ShownFrames == StreamEvents \union ReasoningFrames
TurnsWith(open) ==
    [text : Seq(Pieces), tools : ToolRows(open), reasoning : Nat,
     status : {"streaming", "complete", "error"}]

\* What the reducer makes of a turn and a frame, as ShowRow has it.
Showing(turn, f) ==
    CASE f.kind = "reasoning.done" -> [turn EXCEPT !.reasoning = f.reasoning]
      [] f.kind = "reasoning" -> turn
      [] f.kind = "turn.done" -> [turn EXCEPT !.status = f.status]
      [] f.kind = "tool.done" -> GatherDone(turn, f)
      [] OTHER -> Gather(turn, f, "running")
ShowingOf == [p \in TurnsWith("running") \X ShownFrames |-> Showing(p[1], p[2])]

\* The text with the chunk of an event.
HearingOf ==
    [p \in Seq(Pieces) \X StreamEvents |->
        IF p[2].kind = "answer.delta" THEN p[1] \o p[2].text ELSE p[1]]

\* The rows of the relay as the client calls them.
OpenRows(rows) ==
    [i \in DOMAIN rows |-> [rows[i] EXCEPT !.status = IF @ = "pending" THEN "running" ELSE @]]

ViewTyped ==
    /\ relayTurn \in TurnsWith("pending") /\ shownTurn \in TurnsWith("running")
    /\ eventStream \in Seq(StreamEvents) /\ viewFrames \in Seq(ShownFrames)
    /\ storedTurn \in TurnsWith("pending") \union {NotStored}

\* turn.done is the last event, with the answer as it was emitted.
AnswerInv ==
    /\ answering = "no" => answered = <<>>
    /\ \A i \in DOMAIN eventStream : eventStream[i].kind = "turn.done" =>
           /\ i = Len(eventStream) /\ answering = "over"
           /\ textLost \/ eventStream[i].text \in {<<>>, answered}

\* What the relay has of the answer and what is on its way are all of it.
HeardInv ==
    relayAt = "running" /\ ~textLost =>
        Reaches(HearingOf, Seq(Pieces), relayTurn.text, eventStream, answered)

GatheredTill(end) ==
    end.tools = OpenRows(relayTurn.tools) /\ end.text = relayTurn.text /\ end.reasoning = 0
Kept(end, turn, userStopped, lost) ==
    /\ end.tools = OpenRows(turn.tools) /\ end.reasoning = turn.reasoning
    /\ userStopped \/ end.status = turn.status
    /\ lost \/ end.text = turn.text

\* The turn the client comes to show with the frames on their way.
SeenInv ==
    \E end \in TurnsWith("running") :
        /\ Reaches(ShowingOf, TurnsWith("running"), shownTurn, viewFrames, end)
        /\ relayAt = "running" => GatheredTill(end)
        /\ storedTurn # NotStored => Kept(end, storedTurn, stopped, textLost)

TurnEndedInv == storedTurn # NotStored => relayAt = "ended"

ViewInv == ViewTypeOK /\ ViewTyped /\ AnswerInv /\ HeardInv /\ SeenInv /\ TurnEndedInv

\* One more step.
LEMMA ReachesOn ==
  ASSUME NEW T, NEW E, NEW F \in [T \X E -> T], NEW s \in T, NEW end \in T,
         NEW es \in Seq(E), NEW e \in E, Reaches(F, T, s, es, end)
  PROVE  Reaches(F, T, s, Append(es, e), F[<<end, e>>])
<1>1. PICK h \in [0 .. Len(es) -> T] : /\ h[0] = s /\ h[Len(es)] = end
                                       /\ \A k \in 1 .. Len(es) : h[k] = F[<<h[k - 1], es[k]>>]
  BY DEF Reaches
<1>2. F[<<end, e>>] \in T
  OBVIOUS
<1> DEFINE n == Len(es)
           new == Append(es, e)
           last == F[<<end, e>>]
           g == [k \in 0 .. (n + 1) |-> IF k <= n THEN h[k] ELSE last]
<1>3. n \in Nat /\ Len(new) = n + 1 /\ new[n + 1] = e /\ \A i \in 1 .. n : new[i] = es[i]
  BY AppendProperties, LenProperties
<1>4. last \in T
  BY <1>2
<1>5. h \in [0 .. n -> T] /\ h[0] = s /\ h[n] = end /\ \A k \in 1 .. n : h[k] = F[<<h[k - 1], es[k]>>]
  BY <1>1
<1>6. last = F[<<end, e>>]
  OBVIOUS
<1> HIDE DEF n, new, last
<1>7. g \in [0 .. (n + 1) -> T] /\ g[0] = s /\ g[n + 1] = last
  BY <1>3, <1>4, <1>5
<1>8. ASSUME NEW k \in 1 .. (n + 1) PROVE g[k] = F[<<g[k - 1], new[k]>>]
  <2>1. CASE k \in 1 .. n
    <3>1. g[k] = h[k] /\ g[k - 1] = h[k - 1]
      BY <1>3, <2>1
    <3> QED BY <1>3, <1>5, <2>1, <3>1
  <2>2. CASE k = n + 1
    <3>1. g[k] = last /\ g[k - 1] = h[n]
      BY <1>3, <2>2
    <3> QED BY <1>3, <1>5, <1>6, <2>2, <3>1
  <2> QED BY <1>3, <2>1, <2>2
<1> HIDE DEF g
<1>9. Reaches(F, T, s, new, last)
  BY <1>3, <1>7, <1>8 DEF Reaches
<1> QED BY <1>9 DEF new, last

\* The first step is taken.
LEMMA ReachesAfter ==
  ASSUME NEW T, NEW E, NEW F \in [T \X E -> T], NEW s \in T, NEW end \in T,
         NEW es \in Seq(E), es # <<>>, Reaches(F, T, s, es, end)
  PROVE  Reaches(F, T, F[<<s, Head(es)>>], Tail(es), end)
<1>1. PICK h \in [0 .. Len(es) -> T] : /\ h[0] = s /\ h[Len(es)] = end
                                       /\ \A k \in 1 .. Len(es) : h[k] = F[<<h[k - 1], es[k]>>]
  BY DEF Reaches
<1> DEFINE m == Len(Tail(es))
           g == [k \in 0 .. m |-> h[k + 1]]
           rest == Tail(es)
           first == Head(es)
<1>2. /\ m \in Nat /\ Len(es) = m + 1 /\ Len(rest) = m /\ first = es[1]
      /\ \A i \in 1 .. m : rest[i] = es[i + 1]
  BY HeadTailProperties, LenProperties
<1>3. /\ h \in [0 .. (m + 1) -> T] /\ h[0] = s /\ h[m + 1] = end
      /\ \A k \in 1 .. (m + 1) : h[k] = F[<<h[k - 1], es[k]>>]
  BY <1>1, <1>2
<1> HIDE DEF m, rest, first
<1>4. g \in [0 .. m -> T] /\ g[0] = h[1] /\ g[m] = end
  BY <1>2, <1>3
<1>5. h[1] = F[<<s, first>>]
  <2>1. 1 \in 1 .. (m + 1) /\ 1 - 1 = 0
    BY <1>2
  <2>2. h[1] = F[<<h[1 - 1], es[1]>>]
    BY <1>3, <2>1
  <2> QED BY <1>2, <1>3, <2>1, <2>2
<1>6. ASSUME NEW k \in 1 .. m PROVE g[k] = F[<<g[k - 1], rest[k]>>]
  <2>1. k + 1 \in 1 .. (m + 1) /\ (k + 1) - 1 = k /\ k - 1 \in 0 .. m /\ (k - 1) + 1 = k /\ k \in 0 .. m
    BY <1>2
  <2>2. g[k] = h[k + 1] /\ g[k - 1] = h[k]
    BY <2>1
  <2>3. h[k + 1] = F[<<h[(k + 1) - 1], es[k + 1]>>]
    BY <1>3, <2>1
  <2> QED BY <1>2, <2>1, <2>2, <2>3
<1> HIDE DEF g
<1>7. Reaches(F, T, h[1], rest, end)
  BY <1>2, <1>4, <1>6 DEF Reaches
<1> QED BY <1>5, <1>7 DEF rest, first

LEMMA ReachesAtOnce ==
  ASSUME NEW T, NEW F, NEW s \in T, NEW end
  PROVE  Reaches(F, T, s, <<>>, end) <=> end = s
<1>1. Len(<<>>) = 0 /\ 1 .. 0 = {}
  OBVIOUS
<1>2. ASSUME Reaches(F, T, s, <<>>, end) PROVE end = s
  BY <1>1, <1>2 DEF Reaches
<1>3. [k \in 0 .. 0 |-> s] \in [0 .. 0 -> T] /\ [k \in 0 .. 0 |-> s][0] = s
  OBVIOUS
<1>4. Reaches(F, T, s, <<>>, s)
  BY <1>1, <1>3 DEF Reaches
<1> QED BY <1>2, <1>4

LEMMA TextsJoined ==
  ASSUME NEW s \in Seq(Pieces), NEW t \in Seq(Pieces) PROVE s \o t \in Seq(Pieces)
BY ConcatProperties

LEMMA HearingTyped == HearingOf \in [Seq(Pieces) \X StreamEvents -> Seq(Pieces)]
<1>1. \A p \in Seq(Pieces) \X StreamEvents : p[1] \in Seq(Pieces) /\ p[2].text \in Seq(Pieces)
  BY DEF StreamEvents
<1>2. \A p \in Seq(Pieces) \X StreamEvents : p[1] \o p[2].text \in Seq(Pieces)
  BY <1>1, TextsJoined
<1> QED BY <1>1, <1>2 DEF HearingOf

\* The rows with the outcome of one tool.
LEMMA DoneTyped ==
  ASSUME NEW open \in {"pending", "running"}, NEW turn \in TurnsWith(open),
         NEW e \in StreamEvents, e.kind = "tool.done"
  PROVE  /\ GatherDone(turn, e) \in TurnsWith(open)
         /\ GatherDone(turn, e).tools =
                [i \in DOMAIN turn.tools |->
                    IF turn.tools[i].id = e.id THEN [turn.tools[i] EXCEPT !.status = e.status]
                    ELSE turn.tools[i]]
         /\ GatherDone(turn, e).text = turn.text /\ GatherDone(turn, e).reasoning = turn.reasoning
         /\ GatherDone(turn, e).status = turn.status
<1> DEFINE rows == turn.tools
           new == [i \in DOMAIN rows |->
                      IF rows[i].id = e.id THEN [rows[i] EXCEPT !.status = e.status] ELSE rows[i]]
           Row == [id : ToolIds, status : {open, "done", "error"}]
<1>1. rows \in Seq(Row) /\ e.status \in {"done", "error"}
  BY DEF TurnsWith, ToolRows, StreamEvents
<1>2. DOMAIN rows = 1 .. Len(rows) /\ Len(rows) \in Nat /\ \A i \in 1 .. Len(rows) : rows[i] \in Row
  BY <1>1, LenProperties, ElementOfSeq
<1>3. GatherDone(turn, e) = [turn EXCEPT !.tools = new]
  BY DEF GatherDone
<1> HIDE DEF rows
<1>4. \A i \in 1 .. Len(rows) : new[i] \in Row
  BY <1>1, <1>2
<1>5. new \in [1 .. Len(rows) -> Row]
  BY <1>2, <1>4
<1> HIDE DEF new, Row
<1>6. new \in Seq(Row)
  BY <1>2, <1>5
<1>7. new \in ToolRows(open)
  BY <1>6 DEF ToolRows, Row
<1>8. [turn EXCEPT !.tools = new] \in TurnsWith(open)
  BY <1>7 DEF TurnsWith
<1>9. [turn EXCEPT !.tools = new].tools = new
  BY DEF TurnsWith
<1>10. /\ [turn EXCEPT !.tools = new].text = turn.text /\ [turn EXCEPT !.tools = new].status = turn.status
       /\ [turn EXCEPT !.tools = new].reasoning = turn.reasoning
  BY DEF TurnsWith
<1> QED BY <1>3, <1>8, <1>9, <1>10 DEF new, rows

\* A turn with an event that is no end.
LEMMA GatherTyped ==
  ASSUME NEW open \in {"pending", "running"}, NEW turn \in TurnsWith(open), NEW e \in StreamEvents
  PROVE  LET t == Gather(turn, e, open)
         IN /\ t \in TurnsWith(open) /\ t.status = turn.status
            /\ t.text = IF e.kind = "answer.delta" THEN turn.text \o e.text ELSE turn.text
            /\ t.tools = IF e.kind = "tool.start" THEN Append(turn.tools, [id |-> e.id, status |-> open])
                         ELSE turn.tools
            /\ t.reasoning = IF e.kind = "reasoning" THEN turn.reasoning + 1 ELSE turn.reasoning
<1>1. /\ turn.text \in Seq(Pieces) /\ e.text \in Seq(Pieces) /\ turn.tools \in ToolRows(open)
      /\ turn.reasoning \in Nat /\ (e.kind = "tool.start" => e.id \in ToolIds)
      /\ turn.status \in {"streaming", "complete", "error"}
  BY DEF TurnsWith, StreamEvents
<1>2. CASE e.kind = "answer.delta"
  <2>1. turn.text \o e.text \in Seq(Pieces)
    BY <1>1, TextsJoined
  <2>2. Gather(turn, e, open) = [turn EXCEPT !.text = turn.text \o e.text]
    BY <1>2 DEF Gather
  <2> QED BY <1>2, <2>1, <2>2 DEF TurnsWith
<1>3. CASE e.kind = "tool.start"
  <2> DEFINE row == [id |-> e.id, status |-> open]
             new == Append(turn.tools, row)
  <2>1. row \in [id : ToolIds, status : {open, "done", "error"}]
    BY <1>1, <1>3
  <2> HIDE DEF row
  <2>2. new \in ToolRows(open)
    BY <1>1, <2>1, AppendProperties DEF ToolRows
  <2>3. Gather(turn, e, open) = [turn EXCEPT !.tools = new]
    BY <1>3 DEF Gather, row
  <2> HIDE DEF new
  <2>4. /\ [turn EXCEPT !.tools = new] \in TurnsWith(open) /\ [turn EXCEPT !.tools = new].tools = new
        /\ [turn EXCEPT !.tools = new].text = turn.text /\ [turn EXCEPT !.tools = new].status = turn.status
        /\ [turn EXCEPT !.tools = new].reasoning = turn.reasoning
    BY <2>2 DEF TurnsWith
  <2> QED BY <1>3, <2>3, <2>4 DEF new, row
<1>4. CASE e.kind = "reasoning"
  <2>1. Gather(turn, e, open) = [turn EXCEPT !.reasoning = turn.reasoning + 1]
    BY <1>4 DEF Gather
  <2>2. turn.reasoning + 1 \in Nat
    BY <1>1
  <2> QED BY <1>4, <2>1, <2>2 DEF TurnsWith
<1>5. CASE e.kind \notin {"answer.delta", "tool.start", "reasoning"}
  BY <1>5 DEF Gather
<1> QED BY <1>2, <1>3, <1>4, <1>5

LEMMA ShowingTyped ==
  /\ ShowingOf \in [TurnsWith("running") \X ShownFrames -> TurnsWith("running")]
  /\ \A t \in TurnsWith("running"), f \in ShownFrames : ShowingOf[<<t, f>>] = Showing(t, f)
<1>1. ASSUME NEW t \in TurnsWith("running"), NEW f \in ShownFrames
      PROVE  Showing(t, f) \in TurnsWith("running")
  <2>1. CASE f \in ReasoningFrames
    <3>1. Showing(t, f) = [t EXCEPT !.reasoning = f.reasoning] /\ f.reasoning \in Nat
      BY <2>1 DEF Showing, ReasoningFrames
    <3> QED BY <3>1 DEF TurnsWith
  <2>2. CASE f \in StreamEvents
    <3>1. f.kind # "reasoning.done" /\ (f.kind = "turn.done" => f.status \in {"complete", "error"})
      BY <2>2 DEF StreamEvents
    <3>2. CASE f.kind = "turn.done"
      <4>1. Showing(t, f) = [t EXCEPT !.status = f.status]
        BY <3>2 DEF Showing
      <4> QED BY <3>1, <3>2, <4>1 DEF TurnsWith
    <3>3. CASE f.kind = "tool.done"
      <4>1. Showing(t, f) = GatherDone(t, f)
        BY <3>3 DEF Showing
      <4> QED BY <2>2, <3>3, <4>1, DoneTyped
    <3>4. CASE f.kind = "reasoning"
      BY <3>4 DEF Showing
    <3>5. CASE f.kind \notin {"turn.done", "tool.done", "reasoning"}
      <4>1. Showing(t, f) = Gather(t, f, "running")
        BY <3>1, <3>5 DEF Showing
      <4> QED BY <2>2, <4>1, GatherTyped
    <3> QED BY <3>2, <3>3, <3>4, <3>5
  <2> QED BY <2>1, <2>2 DEF ShownFrames
<1> QED BY <1>1 DEF ShowingOf

\* What holds of the state, named once.
LEMMA ViewNow ==
  ASSUME ViewInv
  PROVE  /\ runningTools \subseteq usedTools /\ usedTools \subseteq ToolIds
         /\ answered \in Seq(Pieces) /\ answering \in {"no", "streaming", "over"}
         /\ thoughts \in 0 .. MaxThoughts /\ viewFaults \in 0 .. MaxViewFaults
         /\ {MaxPieces, MaxThoughts, MaxLag, MaxViewFaults} \subseteq Nat
         /\ relayAt \in {"running", "ended", "cut"} /\ {textLost, stopped} \subseteq BOOLEAN
         /\ relayTurn \in TurnsWith("pending") /\ shownTurn \in TurnsWith("running")
         /\ eventStream \in Seq(StreamEvents) /\ viewFrames \in Seq(ShownFrames)
         /\ storedTurn \in TurnsWith("pending") \union {NotStored}
         /\ (relayAt # "ended" => storedTurn = NotStored)
         /\ AnswerInv /\ HeardInv /\ SeenInv
BY ViewAssumption DEF ViewInv, ViewTypeOK, ViewTyped, TurnEndedInv

\* The types of the two turns and of the stored one are ViewTypeOK's.
LEMMA ViewTypes ==
  ASSUME ViewTyped',
         runningTools' \subseteq usedTools', usedTools' \subseteq ToolIds,
         answered' \in Seq(Pieces), answering' \in {"no", "streaming", "over"},
         thoughts' \in 0 .. MaxThoughts, viewFaults' \in 0 .. MaxViewFaults,
         relayAt' \in {"running", "ended", "cut"}, textLost' \in BOOLEAN, stopped' \in BOOLEAN,
         storedTurn' # NotStored => storedTurn'.status \in {"complete", "error"}
  PROVE  ViewTypeOK'
BY DEF ViewTypeOK, ViewTyped, TurnsWith

LEMMA FaultCounted == ASSUME ViewInv, ViewFault PROVE viewFaults' \in 0 .. MaxViewFaults
<1>1. viewFaults \in Nat /\ MaxViewFaults \in Nat /\ viewFaults < MaxViewFaults /\ viewFaults' = viewFaults + 1
  BY ViewNow DEF ViewFault
<1> QED BY <1>1

\* The orchestrator's steps leave what is shown and stored; more may be lost.
LEMMA SeenStays ==
  ASSUME ViewInv, UNCHANGED shownSide, textLost => textLost' PROVE SeenInv'
<1>1. /\ relayAt' = relayAt /\ relayTurn' = relayTurn /\ viewFrames' = viewFrames
      /\ shownTurn' = shownTurn /\ storedTurn' = storedTurn /\ stopped' = stopped
  BY DEF shownSide
<1>2. PICK end \in TurnsWith("running") :
         /\ Reaches(ShowingOf, TurnsWith("running"), shownTurn, viewFrames, end)
         /\ relayAt = "running" => GatheredTill(end)
         /\ storedTurn # NotStored => Kept(end, storedTurn, stopped, textLost)
  BY ViewNow DEF SeenInv
<1>3. storedTurn' # NotStored => Kept(end, storedTurn', stopped', textLost')
  BY <1>1, <1>2 DEF Kept
<1>4. relayAt' = "running" =>
         end.tools = OpenRows(relayTurn'.tools) /\ end.text = relayTurn'.text /\ end.reasoning = 0
  BY <1>1, <1>2 DEF GatheredTill
<1>5. Reaches(ShowingOf, TurnsWith("running"), shownTurn', viewFrames', end)
  BY <1>1, <1>2
<1> QED BY <1>3, <1>4, <1>5 DEF SeenInv, GatheredTill

\* A stored turn has its status.
LEMMA StoredHasStatus ==
  ASSUME ViewInv, storedTurn # NotStored PROVE storedTurn.status \in {"complete", "error"}
BY DEF ViewInv, ViewTypeOK

\* The answer goes on, or something else is told; no turn.done is on its way yet.
LEMMA EmitKeeps ==
  ASSUME ViewInv, NEW e \in StreamEvents, NEW carries \in BOOLEAN, EmitEvent(e, carries),
         UNCHANGED shownSide, e.kind # "turn.done", answering # "over",
         carries <=> e.kind = "answer.delta",
         answered' = IF carries THEN answered \o e.text ELSE answered,
         answering' \in {"no", "streaming"}, answering' = "no" => answering = "no" /\ ~carries,
         runningTools' \subseteq usedTools', usedTools' \subseteq ToolIds, thoughts' \in 0 .. MaxThoughts
  PROVE  ViewInv'
<1>1. /\ relayAt' = relayAt /\ relayTurn' = relayTurn /\ viewFrames' = viewFrames
      /\ shownTurn' = shownTurn /\ storedTurn' = storedTurn /\ stopped' = stopped
  BY DEF shownSide
<1>2. \/ eventStream' = Append(eventStream, e) /\ viewFaults' = viewFaults /\ textLost' = textLost
      \/ ViewFault /\ eventStream' = eventStream /\ textLost' = (textLost \/ carries)
  BY DEF EmitEvent
<1>3. textLost' \in BOOLEAN /\ (textLost => textLost') /\ viewFaults' \in 0 .. MaxViewFaults
  BY <1>2, ViewNow, FaultCounted
<1>4. Append(eventStream, e) \in Seq(StreamEvents)
  BY ViewNow, AppendProperties
<1>5. e.text \in Seq(Pieces)
  BY DEF StreamEvents
<1>6. answered' \in Seq(Pieces)
  BY <1>5, ViewNow, TextsJoined
<1>7. ViewTyped'
  BY <1>1, <1>2, <1>4, ViewNow DEF ViewTyped
<1>8. ViewTypeOK'
  BY <1>1, <1>3, <1>6, <1>7, ViewNow, StoredHasStatus, ViewTypes
<1>9. \A i \in DOMAIN eventStream : eventStream[i].kind # "turn.done"
  BY ViewNow DEF AnswerInv
<1>10. \A i \in DOMAIN Append(eventStream, e) : Append(eventStream, e)[i].kind # "turn.done"
  <2>1. /\ DOMAIN eventStream = 1 .. Len(eventStream) /\ Len(eventStream) \in Nat
        /\ DOMAIN Append(eventStream, e) = 1 .. (Len(eventStream) + 1)
        /\ \A i \in 1 .. Len(eventStream) : Append(eventStream, e)[i] = eventStream[i]
        /\ Append(eventStream, e)[Len(eventStream) + 1] = e
    BY ViewNow, AppendProperties, LenProperties
  <2> TAKE i \in DOMAIN Append(eventStream, e)
  <2>2. i \in 1 .. Len(eventStream) \/ i = Len(eventStream) + 1
    BY <2>1
  <2> QED BY <1>9, <2>1, <2>2
<1>11. AnswerInv'
  <2>1. answering' = "no" => answered' = <<>>
    BY ViewNow DEF AnswerInv
  <2>2. \A i \in DOMAIN eventStream' : eventStream'[i].kind # "turn.done"
    BY <1>2, <1>9, <1>10
  <2> QED BY <2>1, <2>2 DEF AnswerInv
<1>12. HeardInv'
  <2> SUFFICES ASSUME relayAt = "running", ~textLost'
               PROVE  Reaches(HearingOf, Seq(Pieces), relayTurn.text, eventStream', answered')
    BY <1>1 DEF HeardInv
  <2>1. Reaches(HearingOf, Seq(Pieces), relayTurn.text, eventStream, answered)
    BY <1>3, ViewNow DEF HeardInv
  <2>2. relayTurn.text \in Seq(Pieces)
    BY ViewNow DEF TurnsWith
  <2>3. CASE eventStream' = Append(eventStream, e)
    <3>1. Reaches(HearingOf, Seq(Pieces), relayTurn.text, Append(eventStream, e), HearingOf[<<answered, e>>])
      BY <2>1, <2>2, ViewNow, HearingTyped, ReachesOn
    <3>2. HearingOf[<<answered, e>>] = answered'
      BY ViewNow DEF HearingOf
    <3> QED BY <2>3, <3>1, <3>2
  <2>4. CASE eventStream' = eventStream /\ textLost' = (textLost \/ carries)
    <3>1. answered' = answered
      BY <2>4
    <3> QED BY <2>1, <2>4, <3>1
  <2> QED BY <1>2, <2>3, <2>4
<1>13. SeenInv'
  BY <1>3, SeenStays
<1>14. TurnEndedInv'
  BY <1>1, ViewNow DEF TurnEndedInv
<1> QED BY <1>7, <1>8, <1>11, <1>12, <1>13, <1>14 DEF ViewInv

\* The turn is over: the answer it ends with is the one emitted, or was lost on the way.
LEMMA OverKeeps ==
  ASSUME ViewInv, NEW status \in {"complete", "error"}, NEW final \in Seq(Pieces),
         TurnOver(status, final), answering # "over",
         textLost' \in BOOLEAN, textLost => textLost', textLost' \/ final \in {<<>>, answered}
  PROVE  ViewInv'
<1> DEFINE e == Event("turn.done", "", status, final)
<1>1. /\ relayAt' = relayAt /\ relayTurn' = relayTurn /\ viewFrames' = viewFrames
      /\ shownTurn' = shownTurn /\ storedTurn' = storedTurn /\ stopped' = stopped
      /\ answering' = "over" /\ runningTools' = runningTools /\ usedTools' = usedTools
      /\ answered' = answered /\ thoughts' = thoughts
  BY DEF TurnOver, shownSide
<1>2. \/ eventStream' = Append(eventStream, e) /\ viewFaults' = viewFaults
      \/ ViewFault /\ eventStream' = eventStream
  BY DEF TurnOver
<1>3. e \in StreamEvents /\ e.kind = "turn.done" /\ e.text = final
  BY DEF Event, StreamEvents
<1> HIDE DEF e
<1>4. viewFaults' \in 0 .. MaxViewFaults
  BY <1>2, ViewNow, FaultCounted
<1>5. Append(eventStream, e) \in Seq(StreamEvents)
  BY <1>3, ViewNow, AppendProperties
<1>6. ViewTyped'
  BY <1>1, <1>2, <1>5, ViewNow DEF ViewTyped
<1>7. ViewTypeOK'
  BY <1>1, <1>4, <1>6, ViewNow, StoredHasStatus, ViewTypes
<1>8. \A i \in DOMAIN eventStream : eventStream[i].kind # "turn.done"
  BY ViewNow DEF AnswerInv
<1>9. \A i \in DOMAIN Append(eventStream, e) : Append(eventStream, e)[i].kind = "turn.done" =>
         i = Len(Append(eventStream, e)) /\ Append(eventStream, e)[i].text = final
  <2>1. /\ DOMAIN eventStream = 1 .. Len(eventStream) /\ Len(eventStream) \in Nat
        /\ DOMAIN Append(eventStream, e) = 1 .. (Len(eventStream) + 1)
        /\ Len(Append(eventStream, e)) = Len(eventStream) + 1
        /\ \A i \in 1 .. Len(eventStream) : Append(eventStream, e)[i] = eventStream[i]
        /\ Append(eventStream, e)[Len(eventStream) + 1] = e
    BY <1>3, ViewNow, AppendProperties, LenProperties
  <2> TAKE i \in DOMAIN Append(eventStream, e)
  <2>2. i \in 1 .. Len(eventStream) \/ i = Len(eventStream) + 1
    BY <2>1
  <2> QED BY <1>3, <1>8, <2>1, <2>2
<1>10. AnswerInv'
  <2>1. \A i \in DOMAIN eventStream' : eventStream'[i].kind = "turn.done" =>
            i = Len(eventStream') /\ eventStream'[i].text = final
    BY <1>2, <1>8, <1>9
  <2> QED BY <1>1, <2>1 DEF AnswerInv
<1>11. HeardInv'
  <2> SUFFICES ASSUME relayAt = "running", ~textLost'
               PROVE  Reaches(HearingOf, Seq(Pieces), relayTurn.text, eventStream', answered)
    BY <1>1 DEF HeardInv
  <2>1. Reaches(HearingOf, Seq(Pieces), relayTurn.text, eventStream, answered)
    BY ViewNow DEF HeardInv
  <2>2. relayTurn.text \in Seq(Pieces)
    BY ViewNow DEF TurnsWith
  <2>3. CASE eventStream' = Append(eventStream, e)
    <3>1. Reaches(HearingOf, Seq(Pieces), relayTurn.text, Append(eventStream, e), HearingOf[<<answered, e>>])
      BY <1>3, <2>1, <2>2, ViewNow, HearingTyped, ReachesOn
    <3>2. HearingOf[<<answered, e>>] = answered
      BY <1>3, ViewNow DEF HearingOf
    <3> QED BY <2>3, <3>1, <3>2
  <2> QED BY <1>2, <2>1, <2>3
<1>12. SeenInv'
  BY SeenStays DEF TurnOver
<1>13. TurnEndedInv'
  BY <1>1, ViewNow DEF TurnEndedInv
<1> QED BY <1>6, <1>7, <1>10, <1>11, <1>12, <1>13 DEF ViewInv

\* The orchestrator's own steps.
LEMMA TellingKeeps ==
  ASSUME ViewInv,
         \/ Think \/ \E id \in ToolIds : ToolStarts(id) \/ ToolEnds(id, "done") \/ ToolEnds(id, "error")
         \/ AnswerChunk \/ AnswerWhole
  PROVE  ViewInv'
<1>1. /\ runningTools \subseteq usedTools /\ usedTools \subseteq ToolIds /\ answered \in Seq(Pieces)
      /\ thoughts \in 0 .. MaxThoughts /\ MaxThoughts \in Nat /\ MaxPieces \in Nat
      /\ answering \in {"no", "streaming", "over"} /\ (answering = "no" => answered = <<>>)
  BY ViewNow DEF AnswerInv
<1>2. <<>> \in Seq(Pieces) /\ TRUE \in BOOLEAN /\ FALSE \in BOOLEAN
  BY EmptySeq
<1>3. CASE Think
  <2> DEFINE e == Event("reasoning", "", "", <<>>)
  <2>1. e \in StreamEvents /\ e.kind = "reasoning"
    BY <1>2 DEF Event, StreamEvents
  <2>2. /\ answering = "no" /\ EmitEvent(e, FALSE) /\ UNCHANGED shownSide /\ thoughts' = thoughts + 1
        /\ thoughts < MaxThoughts /\ runningTools' = runningTools /\ usedTools' = usedTools
        /\ answered' = answered /\ answering' = answering
    BY <1>3 DEF Think
  <2> HIDE DEF e
  <2>3. thoughts' \in 0 .. MaxThoughts
    BY <1>1, <2>2
  <2> QED BY <1>1, <1>2, <2>1, <2>2, <2>3, EmitKeeps
<1>4. ASSUME NEW id \in ToolIds, ToolStarts(id) PROVE ViewInv'
  <2> DEFINE e == Event("tool.start", id, "", <<>>)
  <2>1. e \in StreamEvents /\ e.kind = "tool.start"
    BY <1>2 DEF Event, StreamEvents
  <2>2. /\ answering = "no" /\ EmitEvent(e, FALSE) /\ UNCHANGED shownSide /\ thoughts' = thoughts
        /\ runningTools' = runningTools \union {id} /\ usedTools' = usedTools \union {id}
        /\ answered' = answered /\ answering' = answering
    BY <1>4 DEF ToolStarts
  <2> HIDE DEF e
  <2>3. runningTools' \subseteq usedTools' /\ usedTools' \subseteq ToolIds
    BY <1>1, <2>2
  <2> QED BY <1>1, <1>2, <2>1, <2>2, <2>3, EmitKeeps
<1>5. ASSUME NEW id \in ToolIds, NEW status \in {"done", "error"}, ToolEnds(id, status)
      PROVE  ViewInv'
  <2> DEFINE e == Event("tool.done", id, status, <<>>)
  <2>1. e \in StreamEvents /\ e.kind = "tool.done"
    BY <1>2 DEF Event, StreamEvents
  <2>2. /\ answering = "no" /\ EmitEvent(e, FALSE) /\ UNCHANGED shownSide /\ thoughts' = thoughts
        /\ runningTools' = runningTools \ {id} /\ usedTools' = usedTools
        /\ answered' = answered /\ answering' = answering
    BY <1>5 DEF ToolEnds
  <2> HIDE DEF e
  <2>3. runningTools' \subseteq usedTools' /\ usedTools' \subseteq ToolIds
    BY <1>1, <2>2
  <2> QED BY <1>1, <1>2, <2>1, <2>2, <2>3, EmitKeeps
<1>6. CASE AnswerChunk
  <2> DEFINE n == Len(answered) + 1
             e == Event("answer.delta", "", "", <<n>>)
  <2>1. n \in Pieces
    <3>1. Len(answered) \in Nat /\ Len(answered) < MaxPieces
      BY <1>1, <1>6, LenProperties DEF AnswerChunk
    <3> QED BY <1>1, <3>1 DEF Pieces
  <2>2. /\ answering # "over" /\ EmitEvent(e, TRUE) /\ UNCHANGED shownSide /\ thoughts' = thoughts
        /\ runningTools' = runningTools /\ usedTools' = usedTools
        /\ answered' = Append(answered, n) /\ answering' = "streaming"
    BY <1>6 DEF AnswerChunk
  <2> HIDE DEF n
  <2>3. <<n>> \in Seq(Pieces) /\ Append(answered, n) = answered \o <<n>>
    BY <1>1, <2>1, AppendIsConcat
  <2>4. e \in StreamEvents /\ e.kind = "answer.delta" /\ e.text = <<n>>
    BY <2>3 DEF Event, StreamEvents
  <2> HIDE DEF e
  <2> QED BY <1>1, <1>2, <2>2, <2>3, <2>4, EmitKeeps
<1>7. CASE AnswerWhole
  <2> DEFINE t == <<0>>
             e == Event("answer.delta", "", "", t)
  <2>1. /\ answering = "no" /\ EmitEvent(e, TRUE) /\ UNCHANGED shownSide /\ thoughts' = thoughts
        /\ runningTools' = runningTools /\ usedTools' = usedTools
        /\ answered' = t /\ answering' = "streaming"
    BY <1>7 DEF AnswerWhole
  <2>2. t \in Seq(Pieces)
    BY <1>1 DEF Pieces
  <2> HIDE DEF t
  <2>3. t = answered \o t
    BY <1>1, <2>1, <2>2, ConcatEmptySeq
  <2>4. e \in StreamEvents /\ e.kind = "answer.delta" /\ e.text = t
    BY <2>2 DEF Event, StreamEvents
  <2> HIDE DEF e
  <2> QED BY <1>1, <1>2, <2>1, <2>3, <2>4, EmitKeeps
<1> QED BY <1>3, <1>4, <1>5, <1>6, <1>7

\* The steps that end the turn.
LEMMA EndingKeeps ==
  ASSUME ViewInv,
         \/ \E status \in {"complete", "error"} : AnswerEnds(status) \/ AnswerBreaks(status)
         \/ TaskRaises
  PROVE  ViewInv'
<1>1. answered \in Seq(Pieces) /\ textLost \in BOOLEAN /\ <<>> \in Seq(Pieces) /\ <<0>> \in Seq(Pieces)
  <2>1. 0 \in Pieces
    BY ViewNow DEF Pieces
  <2> QED BY <2>1, ViewNow, EmptySeq
<1>2. ASSUME NEW status \in {"complete", "error"}, AnswerEnds(status) PROVE ViewInv'
  <2>1. answering = "streaming" /\ TurnOver(status, answered) /\ textLost' = textLost
    BY <1>2 DEF AnswerEnds
  <2> QED BY <1>1, <2>1, OverKeeps
<1>3. ASSUME NEW status \in {"complete", "error"}, AnswerBreaks(status) PROVE ViewInv'
  <2>1. answering # "over" /\ TurnOver(status, <<0>>) /\ textLost' = TRUE
    BY <1>3 DEF AnswerBreaks
  <2> QED BY <1>1, <2>1, OverKeeps
<1>4. CASE TaskRaises
  <2>1. answering = "no" /\ TurnOver("error", <<>>) /\ textLost' = textLost
    BY <1>4 DEF TaskRaises
  <2> QED BY <1>1, <2>1, OverKeeps
<1> QED BY <1>2, <1>3, <1>4

LEMMA StopKeeps == ASSUME ViewInv, StopTurn PROVE ViewInv'
<1> DEFINE f == Event("turn.done", "", "error", <<>>)
<1>1. /\ stopped' = TRUE /\ relayAt' = (IF relayAt = "running" THEN "cut" ELSE relayAt)
      /\ viewFrames' = Append(viewFrames, f)
      /\ runningTools' = runningTools /\ usedTools' = usedTools /\ answered' = answered
      /\ answering' = answering /\ thoughts' = thoughts /\ eventStream' = eventStream
      /\ relayTurn' = relayTurn /\ shownTurn' = shownTurn /\ storedTurn' = storedTurn
      /\ textLost' = textLost /\ viewFaults' = viewFaults
  BY DEF StopTurn
<1>2. f \in StreamEvents /\ f.kind = "turn.done" /\ f.status = "error"
  <2>1. <<>> \in Seq(Pieces)
    BY EmptySeq
  <2> QED BY <2>1 DEF Event, StreamEvents
<1> HIDE DEF f
<1>3. f \in ShownFrames
  BY <1>2 DEF ShownFrames
<1>4. viewFrames' \in Seq(ShownFrames)
  BY <1>1, <1>3, ViewNow, AppendProperties
<1>5. ViewTyped'
  BY <1>1, <1>4, ViewNow DEF ViewTyped
<1>6. relayAt' \in {"ended", "cut"} /\ (storedTurn # NotStored => relayAt' = "ended")
  BY <1>1, ViewNow
<1>7. ViewTypeOK'
  BY <1>1, <1>5, <1>6, ViewNow, StoredHasStatus, ViewTypes
<1>8. AnswerInv' /\ HeardInv' /\ TurnEndedInv'
  BY <1>1, <1>6, ViewNow DEF AnswerInv, HeardInv, TurnEndedInv
<1>9. SeenInv'
  <2>1. PICK end \in TurnsWith("running") :
           /\ Reaches(ShowingOf, TurnsWith("running"), shownTurn, viewFrames, end)
           /\ storedTurn # NotStored => Kept(end, storedTurn, stopped, textLost)
    BY ViewNow DEF SeenInv
  <2> DEFINE new == ShowingOf[<<end, f>>]
  <2>2. new = [end EXCEPT !.status = "error"]
    BY <1>2, <1>3, ShowingTyped DEF Showing
  <2>3. new \in TurnsWith("running") /\ new.tools = end.tools /\ new.text = end.text /\ new.reasoning = end.reasoning
    BY <2>2 DEF TurnsWith
  <2>4. Reaches(ShowingOf, TurnsWith("running"), shownTurn, Append(viewFrames, f), new)
    BY <1>3, <2>1, ViewNow, ShowingTyped, ReachesOn
  <2> HIDE DEF new
  <2>5. storedTurn' # NotStored => Kept(new, storedTurn', stopped', textLost')
    BY <1>1, <2>1, <2>3 DEF Kept
  <2> QED BY <1>1, <1>6, <2>3, <2>4, <2>5 DEF SeenInv
<1> QED BY <1>5, <1>7, <1>8, <1>9 DEF ViewInv

LEMMA LosingKeeps == ASSUME ViewInv, LoseConnection PROVE ViewInv'
<1>1. /\ relayAt = "running" /\ relayAt' = "cut" /\ viewFrames' = <<>> /\ ViewFault
      /\ runningTools' = runningTools /\ usedTools' = usedTools /\ answered' = answered
      /\ answering' = answering /\ thoughts' = thoughts /\ eventStream' = eventStream
      /\ relayTurn' = relayTurn /\ shownTurn' = shownTurn /\ storedTurn' = storedTurn
      /\ textLost' = textLost /\ stopped' = stopped
  BY DEF LoseConnection
<1>2. viewFrames' \in Seq(ShownFrames) /\ storedTurn' = NotStored
  BY <1>1, ViewNow, EmptySeq
<1>3. ViewTyped'
  BY <1>1, <1>2, ViewNow DEF ViewTyped
<1>4. ViewTypeOK'
  BY <1>1, <1>2, <1>3, ViewNow, FaultCounted, ViewTypes
<1>5. AnswerInv' /\ HeardInv' /\ TurnEndedInv'
  BY <1>1, <1>2, ViewNow DEF AnswerInv, HeardInv, TurnEndedInv
<1>6. SeenInv'
  <2>1. Reaches(ShowingOf, TurnsWith("running"), shownTurn, <<>>, shownTurn)
    BY ViewNow, ReachesAtOnce
  <2> QED BY <1>1, <1>2, <2>1, ViewNow DEF SeenInv
<1> QED BY <1>3, <1>4, <1>5, <1>6 DEF ViewInv

LEMMA ShowRowKeeps == ASSUME ViewInv, ShowRow PROVE ViewInv'
<1> DEFINE f == Head(viewFrames)
<1>1. /\ viewFrames # <<>> /\ viewFrames' = Tail(viewFrames) /\ shownTurn' = Showing(shownTurn, f)
      /\ runningTools' = runningTools /\ usedTools' = usedTools /\ answered' = answered
      /\ answering' = answering /\ thoughts' = thoughts /\ eventStream' = eventStream
      /\ relayAt' = relayAt /\ relayTurn' = relayTurn /\ storedTurn' = storedTurn
      /\ textLost' = textLost /\ stopped' = stopped /\ viewFaults' = viewFaults
  BY DEF ShowRow, Showing, GatherDone
<1>2. f \in ShownFrames /\ Tail(viewFrames) \in Seq(ShownFrames)
  BY <1>1, ViewNow, HeadTailProperties
<1>3. shownTurn' = ShowingOf[<<shownTurn, f>>] /\ shownTurn' \in TurnsWith("running")
  BY <1>1, <1>2, ViewNow, ShowingTyped
<1>4. ViewTyped'
  BY <1>1, <1>2, <1>3, ViewNow DEF ViewTyped
<1>5. ViewTypeOK'
  BY <1>1, <1>4, ViewNow, StoredHasStatus, ViewTypes
<1>6. AnswerInv' /\ HeardInv' /\ TurnEndedInv'
  BY <1>1, ViewNow DEF AnswerInv, HeardInv, TurnEndedInv
<1>7. SeenInv'
  <2>1. PICK end \in TurnsWith("running") :
           /\ Reaches(ShowingOf, TurnsWith("running"), shownTurn, viewFrames, end)
           /\ relayAt = "running" => GatheredTill(end)
           /\ storedTurn # NotStored => Kept(end, storedTurn, stopped, textLost)
    BY ViewNow DEF SeenInv
  <2>2. Reaches(ShowingOf, TurnsWith("running"), shownTurn', viewFrames', end)
    BY <1>1, <1>3, <2>1, ViewNow, ShowingTyped, ReachesAfter
  <2>3. relayAt' = "running" =>
           end.tools = OpenRows(relayTurn'.tools) /\ end.text = relayTurn'.text /\ end.reasoning = 0
    BY <1>1, <2>1 DEF GatheredTill
  <2>4. storedTurn' # NotStored => Kept(end, storedTurn', stopped', textLost')
    BY <1>1, <2>1 DEF Kept
  <2> QED BY <2>2, <2>3, <2>4 DEF SeenInv, GatheredTill
<1> QED BY <1>4, <1>5, <1>6, <1>7 DEF ViewInv

\* The rows of the relay and those of the client change alike.
LEMMA RowsAlike ==
  ASSUME NEW rows \in ToolRows("pending")
  PROVE  /\ DOMAIN OpenRows(rows) = DOMAIN rows
         /\ \A id \in ToolIds :
               OpenRows(Append(rows, [id |-> id, status |-> "pending"]))
                   = Append(OpenRows(rows), [id |-> id, status |-> "running"])
         /\ \A e \in StreamEvents : e.kind = "tool.done" =>
               OpenRows([i \in DOMAIN rows |-> IF rows[i].id = e.id THEN [rows[i] EXCEPT !.status = e.status]
                                               ELSE rows[i]])
                   = [i \in DOMAIN OpenRows(rows) |->
                        IF OpenRows(rows)[i].id = e.id THEN [OpenRows(rows)[i] EXCEPT !.status = e.status]
                        ELSE OpenRows(rows)[i]]
<1> DEFINE Row == [id : ToolIds, status : {"pending", "done", "error"}]
           n == Len(rows)
           open == OpenRows(rows)
           OpenRow(r) == [r EXCEPT !.status = IF r.status = "pending" THEN "running" ELSE r.status]
<1>1. rows \in Seq(Row)
  BY DEF ToolRows
<1>2. n \in Nat /\ DOMAIN rows = 1 .. n /\ \A i \in 1 .. n : rows[i] \in Row
  BY <1>1, LenProperties, ElementOfSeq
<1>3. \A s : OpenRows(s) = [i \in DOMAIN s |-> OpenRow(s[i])]
  BY DEF OpenRows
<1>4. \A r \in Row : OpenRow(r) = [id |-> r.id, status |-> IF r.status = "pending" THEN "running" ELSE r.status]
  OBVIOUS
<1> HIDE DEF OpenRow, n
<1>5. open = [i \in 1 .. n |-> OpenRow(rows[i])]
  BY <1>2, <1>3
<1> HIDE DEF open
<1>6. ASSUME NEW id \in ToolIds
      PROVE  OpenRows(Append(rows, [id |-> id, status |-> "pending"]))
                 = Append(open, [id |-> id, status |-> "running"])
  <2> DEFINE row == [id |-> id, status |-> "pending"]
             mine == [id |-> id, status |-> "running"]
             new == Append(rows, row)
  <2>1. row \in Row /\ OpenRow(row) = mine
    BY <1>4
  <2> HIDE DEF row, mine
  <2>2. /\ new \in Seq(Row) /\ DOMAIN new = 1 .. (n + 1) /\ new[n + 1] = row
        /\ \A i \in 1 .. n : new[i] = rows[i]
    BY <1>1, <2>1, AppendProperties, LenProperties DEF n
  <2> HIDE DEF new
  <2>3. OpenRows(new) = [i \in 1 .. (n + 1) |-> OpenRow(new[i])]
    BY <1>3, <2>2
  <2>4. open \in Seq({OpenRow(r) : r \in Row}) /\ mine \in {OpenRow(r) : r \in Row}
    <3>1. \A i \in 1 .. n : OpenRow(rows[i]) \in {OpenRow(r) : r \in Row}
      BY <1>2
    <3> QED BY <1>2, <1>5, <2>1, <3>1, IsASeq
  <2> DEFINE all == Append(open, mine)
  <2>5. Len(open) = n
    BY <1>2, <1>5, <2>4, LenProperties
  <2>6. /\ all \in Seq({OpenRow(r) : r \in Row}) /\ Len(all) = n + 1 /\ all[n + 1] = mine
        /\ \A i \in 1 .. n : all[i] = open[i]
    BY <2>4, <2>5, AppendProperties
  <2> HIDE DEF all
  <2>7. all = [i \in 1 .. (n + 1) |-> all[i]]
    BY <2>6, LenProperties
  <2>8. \A i \in 1 .. (n + 1) : all[i] = OpenRow(new[i])
    <3> TAKE i \in 1 .. (n + 1)
    <3>1. CASE i \in 1 .. n
      BY <1>5, <2>2, <2>6, <3>1
    <3>2. CASE i = n + 1
      BY <2>1, <2>2, <2>6, <3>2
    <3> QED BY <1>2, <3>1, <3>2
  <2>9. OpenRows(new) = all
    BY <2>3, <2>7, <2>8
  <2> QED BY <2>9 DEF all, new, row, mine
<1>7. ASSUME NEW e \in StreamEvents, e.kind = "tool.done"
      PROVE  OpenRows([i \in DOMAIN rows |-> IF rows[i].id = e.id THEN [rows[i] EXCEPT !.status = e.status]
                                             ELSE rows[i]])
                 = [i \in DOMAIN open |->
                        IF open[i].id = e.id THEN [open[i] EXCEPT !.status = e.status] ELSE open[i]]
  <2>1. e.status \in {"done", "error"}
    BY <1>7 DEF StreamEvents
  <2> DEFINE Done(r) == IF r.id = e.id THEN [r EXCEPT !.status = e.status] ELSE r
  <2>2. \A r \in Row : Done(r) \in Row /\ OpenRow(Done(r)) = Done(OpenRow(r))
    <3> TAKE r \in Row
    <3>1. OpenRow(r) = [id |-> r.id, status |-> IF r.status = "pending" THEN "running" ELSE r.status]
      BY <1>4
    <3>2. CASE r.id = e.id
      <4>1. Done(r) = [id |-> r.id, status |-> e.status] /\ Done(r) \in Row
        BY <2>1, <3>2
      <4>2. OpenRow(Done(r)) = [id |-> r.id, status |-> e.status]
        BY <1>4, <2>1, <4>1
      <4>3. Done(OpenRow(r)) = [id |-> r.id, status |-> e.status]
        BY <3>1, <3>2
      <4> QED BY <4>1, <4>2, <4>3
    <3>3. CASE r.id # e.id
      BY <3>1, <3>3
    <3> QED BY <3>2, <3>3
  <2> DEFINE new == [i \in DOMAIN rows |-> Done(rows[i])]
  <2>3. new = [i \in DOMAIN rows |-> IF rows[i].id = e.id THEN [rows[i] EXCEPT !.status = e.status]
                                     ELSE rows[i]]
    OBVIOUS
  <2>4. [i \in DOMAIN open |-> IF open[i].id = e.id THEN [open[i] EXCEPT !.status = e.status] ELSE open[i]]
            = [i \in DOMAIN open |-> Done(open[i])]
    OBVIOUS
  <2> HIDE DEF Done
  <2>5. OpenRows(new) = [i \in 1 .. n |-> OpenRow(Done(rows[i]))]
    BY <1>2, <1>3
  <2>6. [i \in DOMAIN open |-> Done(open[i])] = [i \in 1 .. n |-> Done(OpenRow(rows[i]))]
    BY <1>5
  <2>7. \A i \in 1 .. n : OpenRow(Done(rows[i])) = Done(OpenRow(rows[i]))
    BY <1>2, <2>2
  <2>8. OpenRows(new) = [i \in DOMAIN open |-> Done(open[i])]
    BY <2>5, <2>6, <2>7
  <2> QED BY <2>3, <2>4, <2>8
<1>8. DOMAIN open = DOMAIN rows
  BY <1>2, <1>5
<1> QED BY <1>6, <1>7, <1>8 DEF open

\* An event that is no end is gathered by the relay and shown by the client alike.
LEMMA GatheredAlike ==
  ASSUME ViewInv, NEW e \in StreamEvents, e.kind # "turn.done", NEW end \in TurnsWith("running"),
         GatheredTill(end), NEW turn,
         turn = IF e.kind = "tool.done" THEN GatherDone(relayTurn, e) ELSE Gather(relayTurn, e, "pending")
  PROVE  /\ turn \in TurnsWith("pending") /\ Showing(end, e) \in TurnsWith("running")
         /\ turn.text = HearingOf[<<relayTurn.text, e>>]
         /\ Showing(end, e).tools = OpenRows(turn.tools) /\ Showing(end, e).text = turn.text
         /\ Showing(end, e).reasoning = 0
<1>1. /\ end.tools = OpenRows(relayTurn.tools) /\ end.text = relayTurn.text /\ end.reasoning = 0
      /\ relayTurn \in TurnsWith("pending") /\ relayTurn.tools \in ToolRows("pending")
      /\ relayTurn.text \in Seq(Pieces) /\ e.kind # "reasoning.done"
      /\ e.kind \in {"reasoning", "tool.start", "tool.done", "answer.delta"}
      /\ (e.kind = "tool.start" => e.id \in ToolIds)
  BY ViewNow DEF GatheredTill, TurnsWith, StreamEvents
<1>2. HearingOf[<<relayTurn.text, e>>] = IF e.kind = "answer.delta" THEN relayTurn.text \o e.text
                                        ELSE relayTurn.text
  BY <1>1 DEF HearingOf
<1>3. Showing(end, e) \in TurnsWith("running")
  <2>1. e \in ShownFrames
    BY DEF ShownFrames
  <2> QED BY <2>1, ShowingTyped
<1>4. "pending" \in {"pending", "running"} /\ "running" \in {"pending", "running"}
  OBVIOUS
<1>5. CASE e.kind = "tool.done"
  <2>1. /\ turn \in TurnsWith("pending") /\ turn.text = relayTurn.text
        /\ turn.tools = [i \in DOMAIN relayTurn.tools |->
                            IF relayTurn.tools[i].id = e.id
                            THEN [relayTurn.tools[i] EXCEPT !.status = e.status] ELSE relayTurn.tools[i]]
    BY <1>1, <1>4, <1>5, DoneTyped
  <2>2. Showing(end, e) = GatherDone(end, e)
    BY <1>5 DEF Showing
  <2>3. /\ Showing(end, e).text = end.text /\ Showing(end, e).reasoning = end.reasoning
        /\ Showing(end, e).tools = [i \in DOMAIN end.tools |->
                IF end.tools[i].id = e.id THEN [end.tools[i] EXCEPT !.status = e.status] ELSE end.tools[i]]
    BY <1>4, <1>5, <2>2, DoneTyped
  <2>4. Showing(end, e).tools = OpenRows(turn.tools)
    BY <1>1, <1>5, <2>1, <2>3, RowsAlike
  <2> QED BY <1>1, <1>2, <1>3, <1>5, <2>1, <2>3, <2>4
<1>6. CASE e.kind # "tool.done"
  <2>1. /\ turn \in TurnsWith("pending")
        /\ turn.text = IF e.kind = "answer.delta" THEN relayTurn.text \o e.text ELSE relayTurn.text
        /\ turn.tools = IF e.kind = "tool.start"
                        THEN Append(relayTurn.tools, [id |-> e.id, status |-> "pending"])
                        ELSE relayTurn.tools
    BY <1>1, <1>4, <1>6, GatherTyped
  <2>2. CASE e.kind = "reasoning"
    <3>1. Showing(end, e) = end
      BY <2>2 DEF Showing
    <3> QED BY <1>1, <1>2, <1>3, <2>1, <2>2, <3>1
  <2>3. CASE e.kind # "reasoning"
    <3>1. Showing(end, e) = Gather(end, e, "running")
      BY <1>1, <1>6, <2>3 DEF Showing
    <3>2. /\ Showing(end, e).text = IF e.kind = "answer.delta" THEN end.text \o e.text ELSE end.text
          /\ Showing(end, e).tools = IF e.kind = "tool.start"
                        THEN Append(end.tools, [id |-> e.id, status |-> "running"]) ELSE end.tools
          /\ Showing(end, e).reasoning = end.reasoning
      BY <1>4, <2>3, <3>1, GatherTyped
    <3>3. Showing(end, e).tools = OpenRows(turn.tools)
      BY <1>1, <2>1, <3>2, RowsAlike
    <3> QED BY <1>1, <1>2, <1>3, <2>1, <3>2, <3>3
  <2> QED BY <2>2, <2>3
<1> QED BY <1>5, <1>6

\* The events that are left are the same ones.
LEMMA AnswerLeft ==
  ASSUME ViewInv, eventStream # <<>>, eventStream' = Tail(eventStream), answering' = answering,
         answered' = answered, textLost' = textLost
  PROVE  AnswerInv'
<1>1. /\ \A i \in 1 .. Len(Tail(eventStream)) : Tail(eventStream)[i] = eventStream[i + 1]
      /\ Len(eventStream) = Len(Tail(eventStream)) + 1 /\ Len(Tail(eventStream)) \in Nat
      /\ DOMAIN Tail(eventStream) = 1 .. Len(Tail(eventStream)) /\ DOMAIN eventStream = 1 .. Len(eventStream)
  BY ViewNow, HeadTailProperties, LenProperties
<1> DEFINE m == Len(Tail(eventStream))
<1> HIDE DEF m
<1>2. m \in Nat
  BY <1>1 DEF m
<1>3. \A i \in 1 .. m : i + 1 \in 1 .. (m + 1) /\ (i + 1 = m + 1 => i = m)
  BY <1>2
<1>4. ASSUME NEW i \in DOMAIN eventStream', eventStream'[i].kind = "turn.done"
      PROVE  i = Len(eventStream') /\ answering = "over" /\ (textLost \/ eventStream'[i].text \in {<<>>, answered})
  <2>1. i \in 1 .. m /\ eventStream'[i] = eventStream[i + 1] /\ i + 1 \in DOMAIN eventStream
    BY <1>1, <1>3, <1>4 DEF m
  <2>2. i + 1 = Len(eventStream) /\ answering = "over" /\ (textLost \/ eventStream[i + 1].text \in {<<>>, answered})
    BY <1>4, <2>1, ViewNow, SMTT(40) DEF AnswerInv
  <2>3. i = m
    BY <1>1, <1>3, <2>1, <2>2 DEF m
  <2> QED BY <2>1, <2>2, <2>3, SMTT(40) DEF m
<1> QED BY <1>4, ViewNow DEF AnswerInv

\* What RelayEvent does whatever the event is.
LEMMA RelayTakes ==
  ASSUME ViewInv, RelayEvent, NEW e, e = Head(eventStream)
  PROVE  /\ relayAt = "running" /\ eventStream # <<>> /\ eventStream' = Tail(eventStream)
         /\ e \in StreamEvents /\ e \in ShownFrames /\ eventStream' \in Seq(StreamEvents)
         /\ viewFrames' = viewFrames \o FramesOf(e)
         /\ relayTurn' = IF e.kind = "tool.done" THEN GatherDone(relayTurn, e)
                         ELSE Gather(relayTurn, e, "pending")
         /\ runningTools' = runningTools /\ usedTools' = usedTools /\ answered' = answered
         /\ answering' = answering /\ thoughts' = thoughts /\ shownTurn' = shownTurn
         /\ textLost' = textLost /\ stopped' = stopped
         /\ storedTurn = NotStored /\ AnswerInv'
         /\ e.kind # "turn.done" => /\ relayAt' = relayAt /\ storedTurn' = storedTurn
                                    /\ viewFaults' = viewFaults
         /\ e.kind = "turn.done" =>
               /\ relayAt' = "ended"
               /\ \/ storedTurn' = StoredAnswer(e) /\ viewFaults' = viewFaults
                  \/ ViewFault /\ storedTurn' = storedTurn
<1>1. /\ relayAt = "running" /\ eventStream # <<>> /\ eventStream' = Tail(eventStream)
      /\ viewFrames' = viewFrames \o FramesOf(e)
      /\ relayTurn' = IF e.kind = "tool.done" THEN GatherDone(relayTurn, e)
                      ELSE Gather(relayTurn, e, "pending")
      /\ runningTools' = runningTools /\ usedTools' = usedTools /\ answered' = answered
      /\ answering' = answering /\ thoughts' = thoughts /\ shownTurn' = shownTurn
      /\ textLost' = textLost /\ stopped' = stopped
  BY DEF RelayEvent
<1>2. /\ e.kind # "turn.done" => relayAt' = relayAt /\ storedTurn' = storedTurn /\ viewFaults' = viewFaults
      /\ e.kind = "turn.done" =>
            /\ relayAt' = "ended"
            /\ \/ storedTurn' = StoredAnswer(e) /\ viewFaults' = viewFaults
               \/ ViewFault /\ storedTurn' = storedTurn
  BY DEF RelayEvent
<1>3. e \in StreamEvents /\ eventStream' \in Seq(StreamEvents)
  BY <1>1, ViewNow, HeadTailProperties
<1>4. e \in ShownFrames
  BY <1>3 DEF ShownFrames
<1>5. storedTurn = NotStored
  BY <1>1, ViewNow
<1>6. AnswerInv'
  BY <1>1, AnswerLeft
<1> QED BY <1>1, <1>2, <1>3, <1>4, <1>5, <1>6

LEMMA RelayGoesOn ==
  ASSUME ViewInv, RelayEvent, Head(eventStream).kind # "turn.done" PROVE ViewInv'
<1>1. PICK e : e = Head(eventStream)
  OBVIOUS
<1>2. e.kind # "turn.done"
  BY <1>1
<1>3. /\ relayAt = "running" /\ eventStream # <<>> /\ eventStream' = Tail(eventStream)
      /\ e \in StreamEvents /\ e \in ShownFrames /\ eventStream' \in Seq(StreamEvents)
      /\ viewFrames' = viewFrames \o FramesOf(e)
      /\ relayTurn' = IF e.kind = "tool.done" THEN GatherDone(relayTurn, e)
                      ELSE Gather(relayTurn, e, "pending")
      /\ runningTools' = runningTools /\ usedTools' = usedTools /\ answered' = answered
      /\ answering' = answering /\ thoughts' = thoughts /\ shownTurn' = shownTurn
      /\ textLost' = textLost /\ stopped' = stopped /\ relayAt' = relayAt
      /\ storedTurn = NotStored /\ storedTurn' = storedTurn /\ viewFaults' = viewFaults /\ AnswerInv'
  BY <1>1, <1>2, RelayTakes
<1>4. viewFrames' = Append(viewFrames, e) /\ viewFrames' \in Seq(ShownFrames)
  <2>1. FramesOf(e) = <<e>>
    BY <1>2 DEF FramesOf
  <2> QED BY <1>3, <2>1, ViewNow, AppendIsConcat, AppendProperties
<1>5. PICK end \in TurnsWith("running") :
         /\ Reaches(ShowingOf, TurnsWith("running"), shownTurn, viewFrames, end)
         /\ GatheredTill(end)
  BY <1>3, ViewNow DEF SeenInv
<1>6. /\ relayTurn' \in TurnsWith("pending") /\ Showing(end, e) \in TurnsWith("running")
      /\ relayTurn'.text = HearingOf[<<relayTurn.text, e>>]
      /\ Showing(end, e).tools = OpenRows(relayTurn'.tools) /\ Showing(end, e).text = relayTurn'.text
      /\ Showing(end, e).reasoning = 0
  BY <1>2, <1>3, <1>5, GatheredAlike
<1>7. ViewTyped'
  BY <1>3, <1>4, <1>6, ViewNow DEF ViewTyped
<1>8. ViewTypeOK'
  BY <1>3, <1>7, ViewNow, ViewTypes
<1>9. HeardInv'
  <2> SUFFICES ASSUME ~textLost
               PROVE  Reaches(HearingOf, Seq(Pieces), relayTurn'.text, eventStream', answered)
    BY <1>3 DEF HeardInv
  <2>1. Reaches(HearingOf, Seq(Pieces), relayTurn.text, eventStream, answered)
    BY <1>3, ViewNow DEF HeardInv
  <2>2. relayTurn.text \in Seq(Pieces)
    BY ViewNow DEF TurnsWith
  <2>3. Reaches(HearingOf, Seq(Pieces), HearingOf[<<relayTurn.text, Head(eventStream)>>],
                Tail(eventStream), answered)
    BY <1>3, <2>1, <2>2, ViewNow, HearingTyped, ReachesAfter
  <2> QED BY <1>1, <1>3, <1>6, <2>3
<1>10. SeenInv'
  <2>1. Reaches(ShowingOf, TurnsWith("running"), shownTurn', viewFrames', Showing(end, e))
    <3>1. ShowingOf[<<end, e>>] = Showing(end, e)
      BY <1>3, ShowingTyped
    <3> QED BY <1>3, <1>4, <1>5, <3>1, ViewNow, ShowingTyped, ReachesOn, ZenonT(40)
  <2> QED BY <1>3, <1>6, <2>1 DEF SeenInv, GatheredTill
<1>11. TurnEndedInv'
  BY <1>3 DEF TurnEndedInv
<1> QED BY <1>3, <1>7, <1>8, <1>9, <1>10, <1>11 DEF ViewInv

\* The turn ends as its last event says: the reasoning goes before it.
LEMMA RelayEnds ==
  ASSUME ViewInv, RelayEvent, Head(eventStream).kind = "turn.done" PROVE ViewInv'
<1>1. PICK e : e = Head(eventStream)
  OBVIOUS
<1>2. e.kind = "turn.done"
  BY <1>1
<1>3. /\ relayAt = "running" /\ eventStream # <<>> /\ eventStream' = Tail(eventStream)
      /\ e \in StreamEvents /\ e \in ShownFrames /\ eventStream' \in Seq(StreamEvents)
      /\ viewFrames' = viewFrames \o FramesOf(e)
      /\ relayTurn' = Gather(relayTurn, e, "pending")
      /\ runningTools' = runningTools /\ usedTools' = usedTools /\ answered' = answered
      /\ answering' = answering /\ thoughts' = thoughts /\ shownTurn' = shownTurn
      /\ textLost' = textLost /\ stopped' = stopped /\ relayAt' = "ended"
      /\ storedTurn = NotStored /\ AnswerInv'
      /\ \/ storedTurn' = StoredAnswer(e) /\ viewFaults' = viewFaults
         \/ ViewFault /\ storedTurn' = NotStored
  BY <1>1, <1>2, RelayTakes
<1>4. /\ relayTurn \in TurnsWith("pending") /\ relayTurn.reasoning \in Nat /\ relayTurn.text \in Seq(Pieces)
      /\ e.text \in Seq(Pieces) /\ e.status \in {"complete", "error"}
  BY <1>2, <1>3, ViewNow DEF TurnsWith, StreamEvents
<1>5. relayTurn' = relayTurn
  BY <1>2, <1>3 DEF Gather
<1> DEFINE stored == StoredAnswer(e)
<1>6. /\ stored \in TurnsWith("pending") /\ stored # NotStored /\ stored.status = e.status
      /\ stored.tools = relayTurn.tools /\ stored.reasoning = relayTurn.reasoning
      /\ stored.text = IF e.text # <<>> THEN e.text ELSE relayTurn.text
  <2> DEFINE final == IF e.text # <<>> THEN e.text ELSE relayTurn.text
  <2>1. final \in Seq(Pieces)
    BY <1>4
  <2>2. stored = [relayTurn EXCEPT !.status = e.status, !.text = final]
    BY DEF StoredAnswer
  <2> HIDE DEF final, stored
  <2>3. stored = [text |-> final, tools |-> relayTurn.tools, reasoning |-> relayTurn.reasoning,
                  status |-> e.status]
    BY <1>4, <2>2 DEF TurnsWith
  <2>4. stored \in TurnsWith("pending")
    BY <1>4, <2>1, <2>3 DEF TurnsWith
  <2>5. stored.status # "none"
    BY <1>4, <2>3
  <2>6. stored # NotStored
    BY <2>5 DEF NotStored
  <2> QED BY <2>3, <2>4, <2>6 DEF final
<1>7. textLost \/ stored.text = relayTurn.text
  <2> SUFFICES ASSUME ~textLost, e.text # <<>> PROVE e.text = relayTurn.text
    BY <1>6
  <2>1. /\ DOMAIN eventStream = 1 .. Len(eventStream) /\ Len(eventStream) \in Nat \ {0}
        /\ eventStream[1] = e /\ Len(eventStream') = Len(eventStream) - 1
    BY <1>1, <1>3, ViewNow, HeadTailProperties, LenProperties, EmptySeq
  <2>2. 1 \in DOMAIN eventStream
    BY <2>1
  <2>3. Len(eventStream) = 1 /\ e.text \in {<<>>, answered}
    BY <1>2, <2>1, <2>2, ViewNow DEF AnswerInv
  <2>4. Len(eventStream') = 0
    BY <2>1, <2>3
  <2>5. eventStream' = <<>>
    BY <1>3, <2>4, EmptySeq
  <2>6. Reaches(HearingOf, Seq(Pieces), relayTurn.text, eventStream, answered)
    BY <1>3, ViewNow DEF HeardInv
  <2>7. Reaches(HearingOf, Seq(Pieces), HearingOf[<<relayTurn.text, Head(eventStream)>>], Tail(eventStream), answered)
    BY <1>3, <1>4, <2>6, ViewNow, HearingTyped, ReachesAfter
  <2>8. HearingOf[<<relayTurn.text, Head(eventStream)>>] = relayTurn.text
    BY <1>1, <1>2, <1>3, <1>4 DEF HearingOf
  <2>9. Reaches(HearingOf, Seq(Pieces), relayTurn.text, <<>>, answered)
    BY <1>3, <2>5, <2>7, <2>8
  <2>10. answered = relayTurn.text
    BY <1>4, <2>9, ReachesAtOnce
  <2> QED BY <2>3, <2>10
<1>8. PICK end \in TurnsWith("running") :
         /\ Reaches(ShowingOf, TurnsWith("running"), shownTurn, viewFrames, end)
         /\ GatheredTill(end)
  BY <1>3, ViewNow DEF SeenInv
<1> DEFINE r == [kind |-> "reasoning.done", reasoning |-> relayTurn.reasoning]
<1>9. \E mid \in TurnsWith("running"), sent \in Seq(ShownFrames) :
         /\ Reaches(ShowingOf, TurnsWith("running"), shownTurn, sent, mid)
         /\ viewFrames' = Append(sent, e)
         /\ mid.tools = end.tools /\ mid.text = end.text /\ mid.reasoning = relayTurn.reasoning
  <2>1. CASE relayTurn.reasoning > 0
    <3>1. r \in ShownFrames /\ r.kind = "reasoning.done" /\ r.reasoning = relayTurn.reasoning
      BY <1>4 DEF ShownFrames, ReasoningFrames
    <3>2. viewFrames' = viewFrames \o <<r, e>>
      BY <1>2, <1>3, <2>1 DEF FramesOf
    <3> HIDE DEF r
    <3>3. viewFrames' = Append(Append(viewFrames, r), e) /\ Append(viewFrames, r) \in Seq(ShownFrames)
      <4>1. <<r, e>> = Append(<<r>>, e) /\ <<r>> \in Seq(ShownFrames)
        BY <1>3, <3>1
      <4>2. Append(<<r>>, e) = <<r>> \o <<e>> /\ <<e>> \in Seq(ShownFrames)
        BY <1>3, <4>1, AppendIsConcat
      <4>3. viewFrames \o (<<r>> \o <<e>>) = (viewFrames \o <<r>>) \o <<e>>
        BY <4>1, <4>2, ViewNow, ConcatAssociative, SMTT(30)
      <4>4. viewFrames \o <<r>> = Append(viewFrames, r) /\ Append(viewFrames, r) \in Seq(ShownFrames)
        BY <3>1, ViewNow, AppendIsConcat, AppendProperties
      <4>5. Append(viewFrames, r) \o <<e>> = Append(Append(viewFrames, r), e)
        BY <1>3, <4>4, AppendIsConcat
      <4> QED BY <3>2, <4>1, <4>2, <4>3, <4>4, <4>5
    <3> DEFINE mid == ShowingOf[<<end, r>>]
    <3>4. mid = [end EXCEPT !.reasoning = relayTurn.reasoning] /\ mid \in TurnsWith("running")
      BY <3>1, ShowingTyped DEF Showing
    <3>5. mid.tools = end.tools /\ mid.text = end.text /\ mid.reasoning = relayTurn.reasoning
      BY <3>4 DEF TurnsWith
    <3>6. Reaches(ShowingOf, TurnsWith("running"), shownTurn, Append(viewFrames, r), mid)
      BY <1>8, <3>1, ViewNow, ShowingTyped, ReachesOn
    <3> HIDE DEF mid
    <3> QED BY <3>3, <3>4, <3>5, <3>6
  <2>2. CASE ~(relayTurn.reasoning > 0)
    <3>1. relayTurn.reasoning = 0
      BY <1>4, <2>2
    <3>2. viewFrames' = viewFrames \o <<e>>
      BY <1>3, <2>2 DEF FramesOf
    <3>3. viewFrames' = Append(viewFrames, e)
      BY <1>3, <3>2, ViewNow, AppendIsConcat
    <3> QED BY <1>8, <3>1, <3>3, ViewNow DEF GatheredTill
  <2> QED BY <2>1, <2>2
<1>10. PICK mid \in TurnsWith("running"), sent \in Seq(ShownFrames) :
         /\ Reaches(ShowingOf, TurnsWith("running"), shownTurn, sent, mid)
         /\ viewFrames' = Append(sent, e)
         /\ mid.tools = end.tools /\ mid.text = end.text /\ mid.reasoning = relayTurn.reasoning
  BY <1>9
<1> DEFINE new == ShowingOf[<<mid, e>>]
<1>11. new = [mid EXCEPT !.status = e.status] /\ new \in TurnsWith("running")
  BY <1>2, <1>3, ShowingTyped DEF Showing
<1>12. /\ new.tools = end.tools /\ new.text = end.text /\ new.reasoning = relayTurn.reasoning
       /\ new.status = e.status
  BY <1>10, <1>11 DEF TurnsWith
<1>13. Reaches(ShowingOf, TurnsWith("running"), shownTurn, Append(sent, e), new)
  BY <1>3, <1>10, ViewNow, ShowingTyped, ReachesOn
<1>14. viewFrames' \in Seq(ShownFrames)
  BY <1>3, <1>10, AppendProperties
<1> HIDE DEF new, stored
<1>15. Kept(new, stored, stopped, textLost)
  BY <1>6, <1>7, <1>8, <1>12 DEF Kept, GatheredTill
<1>16. storedTurn' \in {stored, NotStored} /\ viewFaults' \in 0 .. MaxViewFaults
  BY <1>3, ViewNow, FaultCounted DEF stored
<1>17. ViewTyped'
  BY <1>3, <1>5, <1>6, <1>14, <1>16, ViewNow DEF ViewTyped
<1>18. ViewTypeOK'
  BY <1>3, <1>4, <1>6, <1>16, <1>17, ViewNow, ViewTypes
<1>19. HeardInv' /\ TurnEndedInv'
  BY <1>3 DEF HeardInv, TurnEndedInv
<1>20. SeenInv'
  <2>1. storedTurn' # NotStored => Kept(new, storedTurn', stopped', textLost')
    BY <1>3, <1>15, <1>16
  <2> QED BY <1>3, <1>10, <1>11, <1>13, <2>1 DEF SeenInv
<1> QED BY <1>3, <1>17, <1>18, <1>19, <1>20 DEF ViewInv

LEMMA ViewStarts == ASSUME ViewInit PROVE ViewInv
<1>1. /\ runningTools = {} /\ usedTools = {} /\ answered = <<>> /\ answering = "no"
      /\ thoughts = 0 /\ eventStream = <<>> /\ relayAt = "running" /\ relayTurn = EmptyTurn
      /\ viewFrames = <<>> /\ shownTurn = EmptyTurn /\ storedTurn = NotStored
      /\ textLost = FALSE /\ stopped = FALSE /\ viewFaults = 0
  BY DEF ViewInit
<1>2. /\ <<>> \in Seq(Pieces) /\ <<>> \in ToolRows("pending") /\ <<>> \in ToolRows("running")
      /\ <<>> \in Seq(StreamEvents) /\ <<>> \in Seq(ShownFrames) /\ DOMAIN <<>> = {}
  BY EmptySeq DEF ToolRows
<1>3. /\ EmptyTurn \in TurnsWith("pending") /\ EmptyTurn \in TurnsWith("running")
      /\ EmptyTurn.tools = <<>> /\ EmptyTurn.text = <<>> /\ EmptyTurn.reasoning = 0
      /\ EmptyTurn.status = "streaming"
  BY <1>2 DEF EmptyTurn, TurnsWith, NoTools
<1>4. 0 \in 0 .. MaxThoughts /\ 0 \in 0 .. MaxViewFaults
  BY ViewAssumption
<1>5. ViewTyped
  BY <1>1, <1>2, <1>3 DEF ViewTyped
<1>6. ViewTypeOK
  BY <1>1, <1>2, <1>3, <1>4 DEF ViewTypeOK
<1>7. AnswerInv /\ TurnEndedInv
  BY <1>1, <1>2 DEF AnswerInv, TurnEndedInv
<1>8. HeardInv
  <2>1. Reaches(HearingOf, Seq(Pieces), <<>>, <<>>, <<>>)
    BY <1>2, ReachesAtOnce
  <2> QED BY <1>1, <1>3, <2>1 DEF HeardInv
<1>9. SeenInv
  <2>1. Reaches(ShowingOf, TurnsWith("running"), EmptyTurn, <<>>, EmptyTurn)
    BY <1>3, ReachesAtOnce
  <2>2. OpenRows(<<>>) = <<>>
    BY DEF OpenRows
  <2>3. GatheredTill(EmptyTurn)
    BY <1>1, <1>3, <2>2 DEF GatheredTill
  <2> QED BY <1>1, <1>3, <2>1, <2>3 DEF SeenInv
<1> QED BY <1>5, <1>6, <1>7, <1>8, <1>9 DEF ViewInv

LEMMA ViewStepKeeps == ASSUME ViewInv, [ViewNext]_viewVars PROVE ViewInv'
<1>1. CASE \/ Think \/ \E id \in ToolIds : ToolStarts(id) \/ ToolEnds(id, "done") \/ ToolEnds(id, "error")
           \/ AnswerChunk \/ AnswerWhole
  BY <1>1, TellingKeeps
<1>2. CASE \/ \E status \in {"complete", "error"} : AnswerEnds(status) \/ AnswerBreaks(status)
           \/ TaskRaises
  BY <1>2, EndingKeeps
<1>3. CASE RelayEvent
  BY <1>3, RelayGoesOn, RelayEnds
<1>4. CASE StopTurn
  BY <1>4, StopKeeps
<1>5. CASE LoseConnection
  BY <1>5, LosingKeeps
<1>6. CASE ShowRow
  BY <1>6, ShowRowKeeps
<1>7. CASE UNCHANGED viewVars
  BY <1>7 DEF viewVars, ViewInv, ViewTypeOK, ViewTyped, AnswerInv, HeardInv, SeenInv,
     TurnEndedInv, GatheredTill
<1> QED BY <1>1, <1>2, <1>3, <1>4, <1>5, <1>6, <1>7 DEF ViewNext

\* With no frame on its way the turn that is shown is the one the relay stored.
LEMMA SeenIsStored == ASSUME ViewInv PROVE StoredIsShown
<1> SUFFICES ASSUME storedTurn # NotStored, viewFrames = <<>>
             PROVE  /\ Len(storedTurn.tools) = Len(shownTurn.tools)
                    /\ \A i \in DOMAIN storedTurn.tools :
                          shownTurn.tools[i] = [storedTurn.tools[i] EXCEPT !.status =
                                                    IF @ = "pending" THEN "running" ELSE @]
                    /\ storedTurn.reasoning = shownTurn.reasoning
                    /\ stopped \/ storedTurn.status = shownTurn.status
                    /\ textLost \/ storedTurn.text = shownTurn.text
  BY DEF StoredIsShown
<1>1. PICK end \in TurnsWith("running") :
         /\ Reaches(ShowingOf, TurnsWith("running"), shownTurn, <<>>, end)
         /\ Kept(end, storedTurn, stopped, textLost)
  BY ViewNow DEF SeenInv
<1>2. end = shownTurn
  BY <1>1, ViewNow, ReachesAtOnce
<1>3. /\ shownTurn.tools = OpenRows(storedTurn.tools) /\ storedTurn.reasoning = shownTurn.reasoning
      /\ (stopped \/ storedTurn.status = shownTurn.status) /\ (textLost \/ storedTurn.text = shownTurn.text)
  BY <1>1, <1>2 DEF Kept
<1>4. storedTurn.tools \in ToolRows("pending") /\ shownTurn.tools \in ToolRows("running")
  BY ViewNow DEF TurnsWith
<1>5. DOMAIN shownTurn.tools = DOMAIN storedTurn.tools
  BY <1>3, <1>4, RowsAlike
<1>6. Len(storedTurn.tools) = Len(shownTurn.tools)
  <2>1. /\ DOMAIN storedTurn.tools = 1 .. Len(storedTurn.tools) /\ Len(storedTurn.tools) \in Nat
        /\ DOMAIN shownTurn.tools = 1 .. Len(shownTurn.tools) /\ Len(shownTurn.tools) \in Nat
    BY <1>4, LenProperties DEF ToolRows
  <2>2. \A m, n \in Nat : 1 .. m = 1 .. n => m = n
    <3> TAKE m, n \in Nat
    <3>1. m = 0 \/ m \in 1 .. m
      OBVIOUS
    <3>2. n = 0 \/ n \in 1 .. n
      OBVIOUS
    <3> QED BY <3>1, <3>2
  <2> QED BY <1>5, <2>1, <2>2
<1>7. \A i \in DOMAIN storedTurn.tools :
         shownTurn.tools[i] = [storedTurn.tools[i] EXCEPT !.status = IF @ = "pending" THEN "running" ELSE @]
  BY <1>3 DEF OpenRows
<1> QED BY <1>3, <1>6, <1>7

\* The turn the gateway stores and the one the client shows are gathered apart from each other and end
\* up the same, however many tools, chunks and frames there are on their way (server.py's _relay_task,
\* useLabmateWS.ts's reducer).
THEOREM StoredTurnsAreShown == ViewSpec => [](ViewTypeOK /\ StoredIsShown)
<1>1. ViewInit => ViewInv
  BY ViewStarts
<1>2. ViewInv /\ [ViewNext]_viewVars => ViewInv'
  BY ViewStepKeeps
<1>3. ViewInv => ViewTypeOK /\ StoredIsShown
  BY SeenIsStored DEF ViewInv
<1> QED BY <1>1, <1>2, <1>3, PTL DEF ViewSpec

-----------------------------------------------------------------------------
(* ModelCalls: what of a conversation is in the messages that were         *)
(* repaired so far.                                                        *)

Sent == [role : Roles, calls : SUBSET CallIds, parts : Seq(Nat)]
Stays(messages, k) == {i \in 1 .. k : ~Orphan(messages, i)}

\* The messages that stay of the first k.
Paired(out, messages, k) ==
    /\ out \in Seq(Sent)
    /\ \A i \in 1 .. Len(out) : \E j \in Stays(messages, k) :
           out[i] = Whole(messages, j)
    /\ \A j \in Stays(messages, k) : \E i \in 1 .. Len(out) : out[i] = Whole(messages, j)
    /\ \A i, l \in 1 .. Len(out) : i < l => out[i].parts[1] < out[l].parts[1]

\* Each message is made of texts of its own role, all that are given, in their order.
TextsKept(out, messages, given) ==
    /\ \A i \in 1 .. Len(out) :
           /\ out[i].parts # <<>>
           /\ \A p \in 1 .. Len(out[i].parts) :
                  /\ out[i].parts[p] \in given
                  /\ messages[out[i].parts[p]].role = out[i].role
                  /\ messages[out[i].parts[p]].calls = out[i].calls
    /\ \A j \in given : \E i \in 1 .. Len(out) : \E p \in 1 .. Len(out[i].parts) :
           out[i].parts[p] = j

TextsOrdered(out) ==
    \A i, k \in 1 .. Len(out) : \A p \in 1 .. Len(out[i].parts), q \in 1 .. Len(out[k].parts) :
        i < k \/ (i = k /\ p < q) => out[i].parts[p] < out[k].parts[q]

Merged(out, messages, given) ==
    /\ out \in Seq(Sent) /\ TextsKept(out, messages, given) /\ TextsOrdered(out)
    /\ \A i \in 1 .. (Len(out) - 1) : ~Mergeable(out[i], out[i + 1])

RepairInv ==
    /\ conv \in Seq(Messages) /\ isStreamed \in BOOLEAN
    /\ deltas \in 0 .. MaxChunks /\ doneText \in 0 .. NoText
    /\ callOutcome \in {"none", "answered", "assembled", "refused", "exhausted"}
    /\ callAt # "repaired" => toModel = <<>>
    /\ callAt = "repaired" => Merged(toModel, conv, Stays(conv, Len(conv)))

\* A message of a conversation is one that can be sent, made of its own text.
LEMMA WholeIsSent ==
  ASSUME NEW messages \in Seq(Messages), NEW j \in 1 .. Len(messages)
  PROVE  /\ Whole(messages, j) \in Sent
         /\ Whole(messages, j).role = messages[j].role
         /\ Whole(messages, j).calls = messages[j].calls
         /\ Whole(messages, j).parts = <<j>>
         /\ Len(Whole(messages, j).parts) = 1 /\ Whole(messages, j).parts[1] = j
         /\ messages[j] \in Messages
<1>1. messages[j] \in Messages
  BY ElementOfSeq
<1>2. messages[j].role \in Roles /\ messages[j].calls \in SUBSET CallIds
  BY <1>1 DEF Messages
<1>3. j \in Nat /\ <<j>> \in Seq(Nat)
  <2>1. Len(messages) \in Nat
    BY LenProperties
  <2> QED BY <2>1
<1>4. Len(<<j>>) = 1 /\ <<j>>[1] = j
  OBVIOUS
<1> QED BY <1>1, <1>2, <1>3, <1>4 DEF Whole, Sent

\* Only the texts are replaced.
LEMMA PartsReplaced ==
  ASSUME NEW role, NEW calls, NEW parts, NEW texts, NEW n,
         n = [role |-> role, calls |-> calls, parts |-> parts]
  PROVE  [n EXCEPT !.parts = texts] = [role |-> role, calls |-> calls, parts |-> texts]
OBVIOUS

\* A message with more texts.
LEMMA MoreTexts ==
  ASSUME NEW n \in Sent, NEW more \in Seq(Nat)
  PROVE  /\ [n EXCEPT !.parts = @ \o more] \in Sent
         /\ [n EXCEPT !.parts = @ \o more].role = n.role
         /\ [n EXCEPT !.parts = @ \o more].calls = n.calls
         /\ [n EXCEPT !.parts = @ \o more].parts = n.parts \o more
<1>1. n = [role |-> n.role, calls |-> n.calls, parts |-> n.parts]
  BY DEF Sent
<1>2. n.role \in Roles /\ n.calls \in SUBSET CallIds /\ n.parts \in Seq(Nat)
  BY DEF Sent
<1>3. n.parts \o more \in Seq(Nat)
  BY <1>2
<1>4. [n EXCEPT !.parts = @ \o more] =
          [role |-> n.role, calls |-> n.calls, parts |-> n.parts \o more]
  <2> DEFINE texts == n.parts \o more
  <2>1. [n EXCEPT !.parts = texts] = [role |-> n.role, calls |-> n.calls, parts |-> texts]
    <3> HIDE DEF texts
    <3> QED BY <1>1, PartsReplaced
  <2> QED BY <2>1
<1> QED BY <1>2, <1>3, <1>4 DEF Sent

\* What of its role and calls makes two messages one.
LEMMA MergedAlike ==
  ASSUME NEW m \in Messages, NEW n, m.role = n.role, m.calls = n.calls, NEW r, Mergeable(n, r),
         r.role = "user" => r.calls = {}
  PROVE  n.role = r.role /\ n.calls = r.calls
<1>1. m.role = "user" => m.calls = {}
  BY DEF Messages
<1> QED BY <1>1 DEF Mergeable, PlainAssistant

\* Adding a later message that does not join the last.
LEMMA AddedKeeps ==
  ASSUME NEW messages \in Seq(Messages), NEW j \in 1 .. Len(messages),
         NEW given \in SUBSET (1 .. (j - 1)), NEW out, Merged(out, messages, given),
         out # <<>> => ~Mergeable(out[Len(out)], Whole(messages, j))
  PROVE  Merged(Append(out, Whole(messages, j)), messages, given \union {j})
<1> DEFINE m == Whole(messages, j)
           more == Append(out, m)
           l == Len(out)
<1>1. out \in Seq(Sent) /\ l \in Nat /\ (l = 0 => out = <<>>)
  BY LenProperties, EmptySeq DEF Merged
<1>2. /\ m \in Sent /\ m.role = messages[j].role /\ m.calls = messages[j].calls
      /\ Len(m.parts) = 1 /\ m.parts[1] = j /\ m.parts # <<>>
  BY WholeIsSent
<1>3. /\ more \in Seq(Sent) /\ Len(more) = l + 1 /\ more[l + 1] = m
      /\ \A i \in 1 .. l : more[i] = out[i]
  BY <1>1, <1>2, AppendProperties
<1> HIDE DEF more, m
<1>4. TextsKept(out, messages, given) /\ TextsOrdered(out)
      /\ \A i \in 1 .. (l - 1) : ~Mergeable(out[i], out[i + 1])
  BY DEF Merged
<1>5. TextsKept(more, messages, given \union {j})
  <2>1. ASSUME NEW i \in 1 .. Len(more)
        PROVE  /\ more[i].parts # <<>>
               /\ \A p \in 1 .. Len(more[i].parts) :
                      /\ more[i].parts[p] \in given \union {j}
                      /\ messages[more[i].parts[p]].role = more[i].role
                      /\ messages[more[i].parts[p]].calls = more[i].calls
    <3>1. CASE i \in 1 .. l
      BY <1>3, <1>4, <3>1 DEF TextsKept
    <3>2. CASE i = l + 1
      <4>1. \A p \in 1 .. Len(m.parts) : m.parts[p] = j
        BY <1>2
      <4> QED BY <1>2, <1>3, <3>2, <4>1
    <3> QED BY <1>1, <1>3, <3>1, <3>2
  <2>2. ASSUME NEW g \in given \union {j}
        PROVE  \E i \in 1 .. Len(more) : \E p \in 1 .. Len(more[i].parts) : more[i].parts[p] = g
    <3>1. CASE g = j
      <4>1. l + 1 \in 1 .. Len(more) /\ Len(more[l + 1].parts) = 1 /\ more[l + 1].parts[1] = j
        BY <1>1, <1>2, <1>3
      <4>2. 1 \in 1 .. Len(more[l + 1].parts)
        BY <4>1
      <4> QED BY <3>1, <4>1, <4>2
    <3>2. CASE g \in given
      <4>1. PICK i \in 1 .. l : \E p \in 1 .. Len(out[i].parts) : out[i].parts[p] = g
        BY <1>4, <3>2 DEF TextsKept
      <4>2. i \in 1 .. Len(more) /\ more[i] = out[i]
        BY <1>1, <1>3, <4>1
      <4> QED BY <4>1, <4>2
    <3> QED BY <3>1, <3>2
  <2> QED BY <2>1, <2>2 DEF TextsKept
<1>6. TextsOrdered(more)
  <2> SUFFICES ASSUME NEW i \in 1 .. Len(more), NEW k \in 1 .. Len(more),
                      NEW p \in 1 .. Len(more[i].parts), NEW q \in 1 .. Len(more[k].parts),
                      i < k \/ (i = k /\ p < q)
               PROVE  more[i].parts[p] < more[k].parts[q]
    BY DEF TextsOrdered
  <2>1. i \in 1 .. l \/ i = l + 1
    BY <1>1, <1>3
  <2>2. k \in 1 .. l \/ k = l + 1
    BY <1>1, <1>3
  <2>3. CASE k \in 1 .. l
    <3>1. i \in 1 .. l
      BY <1>1, <1>3, <2>3
    <3> QED BY <1>3, <1>4, <2>3, <3>1 DEF TextsOrdered
  <2>4. CASE k = l + 1 /\ i \in 1 .. l
    <3>1. more[i].parts[p] \in given
      BY <1>3, <1>4, <2>4 DEF TextsKept
    <3>2. more[k].parts[q] = j
      BY <1>2, <1>3, <2>4
    <3>3. \A g \in given : g < j
      OBVIOUS
    <3> QED BY <3>1, <3>2, <3>3
  <2>5. CASE k = l + 1 /\ i = l + 1
    <3>1. Len(more[i].parts) = 1 /\ Len(more[k].parts) = 1
      BY <1>2, <1>3, <2>5
    <3>2. p = 1 /\ q = 1
      BY <3>1
    <3> QED BY <1>1, <2>5, <3>2
  <2> QED BY <2>1, <2>2, <2>3, <2>4, <2>5
<1>7. ASSUME NEW i \in 1 .. (Len(more) - 1) PROVE ~Mergeable(more[i], more[i + 1])
  <2>1. CASE i < l
    <3>1. i \in 1 .. (l - 1) /\ i \in 1 .. l /\ i + 1 \in 1 .. l
      BY <1>1, <2>1
    <3>2. more[i] = out[i] /\ more[i + 1] = out[i + 1]
      BY <1>3, <3>1
    <3> QED BY <1>4, <3>1, <3>2
  <2>2. CASE i = l
    <3>1. out # <<>>
      BY <1>1, <2>2
    <3>2. more[i] = out[l] /\ more[i + 1] = m
      BY <1>1, <1>3, <2>2
    <3>3. ~Mergeable(out[l], m)
      BY <3>1 DEF m
    <3> QED BY <3>2, <3>3
  <2> QED BY <1>1, <1>3, <2>1, <2>2
<1>8. Merged(more, messages, given \union {j})
  BY <1>3, <1>5, <1>6, <1>7 DEF Merged
<1> QED BY <1>8 DEF more, m

\* Joining a later message to the last one.
LEMMA JoinedKeeps ==
  ASSUME NEW messages \in Seq(Messages), NEW j \in 1 .. Len(messages),
         NEW given \in SUBSET (1 .. (j - 1)), NEW out, Merged(out, messages, given),
         out # <<>>, Mergeable(out[Len(out)], Whole(messages, j)),
         given \subseteq 1 .. Len(messages)
  PROVE  Merged(MergeInto(out, Whole(messages, j)), messages, given \union {j})
<1> DEFINE m == Whole(messages, j)
           l == Len(out)
           last == [out[l] EXCEPT !.parts = @ \o m.parts]
           more == Append(Front(out), last)
<1>1. out \in Seq(Sent) /\ l \in Nat /\ l > 0
  BY LenProperties, EmptySeq DEF Merged
<1>2. /\ m \in Sent /\ m.role = messages[j].role /\ m.calls = messages[j].calls
      /\ m.parts = <<j>> /\ messages[j] \in Messages
  BY WholeIsSent
<1>3. out[l] \in Sent
  BY <1>1, ElementOfSeq
<1>4. TextsKept(out, messages, given) /\ TextsOrdered(out)
      /\ \A i \in 1 .. (l - 1) : ~Mergeable(out[i], out[i + 1])
  BY DEF Merged
<1>5. out[l].role = m.role /\ out[l].calls = m.calls
  <2>1. l \in 1 .. l /\ out[l].parts \in Seq(Nat)
    BY <1>1, <1>3 DEF Sent
  <2>2. out[l].parts # <<>>
    BY <1>4, <2>1 DEF TextsKept
  <2>3. 1 \in 1 .. Len(out[l].parts)
    BY <2>1, <2>2, LenProperties, EmptySeq
  <2>4. PICK g \in given : messages[g].role = out[l].role /\ messages[g].calls = out[l].calls
    BY <1>4, <2>1, <2>3 DEF TextsKept
  <2>5. messages[g] \in Messages
    BY <2>4, ElementOfSeq
  <2>6. m.role = "user" => m.calls = {}
    BY <1>2 DEF Messages
  <2> HIDE DEF m
  <2> QED BY <2>4, <2>5, <2>6, MergedAlike DEF m
<1>6. /\ last \in Sent /\ last.role = out[l].role /\ last.calls = out[l].calls
      /\ last.parts = Append(out[l].parts, j)
  <2>1. out[l].parts \in Seq(Nat) /\ j \in Nat
    BY <1>3, LenProperties DEF Sent
  <2>2. out[l].parts \o <<j>> = Append(out[l].parts, j) /\ out[l].parts \o <<j>> \in Seq(Nat)
    BY <2>1
  <2>3. m.parts \in Seq(Nat)
    BY <1>2, <2>1
  <2>4. /\ last \in Sent /\ last.role = out[l].role /\ last.calls = out[l].calls
        /\ last.parts = out[l].parts \o m.parts
    <3> HIDE DEF m
    <3> QED BY <1>3, <2>3, MoreTexts
  <2> HIDE DEF last
  <2> QED BY <1>2, <2>2, <2>4
<1> DEFINE n == Len(out[l].parts)
<1>7. /\ n \in Nat /\ Len(last.parts) = n + 1 /\ last.parts[n + 1] = j
      /\ \A p \in 1 .. n : last.parts[p] = out[l].parts[p]
  <2>1. out[l].parts \in Seq(Nat) /\ j \in Nat
    BY <1>3, LenProperties DEF Sent
  <2> HIDE DEF last
  <2> QED BY <1>6, <2>1, AppendProperties, LenProperties
<1> HIDE DEF last, n
<1>8. /\ more \in Seq(Sent) /\ Len(more) = l /\ more[l] = last
      /\ \A i \in 1 .. (l - 1) : more[i] = out[i]
  <2>1. /\ Front(out) \in Seq(Sent) /\ Len(Front(out)) = l - 1
        /\ \A i \in 1 .. (l - 1) : Front(out)[i] = out[i]
    <3>1. /\ 1 \in Int /\ l - 1 \in Int /\ l - 1 - 1 + 1 = l - 1
          /\ (IF 1 <= l - 1 THEN l - 1 - 1 + 1 ELSE 0) = l - 1
      BY <1>1
    <3>2. \A i \in 1 .. (l - 1) : out[i] \in Sent
      BY <1>1, ElementOfSeq
    <3>3. \A i \in 1 .. (l - 1) : 1 + i - 1 = i
      BY <1>1
    <3>4. /\ Front(out) \in Seq(Sent) /\ Len(Front(out)) = l - 1
          /\ \A i \in 1 .. (l - 1) : Front(out)[i] = out[1 + i - 1]
      BY <3>1, <3>2, SubSeqProperties DEF Front
    <3> QED BY <3>3, <3>4
  <2>2. l - 1 + 1 = l
    BY <1>1
  <2> QED BY <1>6, <2>1, <2>2, AppendProperties
<1>9. MergeInto(out, m) = more
  BY <1>1 DEF MergeInto, Last, last
<1> HIDE DEF more, m
<1>10. TextsKept(more, messages, given \union {j})
  <2>1. ASSUME NEW i \in 1 .. Len(more)
        PROVE  /\ more[i].parts # <<>>
               /\ \A p \in 1 .. Len(more[i].parts) :
                      /\ more[i].parts[p] \in given \union {j}
                      /\ messages[more[i].parts[p]].role = more[i].role
                      /\ messages[more[i].parts[p]].calls = more[i].calls
    <3>1. CASE i \in 1 .. (l - 1)
      <4>1. i \in 1 .. l /\ more[i] = out[i]
        BY <1>1, <1>8, <3>1
      <4> QED BY <1>4, <4>1 DEF TextsKept
    <3>2. CASE i = l
      <4>1. last.parts # <<>>
        <5>1. Len(last.parts) # 0
          BY <1>7
        <5> QED BY <5>1, EmptySeq
      <4>2. ASSUME NEW p \in 1 .. Len(last.parts)
            PROVE  /\ last.parts[p] \in given \union {j}
                   /\ messages[last.parts[p]].role = last.role
                   /\ messages[last.parts[p]].calls = last.calls
        <5>1. CASE p \in 1 .. n
          <6>1. l \in 1 .. l
            BY <1>1
          <6> QED BY <1>4, <1>6, <1>7, <5>1, <6>1 DEF TextsKept, n
        <5>2. CASE p = n + 1
          BY <1>2, <1>5, <1>6, <1>7, <5>2
        <5> QED BY <1>7, <5>1, <5>2
      <4> QED BY <1>8, <3>2, <4>1, <4>2
    <3> QED BY <1>1, <1>8, <3>1, <3>2
  <2>2. ASSUME NEW g \in given \union {j}
        PROVE  \E i \in 1 .. Len(more) : \E p \in 1 .. Len(more[i].parts) : more[i].parts[p] = g
    <3>1. CASE g = j
      <4>1. l \in 1 .. Len(more) /\ n + 1 \in 1 .. Len(more[l].parts) /\ more[l].parts[n + 1] = j
        BY <1>1, <1>7, <1>8
      <4> QED BY <3>1, <4>1
    <3>2. CASE g \in given
      <4>1. PICK i \in 1 .. l : \E p \in 1 .. Len(out[i].parts) : out[i].parts[p] = g
        BY <1>4, <3>2 DEF TextsKept
      <4>2. PICK p \in 1 .. Len(out[i].parts) : out[i].parts[p] = g
        BY <4>1
      <4>3. CASE i = l
        <5>1. p \in 1 .. Len(more[i].parts) /\ more[i].parts[p] = g
          BY <1>7, <1>8, <4>2, <4>3 DEF n
        <5> QED BY <1>8, <4>1, <5>1
      <4>4. CASE i # l
        <5>1. i \in 1 .. (l - 1)
          BY <1>1, <4>1, <4>4
        <5>2. more[i] = out[i]
          BY <1>8, <5>1
        <5> QED BY <1>8, <4>1, <4>2, <5>2
      <4> QED BY <4>3, <4>4
    <3> QED BY <3>1, <3>2
  <2> QED BY <2>1, <2>2 DEF TextsKept
<1>11. TextsOrdered(more)
  <2> SUFFICES ASSUME NEW i \in 1 .. Len(more), NEW k \in 1 .. Len(more),
                      NEW p \in 1 .. Len(more[i].parts), NEW q \in 1 .. Len(more[k].parts),
                      i < k \/ (i = k /\ p < q)
               PROVE  more[i].parts[p] < more[k].parts[q]
    BY DEF TextsOrdered
  <2>1. ASSUME NEW h \in 1 .. l, NEW r \in 1 .. Len(more[h].parts), h # l \/ r # n + 1
        PROVE  r \in 1 .. Len(out[h].parts) /\ more[h].parts[r] = out[h].parts[r]
    <3>1. CASE h = l
      <4>1. r \in 1 .. n
        BY <1>7, <1>8, <2>1, <3>1
      <4> QED BY <1>7, <1>8, <3>1, <4>1 DEF n
    <3>2. CASE h # l
      <4>1. h \in 1 .. (l - 1)
        BY <1>1, <3>2
      <4> QED BY <1>8, <4>1
    <3> QED BY <3>1, <3>2
  <2>2. i \in 1 .. l /\ k \in 1 .. l
    BY <1>8
  <2>3. i # l \/ p # n + 1
    <3> SUFFICES ASSUME i = l, p = n + 1 PROVE FALSE
      OBVIOUS
    <3>1. k = l /\ q \in 1 .. (n + 1)
      BY <1>1, <1>7, <1>8, <2>2
    <3> QED BY <1>7, <3>1
  <2>4. p \in 1 .. Len(out[i].parts) /\ more[i].parts[p] = out[i].parts[p]
    BY <2>1, <2>2, <2>3
  <2>5. CASE k = l /\ q = n + 1
    <3>1. out[i].parts[p] \in given
      BY <1>4, <2>2, <2>4 DEF TextsKept
    <3>2. more[k].parts[q] = j
      BY <1>7, <1>8, <2>5
    <3>3. \A g \in given : g < j
      OBVIOUS
    <3> QED BY <2>4, <3>1, <3>2, <3>3
  <2>6. CASE ~(k = l /\ q = n + 1)
    <3>1. q \in 1 .. Len(out[k].parts) /\ more[k].parts[q] = out[k].parts[q]
      BY <2>1, <2>2, <2>6
    <3> QED BY <1>4, <2>2, <2>4, <3>1 DEF TextsOrdered
  <2> QED BY <2>5, <2>6
<1>12. ASSUME NEW i \in 1 .. (Len(more) - 1) PROVE ~Mergeable(more[i], more[i + 1])
  <2>1. i \in 1 .. (l - 1) /\ i + 1 \in 1 .. l
    BY <1>1, <1>8
  <2>2. more[i] = out[i] /\ ~Mergeable(out[i], out[i + 1])
    BY <1>4, <1>8, <2>1
  <2>3. more[i + 1].role = out[i + 1].role /\ more[i + 1].calls = out[i + 1].calls
    <3>1. CASE i + 1 = l
      BY <1>6, <1>8, <3>1
    <3>2. CASE i + 1 \in 1 .. (l - 1)
      BY <1>8, <3>2
    <3> QED BY <1>1, <2>1, <3>1, <3>2
  <2> QED BY <2>2, <2>3 DEF Mergeable, PlainAssistant
<1>13. Merged(more, messages, given \union {j})
  BY <1>8, <1>10, <1>11, <1>12 DEF Merged
<1> QED BY <1>9, <1>13 DEF m

\* One message is joined or added.
LEMMA MergeKeeps ==
  ASSUME NEW messages \in Seq(Messages), NEW j \in 1 .. Len(messages),
         NEW given \in SUBSET (1 .. (j - 1)), NEW out, Merged(out, messages, given)
  PROVE  Merged(MergeInto(out, Whole(messages, j)), messages, given \union {j})
<1>1. given \subseteq 1 .. Len(messages) /\ Last(out) = out[Len(out)]
  BY LenProperties DEF Last
<1>2. CASE out # <<>> /\ Mergeable(out[Len(out)], Whole(messages, j))
  BY <1>1, <1>2, JoinedKeeps
<1>3. CASE ~(out # <<>> /\ Mergeable(out[Len(out)], Whole(messages, j)))
  <2>1. Merged(Append(out, Whole(messages, j)), messages, given \union {j})
    BY <1>3, AddedKeeps
  <2>2. MergeInto(out, Whole(messages, j)) = Append(out, Whole(messages, j))
    BY <1>1, <1>3 DEF MergeInto
  <2> QED BY <2>1, <2>2
<1> QED BY <1>2, <1>3

\* The runs of messages that stay are merged, whatever their number.
LEMMA AdjacentMerged ==
  ASSUME NEW messages \in Seq(Messages), NEW stage,
         Paired(stage, messages, Len(messages))
  PROVE  Merged(MergeAdjacent(stage), messages, Stays(messages, Len(messages)))
<1> DEFINE n == Len(stage)
           V == Seq(Sent)
           step == [p \in (1 .. n) \X V |-> MergeInto(p[2], stage[p[1]])]
           own(i) == stage[i].parts[1]
           taken(k) == {own(i) : i \in 1 .. k}
<1>1. /\ stage \in Seq(Sent) /\ n \in Nat /\ DOMAIN stage = 1 .. n
      /\ \A i \in 1 .. n : stage[i] \in Sent
  BY LenProperties, ElementOfSeq DEF Paired
<1>2. \A i \in 1 .. n : /\ own(i) \in 1 .. Len(messages) /\ stage[i] = Whole(messages, own(i))
                        /\ own(i) \in Stays(messages, Len(messages))
  <2>1. ASSUME NEW i \in 1 .. n
        PROVE  /\ own(i) \in 1 .. Len(messages) /\ stage[i] = Whole(messages, own(i))
               /\ own(i) \in Stays(messages, Len(messages))
    <3>1. PICK j \in Stays(messages, Len(messages)) : stage[i] = Whole(messages, j)
      BY DEF Paired
    <3>2. j \in 1 .. Len(messages)
      BY DEF Stays
    <3>3. own(i) = j
      BY <3>1, <3>2, WholeIsSent
    <3> QED BY <3>1, <3>2, <3>3
  <2> QED BY <2>1
<1>3. \A i, l \in 1 .. n : i < l => own(i) < own(l)
  BY DEF Paired
<1>4. taken(n) = Stays(messages, Len(messages))
  <2>1. \A j \in Stays(messages, Len(messages)) : \E i \in 1 .. n : own(i) = j
    <3> SUFFICES ASSUME NEW j \in Stays(messages, Len(messages)) PROVE \E i \in 1 .. n : own(i) = j
      OBVIOUS
    <3>1. PICK i \in 1 .. n : stage[i] = Whole(messages, j)
      BY DEF Paired
    <3>2. j \in 1 .. Len(messages)
      BY DEF Stays
    <3> QED BY <3>1, <3>2, WholeIsSent
  <2> QED BY <1>2, <2>1
<1>5. step \in [(1 .. n) \X V -> V]
  <2>1. ASSUME NEW out \in V, NEW m \in Sent PROVE MergeInto(out, m) \in V
    <3>1. CASE out # <<>> /\ Mergeable(Last(out), m)
      <4>1. Len(out) \in Nat /\ Len(out) > 0
        BY <3>1, LenProperties, EmptySeq
      <4>2. Last(out) \in Sent
        BY <4>1, ElementOfSeq DEF Last
      <4>3. [Last(out) EXCEPT !.parts = @ \o m.parts] \in Sent
        <5>1. m.parts \in Seq(Nat)
          BY DEF Sent
        <5> QED BY <4>2, <5>1, MoreTexts
      <4>4. Front(out) \in Seq(Sent)
        BY <4>1 DEF Front
      <4> QED BY <3>1, <4>3, <4>4, AppendProperties DEF MergeInto
    <3>2. CASE ~(out # <<>> /\ Mergeable(Last(out), m))
      BY <3>2, AppendProperties DEF MergeInto
    <3> QED BY <3>1, <3>2
  <2>2. ASSUME NEW p \in (1 .. n) \X V PROVE MergeInto(p[2], stage[p[1]]) \in V
    <3>1. p[1] \in 1 .. n /\ p[2] \in V
      OBVIOUS
    <3>2. stage[p[1]] \in Sent
      BY <1>1, <3>1
    <3> HIDE DEF V, n
    <3> QED BY <2>1, <3>1, <3>2
  <2> QED BY <2>2
<1>6. <<>> \in V
  OBVIOUS
<1> HIDE DEF step
<1>7. PICK iter \in [SUBSET (1 .. n) -> V] : AreFolded(iter, n, <<>>, step)
  BY <1>1, <1>5, <1>6, FoldsExist
<1>8. \A s \in SUBSET (1 .. n) : s # {} => Max(s) \in 1 .. n /\ s \ {Max(s)} \in SUBSET (1 .. n)
  BY <1>1, GreatestOfPrefix
<1>9. \A s \in SUBSET (1 .. n) : s # {} =>
         step[<<Max(s), iter[s \ {Max(s)}]>>] = MergeInto(iter[s \ {Max(s)}], stage[Max(s)])
  BY <1>7, <1>8 DEF step
<1> DEFINE AreMerged(it) ==
               it = [s \in SUBSET (1 .. n) |->
                         IF s = {} THEN <<>> ELSE MergeInto(it[s \ {Max(s)}], stage[Max(s)])]
<1>10. AreMerged(iter)
  BY <1>1, <1>7, <1>8, <1>9 DEF AreFolded
<1>11. MergeAdjacent(stage) = LET it == CHOOSE it : AreMerged(it) IN it[1 .. n]
  BY <1>1 DEF MergeAdjacent, FoldLeft, MapThenFoldSet
<1>12. PICK it : AreMerged(it) /\ MergeAdjacent(stage) = it[1 .. n]
  <2> HIDE DEF AreMerged
  <2> QED BY <1>10, <1>11
<1> DEFINE good == {k \in 0 .. n : Merged(it[1 .. k], messages, taken(k))}
<1>13. 0 \in good
  <2>1. it[1 .. 0] = <<>> /\ taken(0) = {}
    BY <1>12
  <2>2. Merged(<<>>, messages, {})
    <3>1. <<>> \in Seq(Sent) /\ Len(<<>>) = 0
      BY EmptySeq
    <3>2. 1 .. Len(<<>>) = {} /\ 1 .. (Len(<<>>) - 1) = {}
      BY <3>1
    <3>3. TextsKept(<<>>, messages, {}) /\ TextsOrdered(<<>>)
      BY <3>2 DEF TextsKept, TextsOrdered
    <3> QED BY <3>1, <3>2, <3>3 DEF Merged
  <2>3. 0 \in 0 .. n
    BY <1>1
  <2>4. Merged(it[1 .. 0], messages, taken(0))
    <3> HIDE DEF taken
    <3> QED BY <2>1, <2>2
  <2> HIDE DEF taken, n
  <2> QED BY <2>3, <2>4
<1>14. ASSUME NEW k \in 1 .. n, k - 1 \in good PROVE k \in good
  <2>1. Max(1 .. k) = k /\ (1 .. k) \ {k} = 1 .. (k - 1) /\ 1 .. k # {} /\ 1 .. k \in SUBSET (1 .. n)
    BY <1>1, GreatestOfPrefix
  <2>2. it[1 .. k] = MergeInto(it[1 .. (k - 1)], stage[k])
    BY <1>1, <1>12, <2>1
  <2>3. taken(k - 1) \in SUBSET (1 .. (own(k) - 1)) /\ taken(k) = taken(k - 1) \union {own(k)}
    <3>1. ASSUME NEW i \in 1 .. (k - 1) PROVE own(i) \in 1 .. (own(k) - 1)
      <4>1. i \in 1 .. n /\ i < k
        BY <1>1
      <4>2. own(i) \in Nat /\ own(k) \in Nat /\ own(i) >= 1
        BY <1>2, <4>1, LenProperties
      <4> HIDE DEF own
      <4> QED BY <1>3, <4>1, <4>2
    <3>2. 1 .. k = (1 .. (k - 1)) \union {k}
      BY <1>1
    <3> HIDE DEF own
    <3> QED BY <3>1, <3>2
  <2>4. Merged(it[1 .. (k - 1)], messages, taken(k - 1))
    BY <1>14
  <2>5. own(k) \in 1 .. Len(messages) /\ stage[k] = Whole(messages, own(k))
    BY <1>2
  <2> HIDE DEF own, taken, n
  <2>6. Merged(MergeInto(it[1 .. (k - 1)], Whole(messages, own(k))), messages,
               taken(k - 1) \union {own(k)})
    BY <2>3, <2>4, <2>5, MergeKeeps
  <2>7. Merged(it[1 .. k], messages, taken(k))
    BY <2>2, <2>3, <2>5, <2>6
  <2>8. k \in 0 .. n
    BY <1>1
  <2> QED BY <2>7, <2>8
<1> HIDE DEF good, taken, n
<1>15. 0 .. n \subseteq good
  BY <1>1, <1>13, <1>14, Stepwise
<1>16. n \in good
  BY <1>1, <1>15
<1> QED BY <1>4, <1>12, <1>16 DEF good

\* One more message of the conversation, that stays or does not.
LEMMA PairedOneMore ==
  ASSUME NEW messages \in Seq(Messages), NEW k \in 1 .. Len(messages), NEW out,
         Paired(out, messages, k - 1)
  PROVE  Paired(IF Orphan(messages, k) THEN out ELSE Append(out, Whole(messages, k)), messages, k)
<1> DEFINE m == Whole(messages, k)
           more == Append(out, m)
           l == Len(out)
<1>1. out \in Seq(Sent) /\ l \in Nat /\ Len(messages) \in Nat
  BY LenProperties DEF Paired
<1>2. m \in Sent /\ m.parts[1] = k
  BY WholeIsSent
<1>3. 1 .. k = (1 .. (k - 1)) \union {k}
  BY <1>1
<1>4. CASE Orphan(messages, k)
  <2>1. Stays(messages, k) = Stays(messages, k - 1)
    BY <1>3, <1>4 DEF Stays
  <2>2. Paired(out, messages, k)
    BY <2>1 DEF Paired
  <2> QED BY <1>4, <2>2
<1>5. CASE ~Orphan(messages, k)
  <2>1. Stays(messages, k) = Stays(messages, k - 1) \union {k}
    BY <1>3, <1>5 DEF Stays
  <2>2. /\ more \in Seq(Sent) /\ Len(more) = l + 1 /\ more[l + 1] = m
        /\ \A i \in 1 .. l : more[i] = out[i]
    BY <1>1, <1>2, AppendProperties
  <2> HIDE DEF more
  <2>3. ASSUME NEW i \in 1 .. Len(more)
        PROVE  \E j \in Stays(messages, k) : more[i] = Whole(messages, j)
    <3>1. CASE i \in 1 .. l
      BY <2>1, <2>2, <3>1 DEF Paired
    <3>2. CASE i = l + 1
      BY <2>1, <2>2, <3>2
    <3> QED BY <1>1, <2>2, <3>1, <3>2
  <2>4. ASSUME NEW j \in Stays(messages, k)
        PROVE  \E i \in 1 .. Len(more) : more[i] = Whole(messages, j)
    <3>1. CASE j = k
      <4>1. l + 1 \in 1 .. Len(more)
        BY <1>1, <2>2
      <4> QED BY <2>2, <3>1, <4>1
    <3>2. CASE j # k
      <4>1. PICK i \in 1 .. l : out[i] = Whole(messages, j)
        BY <2>1, <3>2 DEF Paired
      <4>2. i \in 1 .. Len(more) /\ more[i] = out[i]
        BY <1>1, <2>2
      <4> QED BY <4>1, <4>2
    <3> QED BY <3>1, <3>2
  <2>5. ASSUME NEW i \in 1 .. Len(more), NEW h \in 1 .. Len(more), i < h
        PROVE  more[i].parts[1] < more[h].parts[1]
    <3>1. i \in 1 .. l /\ more[i] = out[i]
      BY <1>1, <2>2, <2>5
    <3>2. CASE h \in 1 .. l
      BY <2>2, <2>5, <3>1, <3>2 DEF Paired
    <3>3. CASE h = l + 1
      <4>1. PICK j \in Stays(messages, k - 1) : out[i] = Whole(messages, j)
        BY <3>1 DEF Paired
      <4>2. j \in 1 .. (k - 1) /\ out[i].parts[1] = j
        BY <4>1 DEF Stays, Whole
      <4>3. j < k
        BY <1>1, <4>2
      <4>4. more[h].parts[1] = k
        BY <1>2, <2>2, <3>3
      <4> HIDE DEF m
      <4> QED BY <3>1, <4>2, <4>3, <4>4
    <3> QED BY <1>1, <2>2, <3>2, <3>3
  <2>6. Paired(more, messages, k)
    BY <2>2, <2>3, <2>4, <2>5 DEF Paired
  <2> QED BY <1>5, <2>6 DEF more
<1> QED BY <1>4, <1>5

\* Dropping the orphans leaves the messages that stay, whatever their number.
LEMMA OrphansDropped ==
  ASSUME NEW messages \in Seq(Messages)
  PROVE  Paired(DropOrphans(messages), messages, Len(messages))
<1> DEFINE n == Len(messages)
           V == Seq(Sent)
           next(out, i) == IF Orphan(messages, i) THEN out ELSE Append(out, Whole(messages, i))
           step == [p \in (1 .. n) \X V |-> next(p[2], p[1])]
<1>1. n \in Nat /\ DOMAIN messages = 1 .. n
  BY LenProperties
<1>2. step \in [(1 .. n) \X V -> V]
  <2>1. ASSUME NEW i \in 1 .. n, NEW out \in V PROVE next(out, i) \in V
    <3>1. Whole(messages, i) \in Sent
      BY WholeIsSent
    <3> QED BY <3>1, AppendProperties
  <2>2. ASSUME NEW p \in (1 .. n) \X V PROVE next(p[2], p[1]) \in V
    <3>1. p[1] \in 1 .. n /\ p[2] \in V
      OBVIOUS
    <3> HIDE DEF V, n, next
    <3> QED BY <2>1, <3>1
  <2> QED BY <2>2
<1>3. <<>> \in V
  OBVIOUS
<1> HIDE DEF step
<1>4. PICK iter \in [SUBSET (1 .. n) -> V] : AreFolded(iter, n, <<>>, step)
  BY <1>1, <1>2, <1>3, FoldsExist
<1>5. \A s \in SUBSET (1 .. n) : s # {} => Max(s) \in 1 .. n /\ s \ {Max(s)} \in SUBSET (1 .. n)
  BY <1>1, GreatestOfPrefix
<1>6. \A s \in SUBSET (1 .. n) : s # {} =>
         step[<<Max(s), iter[s \ {Max(s)}]>>] = next(iter[s \ {Max(s)}], Max(s))
  BY <1>4, <1>5 DEF step
<1> DEFINE ArePaired(it) ==
               it = [s \in SUBSET (1 .. n) |->
                         IF s = {} THEN <<>>
                         ELSE IF Orphan(messages, Max(s)) THEN it[s \ {Max(s)}]
                              ELSE Append(it[s \ {Max(s)}], Whole(messages, Max(s)))]
<1>7. ArePaired(iter)
  BY <1>1, <1>4, <1>5, <1>6 DEF AreFolded
<1>8. DropOrphans(messages) = LET it == CHOOSE it : ArePaired(it) IN it[1 .. n]
  <2> DEFINE places == [i \in DOMAIN messages |-> i]
  <2>1. DOMAIN places = 1 .. n /\ \A s \in SUBSET (1 .. n) : s # {} => places[Max(s)] = Max(s)
    BY <1>1, <1>5
  <2> HIDE DEF places
  <2> DEFINE AreTaken(it) ==
                 it = [s \in SUBSET (1 .. n) |->
                         IF s = {} THEN <<>>
                         ELSE IF Orphan(messages, places[Max(s)]) THEN it[s \ {Max(s)}]
                              ELSE Append(it[s \ {Max(s)}], Whole(messages, places[Max(s)]))]
  <2>2. DropOrphans(messages) = LET it == CHOOSE it : AreTaken(it) IN it[1 .. n]
    BY <2>1 DEF DropOrphans, FoldLeft, MapThenFoldSet, places
  <2>3. \A it : AreTaken(it) <=> ArePaired(it)
    BY <2>1
  <2> HIDE DEF AreTaken, ArePaired
  <2>4. (CHOOSE it : AreTaken(it)) = (CHOOSE it : ArePaired(it))
    BY <2>3
  <2> QED BY <2>2, <2>4
<1>9. PICK it : ArePaired(it) /\ DropOrphans(messages) = it[1 .. n]
  <2> HIDE DEF ArePaired
  <2> QED BY <1>7, <1>8
<1> DEFINE good == {k \in 0 .. n : Paired(it[1 .. k], messages, k)}
<1>10. 0 \in good
  <2>1. it[1 .. 0] = <<>>
    BY <1>9
  <2>2. Paired(<<>>, messages, 0)
    BY EmptySeq DEF Paired, Stays
  <2> QED BY <1>1, <2>1, <2>2
<1>11. ASSUME NEW k \in 1 .. n, k - 1 \in good PROVE k \in good
  <2>1. Max(1 .. k) = k /\ (1 .. k) \ {k} = 1 .. (k - 1) /\ 1 .. k # {} /\ 1 .. k \in SUBSET (1 .. n)
    BY <1>1, GreatestOfPrefix
  <2>2. it[1 .. k] = next(it[1 .. (k - 1)], k)
    BY <1>1, <1>9, <2>1
  <2>3. Paired(it[1 .. (k - 1)], messages, k - 1)
    BY <1>11
  <2>4. Paired(next(it[1 .. (k - 1)], k), messages, k)
    BY <2>3, PairedOneMore
  <2>5. k \in 0 .. n
    BY <1>1
  <2> HIDE DEF next
  <2> QED BY <2>2, <2>4, <2>5
<1> HIDE DEF good, n
<1>12. 0 .. n \subseteq good
  BY <1>1, <1>10, <1>11, Stepwise
<1>13. n \in good
  BY <1>1, <1>12
<1> QED BY <1>9, <1>13 DEF good, n

\* What is sent of a conversation after its repair.
LEMMA SanitizedMerged ==
  ASSUME NEW messages \in Seq(Messages)
  PROVE  Merged(SanitizeMessages(messages), messages, Stays(messages, Len(messages)))
BY OrphansDropped, AdjacentMerged DEF SanitizeMessages

\* A result that stays still has its call before it.
LEMMA ResultsFollowCalls ==
  ASSUME NEW messages \in Seq(Messages), NEW out,
         Merged(out, messages, Stays(messages, Len(messages))), NEW i \in 1 .. Len(out)
  PROVE  ~Orphan(out, i)
<1> SUFFICES ASSUME out[i].role = "tool" PROVE out[i].calls \intersect Declared(out, i) # {}
  BY DEF Orphan
<1>1. out \in Seq(Sent) /\ Len(out) \in Nat /\ Len(messages) \in Nat
  BY LenProperties DEF Merged
<1>2. TextsKept(out, messages, Stays(messages, Len(messages))) /\ TextsOrdered(out)
  BY DEF Merged
<1>3. 1 \in 1 .. Len(out[i].parts)
  <2>1. out[i] \in Sent
    BY <1>1, ElementOfSeq
  <2>2. out[i].parts \in Seq(Nat)
    BY <2>1 DEF Sent
  <2>3. out[i].parts # <<>>
    BY <1>2 DEF TextsKept
  <2> QED BY <2>2, <2>3, LenProperties, EmptySeq
<1> DEFINE j == out[i].parts[1]
<1>4. /\ j \in 1 .. Len(messages) /\ ~Orphan(messages, j)
      /\ messages[j].role = "tool" /\ messages[j].calls = out[i].calls
  BY <1>2, <1>3 DEF TextsKept, Stays
<1>5. PICK c \in out[i].calls : c \in Declared(messages, j)
  BY <1>4 DEF Orphan
<1>6. PICK a \in 1 .. (j - 1) : messages[a].role = "assistant" /\ c \in messages[a].calls
  BY <1>5 DEF Declared
<1>7. a \in Stays(messages, Len(messages)) /\ a < j
  BY <1>1, <1>4, <1>6 DEF Stays, Orphan
<1>8. PICK h \in 1 .. Len(out) : \E p \in 1 .. Len(out[h].parts) : out[h].parts[p] = a
  BY <1>2, <1>7 DEF TextsKept
<1>9. PICK p \in 1 .. Len(out[h].parts) : out[h].parts[p] = a
  BY <1>8
<1>10. out[h].role = "assistant" /\ c \in out[h].calls
  BY <1>2, <1>6, <1>9 DEF TextsKept
<1>11. h < i
  <2>1. h # i
    BY <1>10
  <2>2. ~(i < h)
    <3> SUFFICES ASSUME i < h PROVE FALSE
      OBVIOUS
    <3>1. j < a
      BY <1>2, <1>3, <1>9 DEF TextsOrdered
    <3> QED BY <1>4, <1>6, <1>7, <3>1
  <2> QED BY <1>1, <2>1, <2>2
<1>12. h \in 1 .. (i - 1)
  BY <1>1, <1>11
<1>13. c \in Declared(out, i)
  BY <1>10, <1>12 DEF Declared
<1> QED BY <1>5, <1>13

\* What was repaired is sound.
LEMMA RepairedIsSound == RepairInv => RepairIsSound
<1> SUFFICES ASSUME RepairInv, callAt = "repaired" PROVE RepairIsSound
  BY DEF RepairIsSound
<1>1. conv \in Seq(Messages) /\ Merged(toModel, conv, Stays(conv, Len(conv)))
  BY DEF RepairInv
<1>2. /\ toModel \in Seq(Sent) /\ DOMAIN toModel = 1 .. Len(toModel)
      /\ DOMAIN conv = 1 .. Len(conv)
  BY <1>1, LenProperties DEF Merged
<1>3. TextsKept(toModel, conv, Stays(conv, Len(conv))) /\ TextsOrdered(toModel)
  BY <1>1 DEF Merged
<1>4. \A i \in 1 .. Len(toModel) : /\ DOMAIN toModel[i].parts = 1 .. Len(toModel[i].parts)
                                   /\ ToSet(toModel[i].parts) =
                                         {toModel[i].parts[p] : p \in 1 .. Len(toModel[i].parts)}
  <2>1. ASSUME NEW i \in 1 .. Len(toModel)
        PROVE  DOMAIN toModel[i].parts = 1 .. Len(toModel[i].parts)
    <3>1. toModel[i] \in Sent
      BY <1>2, ElementOfSeq
    <3>2. toModel[i].parts \in Seq(Nat)
      BY <3>1 DEF Sent
    <3> QED BY <3>2, LenProperties
  <2> QED BY <2>1 DEF ToSet
<1>5. \A i \in DOMAIN toModel : ~Orphan(toModel, i)
  BY <1>1, <1>2, ResultsFollowCalls
<1>6. \A i \in 1 .. (Len(toModel) - 1) : ~Mergeable(toModel[i], toModel[i + 1])
  BY <1>1 DEF Merged
<1>7. UNION {ToSet(toModel[i].parts) : i \in DOMAIN toModel} = {i \in DOMAIN conv : ~Orphan(conv, i)}
  <2>1. {i \in DOMAIN conv : ~Orphan(conv, i)} = Stays(conv, Len(conv))
    BY <1>2 DEF Stays
  <2>2. ASSUME NEW i \in DOMAIN toModel, NEW text \in ToSet(toModel[i].parts)
        PROVE  text \in Stays(conv, Len(conv))
    <3>1. PICK p \in 1 .. Len(toModel[i].parts) : text = toModel[i].parts[p]
      BY <1>2, <1>4
    <3> QED BY <1>2, <1>3, <3>1 DEF TextsKept
  <2>3. ASSUME NEW text \in Stays(conv, Len(conv))
        PROVE  \E i \in DOMAIN toModel : text \in ToSet(toModel[i].parts)
    <3>1. PICK i \in 1 .. Len(toModel) :
              \E p \in 1 .. Len(toModel[i].parts) : toModel[i].parts[p] = text
      BY <1>3 DEF TextsKept
    <3>2. text \in ToSet(toModel[i].parts)
      BY <1>4, <3>1
    <3> QED BY <1>2, <3>2
  <2> QED BY <2>1, <2>2, <2>3
<1>8. ASSUME NEW i \in DOMAIN toModel
      PROVE  /\ toModel[i].parts # <<>>
             /\ \A text \in ToSet(toModel[i].parts) :
                    conv[text].role = toModel[i].role /\ conv[text].calls = toModel[i].calls
  <2>1. i \in 1 .. Len(toModel)
    BY <1>2
  <2>2. toModel[i].parts # <<>>
    BY <1>3, <2>1 DEF TextsKept
  <2>3. ASSUME NEW text \in ToSet(toModel[i].parts)
        PROVE  conv[text].role = toModel[i].role /\ conv[text].calls = toModel[i].calls
    <3>1. PICK p \in 1 .. Len(toModel[i].parts) : text = toModel[i].parts[p]
      BY <1>4, <2>1
    <3> QED BY <1>3, <2>1, <3>1 DEF TextsKept
  <2> QED BY <2>2, <2>3
<1>9. ASSUME NEW i \in DOMAIN toModel, NEW k \in DOMAIN toModel,
             NEW p \in DOMAIN toModel[i].parts, NEW q \in DOMAIN toModel[k].parts,
             i < k \/ (i = k /\ p < q)
      PROVE  toModel[i].parts[p] < toModel[k].parts[q]
  BY <1>2, <1>3, <1>4, <1>9 DEF TextsOrdered
<1> QED BY <1>5, <1>6, <1>7, <1>8, <1>9 DEF RepairIsSound

\* A conversation is repaired once, and sent only then.
LEMMA RepairStep == RepairInv /\ [CallNext]_callVars => RepairInv'
<1> SUFFICES ASSUME RepairInv, [CallNext]_callVars PROVE RepairInv'
  OBVIOUS
<1>1. /\ conv \in Seq(Messages) /\ isStreamed \in BOOLEAN /\ doneText \in 0 .. NoText
      /\ deltas \in 0 .. MaxChunks /\ (callAt # "repaired" => toModel = <<>>)
  BY DEF RepairInv
<1>2. CASE ComposeMessages
  <2>1. conv' \in Seq(Messages)
    BY <1>1, <1>2, AppendProperties DEF ComposeMessages
  <2> QED BY <1>2, <2>1 DEF ComposeMessages, RepairInv
<1>3. CASE RepairMessages
  <2>1. Merged(toModel', conv, Stays(conv, Len(conv)))
    BY <1>1, <1>3, SanitizedMerged DEF RepairMessages
  <2>2. conv' = conv /\ callAt' = "repaired"
    BY <1>3 DEF RepairMessages
  <2> QED BY <1>3, <2>1, <2>2 DEF RepairMessages, RepairInv
<1>4. CASE StartCall
  BY <1>4 DEF StartCall, RepairInv
<1>5. CASE AttemptCall
  BY <1>5 DEF AttemptCall, FailsWith, RepairInv
<1>6. CASE NextBase
  BY <1>6 DEF NextBase, RepairInv
<1>7. CASE Exhausted
  BY <1>7 DEF Exhausted, FailsWith, RepairInv
<1>8. CASE StreamChunk
  <2>1. deltas' \in 0 .. MaxChunks
    BY <1>1, <1>8, ModelCallsAssumption DEF StreamChunk
  <2> QED BY <1>8, <2>1 DEF StreamChunk, RepairInv
<1>9. CASE StreamBreaks
  BY <1>9 DEF StreamBreaks, RepairInv
<1>10. CASE StreamEnds
  <2>1. deltas \in 0 .. NoText
    BY <1>1, ModelCallsAssumption DEF NoText
  <2> QED BY <1>10, <2>1 DEF StreamEnds, RepairInv
<1>11. CASE UNCHANGED callVars
  BY <1>11 DEF callVars, RepairInv
<1> QED BY <1>2, <1>3, <1>4, <1>5, <1>6, <1>7, <1>8, <1>9, <1>10, <1>11 DEF CallNext

-----------------------------------------------------------------------------
(* ModelCalls: how many requests were made, and at which endpoint the last.*)

RequestsCounted ==
    /\ callAt \in {"composing", "repaired"} => callBase = 1 /\ callAttempt = 0 /\ basesTried = <<>>
    /\ callBase > Bases => callAttempt = 0
    /\ callAt = "calling" =>
          /\ Len(basesTried) = (callBase - 1) * AttemptsPerBase + callAttempt
          /\ callAttempt > 0 => basesTried[Len(basesTried)] = callBase
          /\ callAttempt = 0 /\ basesTried # <<>> => basesTried[Len(basesTried)] = callBase - 1

CallInv ==
    /\ callAt \in {"composing", "repaired", "calling", "streaming", "done"}
    /\ callBase \in 1 .. (Bases + 1) /\ callAttempt \in 0 .. AttemptsPerBase
    /\ basesTried \in Seq(1 .. Bases) /\ deltas \in Nat
    /\ callAt # "done" => callOutcome = "none"
    /\ RequestsCounted /\ FailoverIsFair /\ StreamedIsReturned

\* One more request, at the same endpoint or the next.
LEMMA RequestAppended ==
  ASSUME NEW tried \in Seq(1 .. Bases), NEW base \in 1 .. Bases,
         \A i \in 1 .. (Len(tried) - 1) : tried[i + 1] - tried[i] \in {0, 1},
         tried # <<>> => base - tried[Len(tried)] \in {0, 1}
  PROVE  LET more == Append(tried, base)
         IN /\ more \in Seq(1 .. Bases) /\ Len(more) = Len(tried) + 1 /\ more[Len(more)] = base
            /\ \A i \in 1 .. (Len(more) - 1) : more[i + 1] - more[i] \in {0, 1}
<1> DEFINE more == Append(tried, base)
<1>1. /\ more \in Seq(1 .. Bases) /\ Len(more) = Len(tried) + 1 /\ Len(tried) \in Nat
      /\ more[Len(tried) + 1] = base /\ \A i \in 1 .. Len(tried) : more[i] = tried[i]
  BY AppendProperties, LenProperties
<1> HIDE DEF more
<1>2. ASSUME NEW i \in 1 .. (Len(more) - 1) PROVE more[i + 1] - more[i] \in {0, 1}
  <2>1. CASE i < Len(tried)
    <3>1. i \in 1 .. (Len(tried) - 1) /\ i + 1 \in 1 .. Len(tried) /\ i \in 1 .. Len(tried)
      BY <1>1, <2>1
    <3>2. more[i + 1] = tried[i + 1] /\ more[i] = tried[i]
      BY <1>1, <3>1
    <3> QED BY <3>1, <3>2
  <2>2. CASE i = Len(tried)
    <3>1. tried # <<>> /\ i \in 1 .. Len(tried)
      BY <2>2
    <3> QED BY <1>1, <2>2, <3>1
  <2> QED BY <1>1, <2>1, <2>2
<1>3. more[Len(more)] = base
  BY <1>1
<1> QED BY <1>1, <1>2, <1>3 DEF more

\* Every step of a call keeps the count of its requests.
LEMMA CallStep == CallInv /\ [CallNext]_callVars => CallInv'
<1> SUFFICES ASSUME CallInv, [CallNext]_callVars PROVE CallInv'
  OBVIOUS
<1>1. Bases \in Nat /\ AttemptsPerBase \in Nat /\ Bases > 0
  BY ModelCallsAssumption
<1>2. /\ callBase \in 1 .. (Bases + 1) /\ callAttempt \in 0 .. AttemptsPerBase
      /\ basesTried \in Seq(1 .. Bases) /\ deltas \in Nat /\ Len(basesTried) \in Nat
  BY LenProperties DEF CallInv
<1>3. CASE ComposeMessages
  BY <1>3 DEF ComposeMessages, CallInv, RequestsCounted, FailoverIsFair, StreamedIsReturned
<1>4. CASE RepairMessages
  BY <1>4 DEF RepairMessages, CallInv, RequestsCounted, FailoverIsFair, StreamedIsReturned
<1>5. CASE StartCall
  <2>1. callBase = 1 /\ callAttempt = 0 /\ basesTried = <<>> /\ callOutcome = "none"
    BY <1>5 DEF StartCall, CallInv, RequestsCounted
  <2>2. (callBase - 1) * AttemptsPerBase = 0
    BY <1>1, <2>1
  <2>3. RequestsCounted'
    BY <1>1, <1>5, <2>1, <2>2 DEF StartCall, RequestsCounted
  <2> QED BY <1>2, <1>5, <2>1, <2>3 DEF StartCall, CallInv, FailoverIsFair, StreamedIsReturned
<1>6. CASE AttemptCall
  <2>1. /\ callAt = "calling" /\ callBase \in 1 .. Bases /\ callAttempt < AttemptsPerBase
        /\ callOutcome = "none" /\ basesTried' = Append(basesTried, callBase)
    BY <1>1, <1>2, <1>6 DEF AttemptCall, CallInv
  <2>2. basesTried # <<>> => callBase - basesTried[Len(basesTried)] \in {0, 1}
    <3>1. callAttempt > 0 \/ callAttempt = 0
      BY <1>1, <1>2
    <3>2. callAttempt > 0 => callBase - basesTried[Len(basesTried)] = 0
      BY <2>1 DEF CallInv, RequestsCounted
    <3>3. callAttempt = 0 /\ basesTried # <<>> => callBase - basesTried[Len(basesTried)] = 1
      BY <2>1 DEF CallInv, RequestsCounted
    <3> QED BY <3>1, <3>2, <3>3
  <2>3. \A i \in 1 .. (Len(basesTried) - 1) : basesTried[i + 1] - basesTried[i] \in {0, 1}
    BY DEF CallInv, FailoverIsFair
  <2>4. /\ basesTried' \in Seq(1 .. Bases) /\ Len(basesTried') = Len(basesTried) + 1
        /\ basesTried'[Len(basesTried')] = callBase
        /\ \A i \in 1 .. (Len(basesTried') - 1) : basesTried'[i + 1] - basesTried'[i] \in {0, 1}
    BY <1>2, <2>1, <2>2, <2>3, RequestAppended
  <2>5. CASE /\ callAt' = IF isStreamed THEN "streaming" ELSE "done"
             /\ callOutcome' = IF isStreamed THEN "none" ELSE "answered"
             /\ UNCHANGED <<callBase, callAttempt>>
    <3>1. FailoverIsFair' /\ StreamedIsReturned'
      BY <1>6, <2>1, <2>4, <2>5 DEF AttemptCall, FailoverIsFair, StreamedIsReturned
    <3> QED BY <1>2, <1>6, <2>4, <2>5, <3>1 DEF AttemptCall, CallInv, RequestsCounted
  <2>6. CASE FailsWith("refused") /\ UNCHANGED <<callBase, callAttempt>>
    <3>1. FailoverIsFair' /\ StreamedIsReturned'
      BY <1>6, <2>1, <2>4, <2>6 DEF AttemptCall, FailsWith, FailoverIsFair, StreamedIsReturned
    <3> QED BY <1>2, <1>6, <2>4, <2>6, <3>1 DEF AttemptCall, FailsWith, CallInv, RequestsCounted
  <2>7. CASE callAttempt' = callAttempt + 1 /\ UNCHANGED <<callBase, callAt, callOutcome>>
    <3>1. FailoverIsFair' /\ StreamedIsReturned'
      BY <1>6, <2>1, <2>4, <2>7 DEF AttemptCall, FailoverIsFair, StreamedIsReturned
    <3>2. Len(basesTried) = (callBase - 1) * AttemptsPerBase + callAttempt
      BY <2>1 DEF CallInv, RequestsCounted
    <3>3. callAttempt' \in 0 .. AttemptsPerBase /\ callAttempt' > 0
      BY <1>1, <1>2, <2>1, <2>7
    <3>4. Len(basesTried') = (callBase - 1) * AttemptsPerBase + (callAttempt + 1)
      BY <1>1, <1>2, <2>4, <3>2
    <3>5. RequestsCounted'
      BY <1>1, <2>1, <2>4, <2>7, <3>3, <3>4 DEF RequestsCounted
    <3> QED BY <1>2, <1>6, <2>1, <2>4, <2>7, <3>1, <3>3, <3>5 DEF AttemptCall, CallInv
  <2> QED BY <1>6, <2>5, <2>6, <2>7 DEF AttemptCall
<1>7. CASE NextBase
  <2>1. /\ callAt = "calling" /\ callBase \in 1 .. Bases /\ callAttempt = AttemptsPerBase
        /\ callBase' = callBase + 1 /\ callAttempt' = 0 /\ callAt' = callAt
        /\ basesTried' = basesTried /\ callOutcome' = callOutcome
    BY <1>1, <1>2, <1>7 DEF NextBase
  <2>2. Len(basesTried) = (callBase - 1) * AttemptsPerBase + AttemptsPerBase
    BY <2>1 DEF CallInv, RequestsCounted
  <2>3. (callBase - 1) * AttemptsPerBase + AttemptsPerBase = (callBase + 1 - 1) * AttemptsPerBase + 0
    BY <1>1, <1>2
  <2>4. basesTried # <<>> => basesTried[Len(basesTried)] = callBase + 1 - 1
    <3>1. CASE AttemptsPerBase > 0
      BY <1>2, <2>1, <3>1 DEF CallInv, RequestsCounted
    <3>2. CASE AttemptsPerBase = 0
      <4>1. Len(basesTried) = 0
        BY <1>2, <2>2, <3>2
      <4> QED BY <1>2, <4>1, EmptySeq
    <3> QED BY <1>1, <3>1, <3>2
  <2>5. RequestsCounted'
    BY <2>1, <2>2, <2>3, <2>4 DEF RequestsCounted
  <2>6. callBase' \in 1 .. (Bases + 1) /\ callAttempt' \in 0 .. AttemptsPerBase
    BY <1>1, <2>1
  <2> QED BY <1>7, <2>1, <2>5, <2>6
          DEF NextBase, CallInv, FailoverIsFair, StreamedIsReturned
<1>8. CASE Exhausted
  <2>1. callBase = Bases + 1
    BY <1>1, <1>2, <1>8 DEF Exhausted
  <2>2. Len(basesTried) = (callBase - 1) * AttemptsPerBase + callAttempt
    BY <1>8 DEF Exhausted, CallInv, RequestsCounted
  <2>3. callAttempt = 0 /\ callBase - 1 = Bases
    BY <1>1, <2>1 DEF CallInv, RequestsCounted
  <2>4. Len(basesTried) = Bases * AttemptsPerBase
    BY <1>1, <2>2, <2>3
  <2> QED BY <1>8, <2>4
          DEF Exhausted, FailsWith, CallInv, RequestsCounted, FailoverIsFair, StreamedIsReturned
<1>9. CASE StreamChunk
  BY <1>2, <1>9 DEF StreamChunk, CallInv, RequestsCounted, FailoverIsFair, StreamedIsReturned
<1>10. CASE StreamBreaks
  BY <1>10 DEF StreamBreaks, CallInv, RequestsCounted, FailoverIsFair, StreamedIsReturned
<1>11. CASE StreamEnds
  BY <1>2, <1>11 DEF StreamEnds, CallInv, RequestsCounted, FailoverIsFair, StreamedIsReturned
<1>12. CASE UNCHANGED callVars
  BY <1>12 DEF callVars, CallInv, RequestsCounted, FailoverIsFair, StreamedIsReturned
<1> QED BY <1>3, <1>4, <1>5, <1>6, <1>7, <1>8, <1>9, <1>10, <1>11, <1>12 DEF CallNext

\* No request was made.
LEMMA CallInitInv == CallInit => CallInv
<1>1. /\ Bases \in Nat /\ AttemptsPerBase \in Nat /\ 1 \in 1 .. (Bases + 1)
      /\ 0 \in 0 .. AttemptsPerBase /\ <<>> \in Seq(1 .. Bases) /\ Len(<<>>) = 0
  BY ModelCallsAssumption
<1> QED BY <1>1 DEF CallInit, CallInv, RequestsCounted, FailoverIsFair, StreamedIsReturned

\* The count holds as long as the call goes on.
LEMMA CallInvariant == CallSpec => []CallInv
<1> QED BY CallInitInv, CallStep, PTL DEF CallSpec

\* Nothing was said and nothing was repaired.
LEMMA RepairInitInv == CallInit => RepairInv
<1>1. <<>> \in Seq(Messages) /\ 0 \in 0 .. MaxChunks /\ NoText \in 0 .. NoText
  BY ModelCallsAssumption DEF NoText
<1> QED BY <1>1 DEF CallInit, RepairInv

\* Every conversation that is sent was repaired.
LEMMA RepairInvariant == CallSpec => []RepairInv
<1> QED BY RepairInitInv, RepairStep, PTL DEF CallSpec

\* What a call keeps is of its type.
LEMMA CallIsTyped == CallInv /\ RepairInv => CallTypeOK
<1> SUFFICES ASSUME CallInv, RepairInv PROVE CallTypeOK
  OBVIOUS
<1>1. \A i \in DOMAIN conv : conv[i] \in Messages
  <2>1. conv \in Seq(Messages)
    BY DEF RepairInv
  <2> QED BY <2>1, LenProperties, ElementOfSeq
<1>2. \A i \in DOMAIN toModel : toModel[i].role \in Roles /\ toModel[i].parts \in Seq(DOMAIN conv)
  <2>1. CASE callAt = "repaired"
    <3>1. conv \in Seq(Messages) /\ Merged(toModel, conv, Stays(conv, Len(conv)))
      BY <2>1 DEF RepairInv
    <3>2. toModel \in Seq(Sent) /\ DOMAIN toModel = 1 .. Len(toModel) /\ DOMAIN conv = 1 .. Len(conv)
      BY <3>1, LenProperties DEF Merged
    <3>3. ASSUME NEW i \in 1 .. Len(toModel)
          PROVE  toModel[i].role \in Roles /\ toModel[i].parts \in Seq(1 .. Len(conv))
      <4>1. toModel[i] \in Sent
        BY <3>2, ElementOfSeq
      <4>2. toModel[i].role \in Roles /\ toModel[i].parts \in Seq(Nat)
        BY <4>1 DEF Sent
      <4>3. \A p \in 1 .. Len(toModel[i].parts) : toModel[i].parts[p] \in 1 .. Len(conv)
        BY <3>1 DEF Merged, TextsKept, Stays
      <4> QED BY <4>2, <4>3, SMTT(30)
    <3> QED BY <3>2, <3>3
  <2>2. CASE callAt # "repaired"
    <3>1. toModel = <<>> /\ DOMAIN toModel = {}
      BY <2>2 DEF RepairInv
    <3> QED BY <3>1
  <2> QED BY <2>1, <2>2
<1> QED BY <1>1, <1>2 DEF CallTypeOK, CallInv, RepairInv

\* A repaired conversation is well formed and all there, every endpoint is tried in its turn and as
\* often as it may be before a call is given up, and a streamed answer is returned only when the
\* user saw all of it, for any conversation and any number of endpoints, attempts and chunks
\* (message_repair.py, model_client.py, stream_final_answer).
THEOREM CallsStaySound == CallSpec => [](CallTypeOK /\ CallsAreSound)
<1>1. CallInv /\ RepairInv => CallTypeOK /\ CallsAreSound
  BY CallIsTyped, RepairedIsSound DEF CallInv, CallsAreSound
<1> QED BY <1>1, CallInvariant, RepairInvariant, PTL
=============================================================================
