----------------------------- MODULE ToolsProofs -----------------------------
(***************************************************************************)
(* Proofs about the commands and tools of module MCTools, for any values of *)
(* their constants: update (SelfUpdate), setup (Setup), search (Search) and *)
(* the caches of relation graphs (RelationCache).                           *)
(***************************************************************************)
EXTENDS SelfUpdate, Setup, Search, RelationCache, InductionProofs, SequenceTheorems, TLAPS

-----------------------------------------------------------------------------
(* Self update                                                              *)

\* A version that parses has three numbers, and is newer than whatever an older one
\* is newer than.
LEMMA VersionNumbers ==
    ASSUME NEW s \in Seq(Nat), Len(s) = 3, NEW i \in 1..3
    PROVE  s[i] \in Nat
<1>1. i \in 1..Len(s)
  OBVIOUS
<1> QED BY <1>1, ElementOfSeq

LEMMA NewerIsTransitive ==
    ASSUME NEW a \in Seq(Nat), NEW b \in Seq(Nat), NEW c \in Seq(Nat),
           Newer(a, b), Newer(b, c)
    PROVE  Newer(a, c)
<1>0. Len(a) = 3 /\ Len(b) = 3 /\ Len(c) = 3
  BY DEF Newer, Comparable
<1>1. \A i \in 1..3 : a[i] \in Nat /\ b[i] \in Nat /\ c[i] \in Nat
  BY <1>0, VersionNumbers
<1>2. PICK i \in 1..3 : a[i] > b[i] /\ \A j \in 1..(i - 1) : a[j] = b[j]
  BY DEF Newer
<1>3. PICK k \in 1..3 : b[k] > c[k] /\ \A j \in 1..(k - 1) : b[j] = c[j]
  BY DEF Newer
<1>4. CASE i <= k
  <2>1. a[i] > c[i]
    <3>1. a[i] \in Nat /\ b[i] \in Nat /\ c[i] \in Nat
      BY <1>1
    <3>2. CASE i = k
      BY <3>1, <3>2, <1>2, <1>3
    <3>3. CASE i < k
      <4>1. i \in 1..(k - 1)
        BY <3>3
      <4>2. QED  BY <3>1, <4>1, <1>2, <1>3
    <3>4. QED  BY <1>4, <3>2, <3>3
  <2>3. \A j \in 1..(i - 1) : a[j] = c[j]
    BY <1>1, <1>2, <1>3, <1>4
  <2>2. QED  BY <2>1, <2>3, <1>0 DEF Newer, Comparable
<1>5. CASE k < i
  <2>1. a[k] > c[k] /\ \A j \in 1..(k - 1) : a[j] = c[j]
    BY <1>1, <1>2, <1>3, <1>5
  <2>2. QED  BY <2>1, <1>0 DEF Newer, Comparable
<1>6. QED  BY <1>4, <1>5

\* Newer than the first binary, if that one knows its version.
Later(version) == Len(FirstBinary.reports) = 3 => Newer(version, FirstBinary.reports)
Offered(r) == r \in upPublished /\ r.listed /\ Len(r.version) = 3 /\ Later(r.version)
Installed(b) ==
    /\ b \in Binary /\ b.whole /\ b.reports = b.version
    /\ Len(b.version) = 3 /\ Later(b.version)
    /\ \E r \in upPublished : r.version = b.version /\ r.listed /\ r.sidecar = "matches"

\* Each step of a command adds what it has found out about the file it staged, and
\* what one command may leave in place is what the next, or a helper, may find.
CommandInv(u) ==
    /\ upStep[u] # "idle" => Offered(upRelease[u])
    /\ upStep[u] \notin {"idle", "chosen"} =>
            /\ upTemp[u] \in Binary /\ upTemp[u].version = upRelease[u].version
    /\ upStep[u] \in {"verified", "ready"} =>
            upTemp[u].whole /\ upRelease[u].sidecar = "matches"
    /\ upStep[u] = "ready" => upTemp[u].reports = upRelease[u].version
UpdateInv ==
    /\ upPublished \subseteq Releases
    /\ upStep \in [Updaters -> {"idle", "chosen", "downloaded", "verified", "ready"}]
    /\ DOMAIN upRelease = Updaters /\ DOMAIN upTemp = Updaters
    /\ \A u \in Updaters : CommandInv(u)
    /\ upTarget = FirstBinary \/ Installed(upTarget)
    /\ upStaged = NoBinary \/ Installed(upStaged)

LEMMA UpdateInvHolds == UpdateSpec => []UpdateInv
<1>1. UpdateInit => UpdateInv
  BY UpdateAssumption DEF UpdateInit, UpdateInv, CommandInv
<1>2. ASSUME UpdateInv, [UpdateNext]_upVars PROVE UpdateInv'
  <2>0. \A r \in Releases : r.version \in Seq(Nat) /\ r.reports \in Seq(Nat)
    BY UpdateAssumption
  <2>1. ASSUME NEW u \in Updaters, UpdateChooses(u) PROVE UpdateInv'
    <3>1. PICK r \in upPublished :
            /\ IsLatest(r) /\ upRelease' = [upRelease EXCEPT ![u] = r]
            /\ Comparable(r.version, upTarget.reports) => Newer(r.version, upTarget.reports)
      BY <2>1 DEF UpdateChooses
    <3>2. r.listed /\ Len(r.version) = 3 /\ r.version \in Seq(Nat)
      BY <3>1, <1>2, <2>0 DEF IsLatest, ServerReleases, UpdateInv
    <3>3. Later(r.version)
      <4>1. CASE upTarget = FirstBinary
        BY <4>1, <3>1, <3>2 DEF Later, Comparable
      <4>2. CASE Installed(upTarget)
        <5>1. /\ Newer(r.version, upTarget.version) /\ upTarget.version \in Seq(Nat)
              /\ Later(upTarget.version)
          BY <4>2, <3>1, <3>2 DEF Installed, Comparable, Binary
        <5>2. FirstBinary.reports \in Seq(Nat)
          BY UpdateAssumption DEF Binary
        <5>3. QED  BY <5>1, <5>2, <3>2, NewerIsTransitive DEF Later
      <4>3. QED  BY <4>1, <4>2, <1>2 DEF UpdateInv
    <3>4. QED  BY <1>2, <2>1, <3>1, <3>2, <3>3 DEF UpdateInv, CommandInv, UpdateChooses,
                 Offered, Installed, Later
  <2>2. ASSUME NEW u \in Updaters, UpdateDownloads(u) PROVE UpdateInv'
    <3>1. PICK whole \in BOOLEAN : upTemp' = [upTemp EXCEPT ![u] =
            [version |-> upRelease[u].version, whole |-> whole, reports |-> upRelease[u].reports]]
      BY <2>2 DEF UpdateDownloads
    <3>2. upRelease[u] \in Releases
      BY <1>2, <2>2 DEF UpdateInv, CommandInv, UpdateDownloads, Offered
    <3>3. QED  BY <1>2, <2>2, <2>0, <3>1, <3>2 DEF UpdateInv, CommandInv, UpdateDownloads,
                 Offered, Installed, Later, Binary
  <2>3. ASSUME NEW u \in Updaters, UpdateVerifies(u) PROVE UpdateInv'
    BY <1>2, <2>3 DEF UpdateInv, CommandInv, UpdateVerifies, Offered, Installed, Later
  <2>4. ASSUME NEW u \in Updaters, UpdateValidates(u) PROVE UpdateInv'
    BY <1>2, <2>4 DEF UpdateInv, CommandInv, UpdateValidates, Offered, Installed, Later
  <2>5. ASSUME NEW u \in Updaters, UpdateReplaces(u) PROVE UpdateInv'
    <3>1. Installed(upTemp[u])
      BY <1>2, <2>5 DEF UpdateInv, CommandInv, UpdateReplaces, Offered, Installed
    <3>2. QED  BY <1>2, <2>5, <3>1 DEF UpdateInv, CommandInv, UpdateReplaces, Ended, Offered,
                 Installed, Later
  <2>6. ASSUME NEW u \in Updaters, UpdateHelperMissing(u) \/ UpdateFails(u) PROVE UpdateInv'
    BY <1>2, <2>6 DEF UpdateInv, CommandInv, UpdateHelperMissing, UpdateFails, Ended,
       Offered, Installed, Later
  <2>7. CASE HelperMoves
    BY <1>2, <2>7 DEF UpdateInv, CommandInv, HelperMoves, Offered, Installed, Later
  <2>8. CASE HelperGivesUp \/ NoticeStarts \/ NoticeAsks \/ ServerStarts
    BY <1>2, <2>8 DEF UpdateInv, CommandInv, HelperGivesUp, NoticeStarts, NoticeAsks,
       ServerStarts, Offered, Installed, Later
  <2>9. ASSUME NEW r \in Releases, Publish(r) PROVE UpdateInv'
    BY <1>2, <2>9 DEF UpdateInv, CommandInv, Publish, Offered, Installed, Later
  <2>10. CASE UNCHANGED upVars
    BY <1>2, <2>10 DEF UpdateInv, CommandInv, upVars, Offered, Installed, Later
  <2>11. QED  BY <1>2, <2>1, <2>2, <2>3, <2>4, <2>5, <2>6, <2>7, <2>8, <2>9, <2>10
             DEF UpdateNext
<1>3. QED  BY <1>1, <1>2, PTL DEF UpdateSpec

\* The executable a user is left with is the first one or one that was published,
\* whole, verified, and newer, whichever commands and helpers ran side by side
\* (internal/app/update.go).
THEOREM ExecutablesAreWhole == UpdateSpec => []ExecutableIsWhole
<1>1. UpdateInv => ExecutableIsWhole
  BY DEF UpdateInv, ExecutableIsWhole, Installed, Later, Comparable
<1>2. QED  BY <1>1, UpdateInvHolds, PTL

-----------------------------------------------------------------------------
(* Setup                                                                    *)

\* The first marker of a text, and the first end marker after it.
IsFirst(text, item, i) ==
    i \in 1..Len(text) /\ text[i] = item /\ \A j \in 1..(i - 1) : text[j] # item

LEMMA FirstOfSome ==
    ASSUME NEW I, I \subseteq Nat, I # {}
    PROVE  Min(I) \in I /\ \A i \in I : Min(I) <= i
<1>1. PICK x \in I : \A y \in I : ~(y < x)
  BY LeastNatural
<1>2. \E z \in I : \A y \in I : z <= y
  BY <1>1
<1>3. QED  BY <1>2 DEF Min

LEMMA WhereBlockStarts ==
    ASSUME NEW text \in Seq(GuideItems)
    PROVE  \/ BlockStart(text) = 0 /\ \A i \in 1..Len(text) : text[i] # "start"
           \/ IsFirst(text, "start", BlockStart(text))
<1> DEFINE I == {i \in 1..Len(text) : text[i] = "start"}
<1>1. BlockStart(text) = IF I # {} THEN Min(I) ELSE 0
  BY DEF BlockStart, SelectInSeq
<1>2. I \subseteq Nat /\ \A i \in 1..Len(text) : i \in I <=> text[i] = "start"
  OBVIOUS
<1>3. CASE I = {}
  BY <1>1, <1>2, <1>3
<1>4. CASE I # {}
  <2>1. Min(I) \in I /\ \A i \in I : Min(I) <= i
    BY <1>2, <1>4, FirstOfSome
  <2> HIDE DEF I
  <2> DEFINE n == Min(I)
  <2>2. BlockStart(text) = n /\ n \in I /\ \A i \in I : n <= i
    BY <1>1, <1>4, <2>1
  <2> HIDE DEF n
  <2>3. n \in 1..Len(text) /\ text[n] = "start"
    BY <2>2 DEF I
  <2>4. \A j \in 1..(n - 1) : text[j] # "start"
    BY <2>2, <2>3, <1>2
  <2>5. QED  BY <2>2, <2>3, <2>4 DEF IsFirst
<1>5. QED  BY <1>3, <1>4

LEMMA BlockStartsAt ==
    ASSUME NEW text \in Seq(GuideItems), NEW i, IsFirst(text, "start", i)
    PROVE  BlockStart(text) = i
BY WhereBlockStarts DEF IsFirst

LEMMA NoBlock ==
    ASSUME NEW text \in Seq(GuideItems), \A i \in 1..Len(text) : text[i] # "start"
    PROVE  BlockStart(text) = 0
BY WhereBlockStarts DEF IsFirst

LEMMA WhereBlockEnds ==
    ASSUME NEW text \in Seq(GuideItems), NEW s \in 1..Len(text), BlockStart(text) = s
    PROVE  \/ BlockEnd(text) = 0 /\ \A i \in (s + 1)..Len(text) : text[i] # "end"
           \/ /\ BlockEnd(text) \in (s + 1)..Len(text) /\ text[BlockEnd(text)] = "end"
              /\ \A j \in (s + 1)..(BlockEnd(text) - 1) : text[j] # "end"
<1> DEFINE after == SubSeq(text, s + 1, Len(text))
           I == {i \in 1..Len(after) : after[i] = "end"}
           end == IF I # {} THEN Min(I) ELSE 0
<1>1. BlockEnd(text) = IF end = 0 THEN 0 ELSE s + end
  BY DEF BlockEnd, SelectInSeq
<1>2. /\ Len(after) = Len(text) - s
      /\ \A i \in 1..(Len(text) - s) : after[i] = text[s + i]
  OBVIOUS
<1>3. I \subseteq Nat \ {0} /\ \A i \in 1..(Len(text) - s) : i \in I <=> text[s + i] = "end"
  BY <1>2
<1>4. \A i \in (s + 1)..Len(text) : i - s \in 1..(Len(text) - s) /\ s + (i - s) = i
  OBVIOUS
<1>5. CASE I = {}
  BY <1>1, <1>3, <1>4, <1>5
<1>6. CASE I # {}
  <2>1. Min(I) \in I /\ \A i \in I : Min(I) <= i
    BY <1>3, <1>6, FirstOfSome
  <2>2. Min(I) \in 1..(Len(text) - s)
    BY <2>1, <1>2
  <2> HIDE DEF I
  <2> DEFINE n == Min(I)
  <2>3. BlockEnd(text) = s + n /\ n \in I /\ n \in 1..(Len(text) - s) /\ \A i \in I : n <= i
    BY <1>1, <1>3, <1>6, <2>1, <2>2
  <2> HIDE DEF n
  <2>4. text[s + n] = "end" /\ s + n \in (s + 1)..Len(text)
    BY <2>3, <1>3
  <2>5. \A j \in (s + 1)..(s + n - 1) : text[j] # "end"
    <3>1. TAKE j \in (s + 1)..(s + n - 1)
    <3>2. j - s \notin I /\ j - s \in 1..(Len(text) - s) /\ s + (j - s) = j
      BY <2>3
    <3>3. QED  BY <3>2, <1>3
  <2>6. QED  BY <2>3, <2>4, <2>5
<1>7. QED  BY <1>5, <1>6

LEMMA BlockEndsAt ==
    ASSUME NEW text \in Seq(GuideItems), NEW s \in 1..Len(text), BlockStart(text) = s,
           NEW e \in (s + 1)..Len(text), text[e] = "end",
           \A j \in (s + 1)..(e - 1) : text[j] # "end"
    PROVE  BlockEnd(text) = e
<1> DEFINE b == BlockEnd(text)
<1>1. b = 0 \/ (b \in (s + 1)..Len(text) /\ text[b] = "end"
                  /\ \A j \in (s + 1)..(b - 1) : text[j] # "end")
  BY WhereBlockEnds
<1>2. b # 0
  BY WhereBlockEnds
<1> HIDE DEF b
<1>3. ~(b < e) /\ ~(e < b)
  BY <1>1, <1>2
<1>4. QED  BY <1>1, <1>2, <1>3 DEF b

\* Between two texts that hold no marker the block is all there is to replace.
LEMMA JoinedTexts ==
    ASSUME NEW S, NEW a \in Seq(S), NEW b \in Seq(S)
    PROVE  /\ a \o b \in Seq(S) /\ Len(a \o b) = Len(a) + Len(b)
           /\ \A i \in 1..Len(a) : (a \o b)[i] = a[i]
           /\ \A i \in 1..Len(b) : (a \o b)[Len(a) + i] = b[i]
<1>1. a \o b \in Seq(S) /\ Len(a \o b) = Len(a) + Len(b)
  BY ConcatProperties
<1>2. \A i \in 1..Len(a) + Len(b) : (a \o b)[i] = IF i <= Len(a) THEN a[i] ELSE b[i - Len(a)]
  BY ConcatProperties
<1>3. Len(a) \in Nat /\ Len(b) \in Nat
  OBVIOUS
<1>4. ASSUME NEW i \in 1..Len(b) PROVE (a \o b)[Len(a) + i] = b[i]
  <2>1. Len(a) + i \in 1..Len(a) + Len(b) /\ ~(Len(a) + i <= Len(a)) /\ Len(a) + i - Len(a) = i
    BY <1>3
  <2>2. QED  BY <2>1, <1>2
<1>5. QED  BY <1>1, <1>2, <1>3, <1>4

LEMMA OutsideOfBlock ==
    ASSUME NEW a \in Seq(GuideItems), NEW b \in Seq(GuideItems),
           \A i \in 1..Len(a) : a[i] # "start"
    PROVE  Outside(a \o Block \o b) = a \o b
<1> DEFINE text == a \o Block \o b
           s == Len(a) + 1
<1>1. Block \in Seq(GuideItems) /\ Len(Block) = 3
      /\ Block[1] = "start" /\ Block[2] = "guide" /\ Block[3] = "end"
  BY DEF Block, GuideItems
<1>2. /\ text \in Seq(GuideItems) /\ Len(text) = Len(a) + 3 + Len(b)
      /\ \A i \in 1..Len(a) : text[i] = a[i]
      /\ text[s] = "start" /\ text[s + 1] = "guide" /\ text[s + 2] = "end"
      /\ \A i \in 1..Len(b) : text[Len(a) + 3 + i] = b[i]
  <2> DEFINE ab == a \o Block
  <2>1. /\ ab \in Seq(GuideItems) /\ Len(ab) = Len(a) + 3
        /\ \A i \in 1..Len(a) : ab[i] = a[i]
        /\ \A i \in 1..3 : ab[Len(a) + i] = Block[i]
    <3>1. /\ ab \in Seq(GuideItems) /\ Len(ab) = Len(a) + Len(Block)
          /\ \A i \in 1..Len(a) : ab[i] = a[i]
          /\ \A i \in 1..Len(Block) : ab[Len(a) + i] = Block[i]
      <4>1. a \in Seq(GuideItems) /\ Block \in Seq(GuideItems)
        BY <1>1
      <4>2. QED  BY ONLY <4>1, JoinedTexts
    <3>2. QED  BY <1>1, <3>1
  <2>2. ab[s] = "start" /\ ab[s + 1] = "guide" /\ ab[s + 2] = "end"
    <3>1. ab[Len(a) + 1] = Block[1] /\ ab[Len(a) + 2] = Block[2] /\ ab[Len(a) + 3] = Block[3]
      BY <2>1
    <3>2. s + 1 = Len(a) + 2 /\ s + 2 = Len(a) + 3
      OBVIOUS
    <3>3. QED  BY <3>1, <3>2, <1>1
  <2> HIDE DEF ab
  <2>3. text = ab \o b
    BY DEF ab
  <2>4. /\ text \in Seq(GuideItems) /\ Len(text) = Len(ab) + Len(b)
        /\ \A i \in 1..Len(ab) : text[i] = ab[i]
        /\ \A i \in 1..Len(b) : text[Len(ab) + i] = b[i]
    <3>1. /\ ab \o b \in Seq(GuideItems) /\ Len(ab \o b) = Len(ab) + Len(b)
          /\ \A i \in 1..Len(ab) : (ab \o b)[i] = ab[i]
          /\ \A i \in 1..Len(b) : (ab \o b)[Len(ab) + i] = b[i]
      <4>1. ab \in Seq(GuideItems) /\ b \in Seq(GuideItems)
        BY <2>1
      <4>2. QED  BY ONLY <4>1, JoinedTexts
    <3>2. QED  BY <2>3, <3>1
  <2>5. /\ s \in 1..Len(ab) /\ s + 1 \in 1..Len(ab) /\ s + 2 \in 1..Len(ab)
        /\ \A i \in 1..Len(a) : i \in 1..Len(ab)
    BY <2>1
  <2> HIDE DEF text, s
  <2>6. QED  BY <2>1, <2>2, <2>4, <2>5
<1>0. s \in 1..Len(text) /\ s + 2 \in (s + 1)..Len(text) /\ s - 1 = Len(a)
  BY <1>2
<1> HIDE DEF text, s
<1>3. BlockStart(text) = s
  <2>1. IsFirst(text, "start", s)
    BY <1>0, <1>2 DEF IsFirst
  <2>2. QED  BY <1>2, <2>1, BlockStartsAt
<1>4. BlockEnd(text) = s + 2
  <2>1. \A j \in (s + 1)..(s + 2 - 1) : text[j] # "end"
    <3>1. \A j \in (s + 1)..(s + 2 - 1) : j = s + 1
      BY <1>0
    <3>2. text[s + 1] = "guide" /\ "guide" # "end"
      BY <1>2
    <3>3. ASSUME NEW j \in (s + 1)..(s + 2 - 1) PROVE text[j] # "end"
      BY <3>2, j = s + 1, <3>1
    <3>4. QED  BY <3>3
  <2> DEFINE e == s + 2
  <2>2. /\ text \in Seq(GuideItems) /\ s \in 1..Len(text) /\ BlockStart(text) = s
        /\ e \in (s + 1)..Len(text) /\ text[e] = "end"
        /\ \A j \in (s + 1)..(e - 1) : text[j] # "end"
    BY <1>0, <1>2, <1>3, <2>1
  <2> HIDE DEF e
  <2>3. BlockEnd(text) = e
    BY <2>2, BlockEndsAt
  <2>4. QED  BY <2>3 DEF e
<1>5. SubSeq(text, 1, s - 1) = a
  BY <1>0, <1>2
<1>6. SubSeq(text, s + 2 + 1, Len(text)) = b
  BY <1>2 DEF s
<1>7. Outside(text) = SubSeq(text, 1, s - 1) \o SubSeq(text, s + 2 + 1, Len(text))
  <2>1. s # 0 /\ s + 2 # 0
    BY <1>0
  <2>2. QED  BY <2>1, <1>3, <1>4 DEF Outside
<1>8. QED  BY <1>5, <1>6, <1>7 DEF text

\* Writing the block into a text that is not refused leaves what is outside it.
LEMMA GuidanceStaysInside ==
    ASSUME NEW text \in Seq(GuideItems), ~Unpaired(text)
    PROVE  WithGuidance(text) \in Seq(GuideItems) /\ Outside(WithGuidance(text)) = Outside(text)
<1>0. Block \in Seq(GuideItems)
  BY DEF Block, GuideItems
<1>1. CASE BlockStart(text) = 0
  <2>1. \A i \in 1..Len(text) : text[i] # "start"
    BY <1>1, WhereBlockStarts DEF IsFirst
  <2>2. <<>> \in Seq(GuideItems) /\ text \o Block \o <<>> = text \o Block /\ text \o <<>> = text
    BY <1>0
  <2>3. Outside(text \o Block \o <<>>) = text \o <<>>
    BY <2>1, <2>2, OutsideOfBlock
  <2>4. Outside(text) = text /\ WithGuidance(text) = text \o Block
    BY <1>1 DEF WithGuidance, Outside
  <2>5. QED  BY <1>0, <2>2, <2>3, <2>4
<1>2. CASE BlockStart(text) # 0
  <2> DEFINE s == BlockStart(text)
             e == BlockEnd(text)
             a == SubSeq(text, 1, s - 1)
             b == SubSeq(text, e + 1, Len(text))
  <2>1. s \in 1..Len(text) /\ text[s] = "start" /\ \A j \in 1..(s - 1) : text[j] # "start"
    BY <1>2, WhereBlockStarts DEF IsFirst
  <2>2. e # 0
    BY <1>2 DEF Unpaired
  <2>3. e \in (s + 1)..Len(text)
    BY <2>1, <2>2, WhereBlockEnds
  <2>4. Outside(text) = a \o b /\ WithGuidance(text) = a \o Block \o b
    BY <1>2, <2>2 DEF Outside, WithGuidance
  <2> HIDE DEF s, e
  <2>5. a \in Seq(GuideItems) /\ b \in Seq(GuideItems) /\ \A i \in 1..Len(a) : a[i] # "start"
    BY <2>1, <2>3
  <2> HIDE DEF a, b
  <2>6. QED  BY <1>0, <2>4, <2>5, OutsideOfBlock
<1>3. QED  BY <1>1, <1>2

Kept == OtherEntries \union {"saved"}
Configs == [file : {"none", "absent", "bad", "json"}, canonical : {"none", "theirs", "ours"},
            legacy : {"none", "theirs", "ours"}, others : SUBSET Kept]
Registers(config) == Status(config) # "not configured"
\* The client being written, and whether one at a position is planned.
Written == SetupClients[stNext - Len(SetupClients)]

SetupTypeOK ==
    /\ stConfig \in [Selected -> Configs] /\ stPlan \in [Selected -> Configs]
    /\ stSnapshot \in Configs /\ stSeen \in [Selected -> SUBSET Kept]
    /\ stHad \subseteq Selected /\ stNext \in Nat \ {0}
    /\ stPhase \in {"begun", "removed", "refused", "failed", "killed", "done"}
    /\ stGuide \in Seq(GuideItems)

\* What a file is planned to hold registers the client and keeps what was found.
PlansRegister ==
    \A i \in DOMAIN SetupClients :
        i < stNext /\ SetupClients[i] \notin CommandClients =>
            Registers(stPlan[SetupClients[i]]) /\ stPlan[SetupClients[i]].file # "absent"
\* Only the client whose registration has just been removed is without one, and its
\* snapshot has it.
HadRegister ==
    \A c \in stHad :
        /\ stConfig[c].file # "absent"
        /\ stPhase \notin {"removed", "killed"} => Registers(stConfig[c])
        /\ stPhase = "removed" /\ c # Written => Registers(stConfig[c])
        /\ stPhase = "removed" /\ c = Written =>
                Registers(stSnapshot) /\ stSnapshot.file # "absent"
SetupInv ==
    /\ SetupTypeOK
    /\ \A c \in Selected : /\ stSeen[c] \subseteq stConfig[c].others
                           /\ stSeen[c] \subseteq stPlan[c].others
                           /\ stPhase = "removed" /\ c = Written =>
                                   stSeen[c] \subseteq stSnapshot.others
    /\ PlansRegister /\ HadRegister
    /\ stPhase = "removed" =>
            stNext > Len(SetupClients) /\ stNext <= 2 * Len(SetupClients)
    /\ stPhase = "refused" \/ (stPhase = "begun" /\ stNext <= Len(SetupClients)) => stWrote = {}
    /\ Outside(stGuide) = stMine

LEMMA RegisteredRegisters ==
    ASSUME NEW config \in Configs
    PROVE  /\ Registered(config) \in Configs /\ Registered(config).others = config.others
           /\ Registers(Registered(config)) /\ Registered(config).file = "json"
BY DEF Configs, Registered, Registers, Status

LEMMA UnregisteredKeeps ==
    ASSUME NEW config \in Configs
    PROVE  /\ Unregistered(config) \in Configs /\ Unregistered(config).others = config.others
           /\ Unregistered(config).file = config.file
BY DEF Configs, Unregistered

LEMMA SelectedClients ==
    /\ Len(SetupClients) \in Nat /\ DOMAIN SetupClients = 1..Len(SetupClients)
    /\ \A i \in 1..Len(SetupClients) : SetupClients[i] \in Selected
BY SetupAssumption DEF Selected

LEMMA SetupInvHolds == SetupSpec => []SetupInv
<1>1. SetupInit => SetupInv
  <2> SUFFICES ASSUME SetupInit PROVE SetupInv
    OBVIOUS
  <2>1. NoConfig \in Configs /\ NotRegistered \in Configs
        /\ [NotRegistered EXCEPT !.file = "bad"] \in Configs
    BY DEF NoConfig, NotRegistered, Configs, Kept
  <2>2. stConfig \in [Selected -> Configs]
    <3>1. [file : {"json"}, canonical : {"none", "theirs"}, legacy : {"none", "theirs"},
           others : {OtherEntries}]
            \union {NotRegistered, [NotRegistered EXCEPT !.file = "bad"]} \subseteq Configs
      BY <2>1 DEF Configs, Kept
    <3>2. QED  BY <3>1 DEF SetupInit
  <2>3. SetupTypeOK
    BY <2>1, <2>2, SetupAssumption DEF SetupInit, SetupTypeOK
  <2>4. PlansRegister
    BY SelectedClients DEF SetupInit, PlansRegister
  <2>5. HadRegister
    BY DEF SetupInit, HadRegister, Registers, Status
  <2>6. QED  BY <2>3, <2>4, <2>5 DEF SetupInit, SetupInv
<1>2. ASSUME SetupInv, [SetupNext]_stVars PROVE SetupInv'
  <2> USE DEF SetupTypeOK
  <2>0. /\ SetupTypeOK /\ Len(SetupClients) \in Nat
        /\ DOMAIN SetupClients = 1..Len(SetupClients)
        /\ \A i \in 1..Len(SetupClients) : SetupClients[i] \in Selected
    BY <1>2, SelectedClients DEF SetupInv
  <2>a. ASSUME Planning PROVE Current = SetupClients[stNext] /\ stNext \in 1..Len(SetupClients)
    BY <2>0, <2>a DEF Planning, Current
  <2>b. ASSUME Writing
        PROVE  /\ Current = Written /\ Written \in Selected
               /\ stNext - Len(SetupClients) \in 1..Len(SetupClients) /\ stPhase = "begun"
               /\ stNext > Len(SetupClients) /\ stNext <= 2 * Len(SetupClients)
    BY <2>0, <2>b DEF Writing, Planned, Planning, Current, Written
  <2>c. ASSUME NextClient, stNext > Len(SetupClients)
        PROVE  /\ stPhase' \in {"begun", "done"} /\ stNext' \in Nat \ {0}
               /\ stNext' > Len(SetupClients)
    BY <2>0, <2>c DEF NextClient
  <2>1. CASE SetupPlans
    <3> DEFINE c == SetupClients[stNext]
    <3>1. /\ c \in Selected /\ stPhase = "begun" /\ stNext \in 1..Len(SetupClients)
          /\ Current = c
      BY <2>0, <2>1, <2>a DEF SetupPlans, Planning
    <3>2. CASE Refusable(c)
      BY <1>2, <2>0, <2>1, <3>1, <3>2 DEF SetupPlans, SetupInv, PlansRegister, HadRegister
    <3>3. CASE ~Refusable(c)
      <4> DEFINE plan == IF c \in CommandClients THEN stConfig[c] ELSE Registered(stConfig[c])
      <4>1. /\ plan \in Configs /\ plan.others = stConfig[c].others
            /\ c \notin CommandClients => Registers(plan) /\ plan.file # "absent"
        BY <2>0, <3>1, RegisteredRegisters
      <4>2. /\ stPhase' = "begun" /\ stNext' = stNext + 1
            /\ stPlan' = [stPlan EXCEPT ![c] = plan]
            /\ stSeen' = [stSeen EXCEPT ![c] = stConfig[c].others]
            /\ UNCHANGED <<stConfig, stSnapshot, stGuide, stHad, stWrote, stMine>>
        BY <2>1, <3>1, <3>3 DEF SetupPlans
      <4> HIDE DEF plan, c
      <4>3. SetupTypeOK'
        BY <2>0, <3>1, <4>1, <4>2 DEF Configs
      <4>4. PlansRegister'
        BY <1>2, <2>0, <3>1, <4>1, <4>2 DEF SetupInv, PlansRegister, c
      <4>5. HadRegister'
        BY <1>2, <3>1, <4>2 DEF SetupInv, HadRegister
      <4>6. \A d \in Selected : stSeen'[d] \subseteq stConfig'[d].others
                                /\ stSeen'[d] \subseteq stPlan'[d].others
        BY <1>2, <2>0, <3>1, <4>1, <4>2 DEF SetupInv
      <4>7. QED  BY <1>2, <3>1, <4>2, <4>3, <4>4, <4>5, <4>6 DEF SetupInv
    <3>4. QED  BY <3>2, <3>3
  <2>2. CASE WritesFile
    <3> DEFINE c == Written
    <3>1. /\ c \in Selected /\ c \notin CommandClients /\ NextClient /\ stPhase = "begun"
          /\ stNext > Len(SetupClients) /\ stNext - Len(SetupClients) \in 1..Len(SetupClients)
          /\ stConfig' = [stConfig EXCEPT ![c] = stPlan[c]]
          /\ UNCHANGED <<stPlan, stSnapshot, stGuide, stSeen, stHad, stMine>>
      BY <2>2, <2>b DEF WritesFile
    <3>2. Registers(stPlan[c]) /\ stPlan[c].file # "absent"
      BY <1>2, <2>0, <3>1 DEF SetupInv, PlansRegister, Written
    <3> HIDE DEF c
    <3>4. HadRegister'
      BY <1>2, <2>0, <2>c, <3>1, <3>2 DEF SetupInv, HadRegister
    <3>5. PlansRegister'
      BY <1>2, <2>0, <2>c, <3>1 DEF SetupInv, PlansRegister
    <3>6. QED  BY <1>2, <2>0, <2>c, <3>1, <3>4, <3>5 DEF SetupInv
  <2>3. CASE RunsAdd
    <3> DEFINE c == Written
    <3>1. /\ c \in Selected /\ NextClient /\ stPhase = "begun" /\ stNext > Len(SetupClients)
          /\ \/ UNCHANGED stConfig
             \/ stConfig' = [stConfig EXCEPT ![c] = Registered(stConfig[c])]
          /\ UNCHANGED <<stPlan, stSnapshot, stGuide, stSeen, stHad, stMine>>
      BY <2>3, <2>b DEF RunsAdd
    <3> HIDE DEF c
    <3>2. \A d \in Selected :
            /\ stConfig'[d] \in Configs /\ stConfig'[d].others = stConfig[d].others
            /\ Registers(stConfig[d]) => Registers(stConfig'[d])
            /\ stConfig[d].file # "absent" => stConfig'[d].file # "absent"
      BY <2>0, <3>1, RegisteredRegisters
    <3>3. stConfig' \in [Selected -> Configs]
      BY <2>0, <3>1, <3>2
    <3>4. HadRegister'
      BY <1>2, <2>0, <2>c, <3>1, <3>2 DEF SetupInv, HadRegister
    <3>5. PlansRegister'
      BY <1>2, <2>0, <2>c, <3>1 DEF SetupInv, PlansRegister
    <3>6. QED  BY <1>2, <2>0, <2>c, <3>1, <3>2, <3>3, <3>4, <3>5 DEF SetupInv
  <2>4. CASE RunsRemove
    <3> DEFINE c == Written
    <3>1. /\ c \in Selected /\ stPhase = "begun" /\ stPhase' = "removed"
          /\ stNext > Len(SetupClients) /\ stNext <= 2 * Len(SetupClients)
          /\ stSnapshot' = stConfig[c]
          /\ stConfig' = [stConfig EXCEPT ![c] = Unregistered(stConfig[c])]
          /\ UNCHANGED <<stNext, stPlan, stGuide, stSeen, stHad, stMine>>
      BY <2>4, <2>b DEF RunsRemove
    <3>0. Written' = c
      BY <3>1 DEF Written
    <3> HIDE DEF c
    <3>2. /\ Unregistered(stConfig[c]) \in Configs
          /\ Unregistered(stConfig[c]).others = stConfig[c].others
          /\ Unregistered(stConfig[c]).file = stConfig[c].file
      BY <2>0, <3>1, UnregisteredKeeps
    <3>3. HadRegister'
      BY <1>2, <2>0, <3>0, <3>1, <3>2 DEF SetupInv, HadRegister
    <3>4. PlansRegister'
      BY <1>2, <3>1 DEF SetupInv, PlansRegister
    <3>5. QED  BY <1>2, <2>0, <3>0, <3>1, <3>2, <3>3, <3>4 DEF SetupInv
  <2>5. CASE RunsAddAgain
    <3> DEFINE c == Written
               canonical == IF stSnapshot.canonical = "none" THEN "none" ELSE "ours"
               legacy == IF stSnapshot.canonical = "none" THEN "ours" ELSE "none"
               new == [stConfig[c] EXCEPT !.canonical = canonical, !.legacy = legacy]
    <3>1. /\ stPhase = "removed" /\ NextClient /\ stNext > Len(SetupClients)
          /\ stNext - Len(SetupClients) \in 1..Len(SetupClients) /\ c \in Selected
          /\ UNCHANGED <<stPlan, stSnapshot, stGuide, stSeen, stHad, stMine>>
      BY <1>2, <2>0, <2>5 DEF RunsAddAgain, SetupInv, Written
    <3>2. stConfig' = [stConfig EXCEPT ![c] = new]
      BY <2>5, <2>0, <3>1 DEF RunsAddAgain, Written
    <3>3. /\ new \in Configs /\ new.others = stConfig[c].others
          /\ new.file = stConfig[c].file
          /\ new.file # "absent" => Registers(new)
      <4>1. stConfig[c] \in Configs
        BY <2>0, <3>1
      <4>2. QED  BY <4>1 DEF Configs, Registers, Status
    <3> HIDE DEF new
    <3> HIDE DEF c
    <3>4. HadRegister'
      BY <1>2, <2>0, <2>c, <3>1, <3>2, <3>3 DEF SetupInv, HadRegister, c
    <3>5. PlansRegister'
      BY <1>2, <2>0, <2>c, <3>1 DEF SetupInv, PlansRegister
    <3>6. QED  BY <1>2, <2>0, <2>c, <3>1, <3>2, <3>3, <3>4, <3>5 DEF SetupInv
  <2>6. CASE RestoresSnapshot
    <3> DEFINE c == Written
    <3>1. /\ stPhase = "removed" /\ stPhase' = "failed"
          /\ stNext - Len(SetupClients) \in 1..Len(SetupClients) /\ c \in Selected
          /\ stConfig' = [stConfig EXCEPT ![c] = stSnapshot]
          /\ UNCHANGED <<stNext, stPlan, stSnapshot, stGuide, stSeen, stHad, stMine>>
      BY <1>2, <2>0, <2>6 DEF RestoresSnapshot, SetupInv, Written
    <3> HIDE DEF c
    <3>2. HadRegister'
      BY <1>2, <2>0, <3>1 DEF SetupInv, HadRegister, c
    <3>3. PlansRegister'
      BY <1>2, <3>1 DEF SetupInv, PlansRegister
    <3>4. \A d \in Selected : stSeen'[d] \subseteq stConfig'[d].others
      BY <1>2, <2>0, <3>1 DEF SetupInv, c
    <3>5. QED  BY <1>2, <2>0, <3>1, <3>2, <3>3, <3>4 DEF SetupInv
  <2>7. CASE SetupStops
    BY <1>2, <2>0, <2>7 DEF SetupStops, SetupInv, PlansRegister, HadRegister
  <2>8. ASSUME NEW c \in Selected, ClientSaves(c) PROVE SetupInv'
    <3> DEFINE new == [stConfig[c] EXCEPT !.others = stConfig[c].others \union {"saved"}]
    <3>1. /\ stConfig' = [stConfig EXCEPT ![c] = new]
          /\ UNCHANGED <<stPhase, stNext, stPlan, stSnapshot, stGuide, stSeen, stHad, stWrote, stMine>>
      BY <2>8, <2>0 DEF ClientSaves
    <3>2. /\ new \in Configs /\ stConfig[c].others \subseteq new.others
          /\ new.file = stConfig[c].file /\ (Registers(stConfig[c]) => Registers(new))
      <4>1. stConfig[c] \in Configs
        BY <2>0
      <4>2. QED  BY <4>1 DEF Configs, Registers, Status, Kept
    <3>3. Written' = Written
      BY <3>1 DEF Written
    <3> HIDE DEF new
    <3>4. HadRegister'
      BY <1>2, <2>0, <3>1, <3>2, <3>3 DEF SetupInv, HadRegister
    <3>5. PlansRegister'
      BY <1>2, <3>1 DEF SetupInv, PlansRegister
    <3>6. QED  BY <1>2, <2>0, <3>1, <3>2, <3>3, <3>4, <3>5 DEF SetupInv
  <2>9. CASE DoctorRuns
    BY <1>2, <2>9 DEF DoctorRuns, SetupInv, PlansRegister, HadRegister, Written
  <2>10. CASE ClaudeMD
    <3>1. stGuide' \in Seq(GuideItems) /\ Outside(stGuide') = Outside(stGuide)
      BY <2>0, <2>10, GuidanceStaysInside DEF ClaudeMD
    <3>2. QED  BY <1>2, <2>10, <3>1 DEF ClaudeMD, SetupInv, PlansRegister, HadRegister, Written
  <2>11. CASE UNCHANGED stVars
    BY <1>2, <2>11 DEF stVars, SetupInv, PlansRegister, HadRegister, Written
  <2>12. QED  BY <1>2, <2>1, <2>2, <2>3, <2>4, <2>5, <2>6, <2>7, <2>8, <2>9, <2>10, <2>11
             DEF SetupNext
<1>3. QED  BY <1>1, <1>2, PTL DEF SetupSpec

\* Whatever fails and whatever a client saves meanwhile, setup keeps what it found
\* beside its own entry, leaves no client without the registration it had unless it
\* dies between removing and adding, and refuses before it writes; and the guidance
\* stays between its markers (internal/app/setup.go, claudemd.go).
THEOREM UserContentStays == SetupSpec => []UserContentKept
<1>1. SetupInv => UserContentKept
  BY DEF SetupInv, UserContentKept, HadRegister, Registers
<1>2. QED  BY <1>1, SetupInvHolds, PTL

-----------------------------------------------------------------------------
(* Search                                                                   *)

RunFields == {"step", "query", "vector", "todo", "entries", "chunk", "found"}
SearchTypeOK ==
    /\ srEntry \in [Files -> [version : Nat, vectors : BOOLEAN]]
    /\ srChunks \in [Files -> Nat] /\ srVectors \in [Files -> Nat]
    /\ DOMAIN srRun = RunFields
    /\ srRun.entries \in [Files -> [version : Nat, vectors : BOOLEAN]]
    /\ DOMAIN srWriter = {"file", "version", "embedded", "step"}
    /\ srWriter.step \in {"none", "vectors", "entry"}
    /\ srWriter.step # "none" =>
            srWriter.file \in Files /\ srWriter.version \in Nat /\ srWriter.embedded \in BOOLEAN

\* A commit raises the version of its file; a file nobody commits has the chunks of
\* its entry, and its vectors if the entry says so.
WrittenNow(f) == ~LockIsFree /\ srWriter.file = f
CommitsAreInOrder ==
    \A f \in Files :
        /\ WrittenNow(f) => srWriter.version > srEntry[f].version
        /\ WrittenNow(f) /\ srWriter.step = "entry" =>
                srVectors[f] = IF srWriter.embedded THEN srWriter.version ELSE 0
        /\ WrittenNow(f) => srChunks[f] = srWriter.version
        /\ ~WrittenNow(f) => srChunks[f] = srEntry[f].version
        /\ ~WrittenNow(f) /\ srEntry[f].vectors => srVectors[f] = srEntry[f].version
        /\ srEntry[f].vectors => srEntry[f].version # 0

\* The entry the search took is the one in place: nothing was committed since, nor is
\* about to be.
StillTaken(f) ==
    f \notin srLeft /\ ~WrittenNow(f) /\ srEntry[f].version = srRun.entries[f].version
Entered == srRun.step \in {"read", "vectors", "score", "stale"}
SearchInv ==
    /\ SearchTypeOK /\ CommitsAreInOrder
    /\ Entered => \A f \in Files :
        /\ srRun.entries[f].vectors => srRun.entries[f].version # 0
        /\ f \notin srLeft => srEntry[f].version >= srRun.entries[f].version
        /\ StillTaken(f) /\ srRun.entries[f].vectors =>
                srVectors[f] = srRun.entries[f].version
    /\ srRun.step \in {"vectors", "stale"} =>
        \A f \in Files : f = Head(srRun.todo) => srRun.entries[f].vectors
    /\ srRun.step = "vectors" =>
        \A f \in Files : f = Head(srRun.todo) /\ StillTaken(f) =>
            srRun.chunk = srRun.entries[f].version
    /\ srRun.step = "stale" =>
        \A f \in Files : f = Head(srRun.todo) => ~StillTaken(f)

LEMMA SearchInvHolds == SearchSpec => []SearchInv
<1>1. SearchInit => SearchInv
  BY DEF SearchInit, SearchInv, SearchTypeOK, CommitsAreInOrder, Entered, NotIndexed, NoWriter,
     NoRun, RunFields, WrittenNow, LockIsFree
<1>2. ASSUME SearchInv, [SearchNext]_srVars PROVE SearchInv'
  <2> USE <1>2 DEF SearchInv, SearchTypeOK, CommitsAreInOrder, Entered, StillTaken, WrittenNow,
               LockIsFree, RunFields
  <2>1. ASSUME NEW f \in Files, NEW v \in SearchVersions, NEW embedded \in BOOLEAN,
               CommitChunks(f, v, embedded)
        PROVE  SearchInv'
    BY <2>1, SearchAssumption DEF CommitChunks
  <2>2. CASE CommitVectors
    BY <2>2 DEF CommitVectors
  <2>3. CASE CommitEntry
    BY <2>3 DEF CommitEntry, NoWriter
  <2>4. ASSUME NEW f \in Files, BackfillVectors(f) PROVE SearchInv'
    <3> DEFINE new == [srEntry[f] EXCEPT !.vectors = TRUE]
    <3>1. /\ new \in [version : Nat, vectors : BOOLEAN] /\ new.version = srEntry[f].version
          /\ new.version # 0
      <4>1. srEntry[f] \in [version : Nat, vectors : BOOLEAN] /\ srEntry[f].version # 0
        BY <2>4 DEF BackfillVectors
      <4>2. QED  BY ONLY <4>1
    <3>2. /\ srEntry' = [srEntry EXCEPT ![f] = new]
          /\ srVectors' = [srVectors EXCEPT ![f] = srEntry[f].version]
          /\ UNCHANGED <<srWriter, srRun, srLeft, srChunks>> /\ srWriter.step = "none"
      BY <2>4 DEF BackfillVectors
    <3> HIDE DEF new
    <3>3. SearchTypeOK'
      BY <3>1, <3>2
    <3>4. CommitsAreInOrder'
      BY <3>1, <3>2
    <3>5. ASSUME Entered, NEW g \in Files
          PROVE  /\ srEntry'[g].version = srEntry[g].version
                 /\ StillTaken(g)' => StillTaken(g)
                 /\ StillTaken(g) /\ srRun.entries[g].vectors =>
                        srVectors'[g] = srRun.entries[g].version
      BY <3>1, <3>2, <3>5
    <3>6. QED  BY <3>2, <3>3, <3>4, <3>5
  <2>5. ASSUME NEW f \in Files, DropFile(f) PROVE SearchInv'
    BY <2>5 DEF DropFile, NotIndexed
  <2>6. ASSUME NEW query \in SearchQueries, SearchBegins(query) PROVE SearchInv'
    BY <2>6 DEF SearchBegins, NoRun, NotIndexed
  <2>7. CASE SearchEmbeds
    BY <2>7 DEF SearchEmbeds
  <2>8. CASE BackoffEnds
    BY <2>8 DEF BackoffEnds
  <2>9. CASE SearchEnters
    BY <2>9 DEF SearchEnters
  <2>10. CASE SearchReadsChunks
    BY <2>10 DEF SearchReadsChunks, ScoredWith
  <2>11. CASE SearchReadsVectors
    BY <2>11 DEF SearchReadsVectors, ScoredWith, Paired
  <2>12. CASE MarkVectorsStale
    <3> DEFINE f == Head(srRun.todo)
    <3>1. \/ srEntry' = [srEntry EXCEPT ![f] = [srEntry[f] EXCEPT !.vectors = FALSE]]
          \/ srEntry' = srEntry
      BY <2>12 DEF MarkVectorsStale
    <3> HIDE DEF f
    <3>2. /\ srEntry' \in [Files -> [version : Nat, vectors : BOOLEAN]]
          /\ \A g \in Files : /\ srEntry'[g].version = srEntry[g].version
                              /\ srEntry'[g].vectors => srEntry[g].vectors
      <4> DEFINE new == [srEntry[f] EXCEPT !.vectors = FALSE]
      <4>1. CASE f \notin Files
        BY <3>1, <4>1
      <4>2. CASE f \in Files
        <5>1. /\ new \in [version : Nat, vectors : BOOLEAN] /\ new.version = srEntry[f].version
              /\ new.vectors = FALSE
          <6>1. srEntry[f] \in [version : Nat, vectors : BOOLEAN]
            BY <4>2
          <6>2. QED  BY ONLY <6>1
        <5>2. srEntry' = [srEntry EXCEPT ![f] = new] \/ srEntry' = srEntry
          BY <3>1
        <5> HIDE DEF new
        <5>3. QED  BY <4>2, <5>1, <5>2
      <4>3. QED  BY <4>1, <4>2
    <3>3. /\ srRun' = [srRun EXCEPT !.step = "score"]
          /\ UNCHANGED <<srChunks, srVectors, srWriter, srLeft>>
          /\ srRun.step = "stale"
      BY <2>12 DEF MarkVectorsStale
    <3>4. QED  BY <3>2, <3>3
  <2>13. CASE SearchScores
    BY <2>13 DEF SearchScores, ScoredWith
  <2>14. CASE SearchAnswers
    BY <2>14 DEF SearchAnswers, NoRun, NotIndexed
  <2>15. CASE SearchCancelled
    BY <2>15 DEF SearchCancelled, NoRun, NotIndexed
  <2>16. CASE UNCHANGED srVars
    BY <2>16 DEF srVars
  <2> HIDE DEF SearchInv, SearchTypeOK, CommitsAreInOrder, Entered, StillTaken, WrittenNow,
               LockIsFree, RunFields
  <2>17. QED  BY ONLY <1>2, <2>1, <2>2, <2>3, <2>4, <2>5, <2>6, <2>7, <2>8, <2>9, <2>10,
                 <2>11, <2>12, <2>13, <2>14, <2>15, <2>16 DEF SearchNext
<1>3. QED  BY <1>1, <1>2, PTL DEF SearchSpec

\* A search that finds chunk and vectors apart marks only an entry it did not take the
\* files of: a commit since it began keeps the vectors it stored (searchContext and
\* markVectorsStale in internal/indexing/indexer.go).
THEOREM FreshVectorsAreKept == SearchSpec => FreshVectorsKept
<1> DEFINE Keeps ==
        \A f \in Files :
            (srEntry[f].vectors /\ srEntry'[f] # srEntry[f]
                 /\ srEntry'[f].version = srEntry[f].version)
                => f \in srLeft \/ srVectors[f] # srEntry[f].version
                                \/ srChunks[f] # srEntry[f].version
<1>1. ASSUME SearchInv, [SearchNext]_srVars PROVE Keeps
  <2> USE <1>1 DEF SearchInv, SearchTypeOK, CommitsAreInOrder, StillTaken, WrittenNow, LockIsFree
  <2>1. CASE UNCHANGED srEntry
    BY <2>1
  <2>2. CASE CommitEntry
    BY <2>2 DEF CommitEntry
  <2>3. ASSUME NEW f \in Files, BackfillVectors(f) PROVE Keeps
    BY <2>3 DEF BackfillVectors
  <2>4. ASSUME NEW f \in Files, DropFile(f) PROVE Keeps
    BY <2>4 DEF DropFile, NotIndexed
  <2>5. CASE MarkVectorsStale
    <3>1. srRun.step = "stale" /\ srWriter.step = "none"
          /\ \A g \in Files : g # Head(srRun.todo) => srEntry'[g] = srEntry[g]
      BY <2>5 DEF MarkVectorsStale
    <3>2. Head(srRun.todo) \in Files /\ Head(srRun.todo) \notin srLeft => srEntry' = srEntry
      BY <2>5 DEF MarkVectorsStale, Entered
    <3>3. QED  BY <3>1, <3>2
  <2>6. QED
    <3>1. UNCHANGED srEntry \/ CommitEntry \/ MarkVectorsStale
          \/ \E f \in Files : BackfillVectors(f) \/ DropFile(f)
      BY ONLY <1>1 DEF SearchNext, CommitChunks, CommitVectors, SearchBegins, SearchEmbeds,
         BackoffEnds, SearchEnters, SearchReadsChunks, SearchReadsVectors, SearchScores,
         SearchAnswers, SearchCancelled, srVars
    <3>2. QED  BY ONLY <3>1, <2>1, <2>2, <2>3, <2>4, <2>5
<1>2. QED  BY <1>1, SearchInvHolds, PTL DEF SearchSpec, FreshVectorsKept

-----------------------------------------------------------------------------
(* The caches of relation graphs.  An entry of a cache is not yet a graph:  *)
(* what the invariant ties to the version announced is what an entry holds  *)
(* or will hold, that is the walk of the one call that builds it.           *)

GraphCalls == [pc : {"idle", "build", "store", "wait", "done"},
               lang : GraphLanguages \union {"none"}, at : Nat, entry : 0..MaxGraphCalls,
               got : Nat]

CallsTyped == rcCall \in [GraphUsers -> GraphCalls]

RelationTypeOK ==
    /\ rcTree \in [GraphLanguages -> 0..MaxTreeVersion]
    /\ rcToldOf \in [GraphLanguages -> Nat]
    /\ \A l \in GraphLanguages : rcToldOf[l] <= rcTree[l]
    /\ rcCache \in [GraphLanguages -> Nat]
    /\ rcEntries \in [1..MaxGraphCalls -> Nat]
    /\ CallsTyped
    /\ rcCalls \in 0..MaxGraphCalls

IsPhp(c) == rcCall[c].lang = "php"
Builds(c, e) == IsPhp(c) /\ rcCall[c].pc \in {"build", "store"} /\ rcCall[c].entry = e

\* Entry e holds, or will, a graph no older than version v, or none.
Serves(e, v) ==
    /\ rcEntries[e] \notin {Building, Failed} => rcEntries[e] >= v
    /\ \A c \in GraphUsers : Builds(c, e) => rcCall[c].got >= v

Waits(c, e, v) ==
    IsPhp(c) /\ rcCall[c].pc = "wait" /\ rcCall[c].entry = e /\ rcCall[c].at = v

OneBuilder == \A c, d \in GraphUsers, e \in 1..MaxGraphCalls : Builds(c, e) /\ Builds(d,
e) => c = d

EntriesOK ==
    \A e \in 1..MaxGraphCalls :
        /\ rcEntries[e] \in (0..rcTree["php"]) \union {Failed}
        /\ e > rcCalls => rcEntries[e] = Building

CallsOK ==
    \A c \in GraphUsers :
        /\ rcCall[c].pc = "wait" => IsPhp(c)
        /\ IsPhp(c) => rcCall[c].entry \in 1..rcCalls
        /\ IsPhp(c) /\ rcCall[c].pc # "wait" => rcCall[c].got \in rcCall[c].at..rcTree["php"]

\* The cache never holds what an announced change has made old, nor a failure ...
CacheOK ==
    /\ rcCache["php"] \in 0..rcCalls
    /\ \A e \in 1..MaxGraphCalls, v \in Nat :
          rcCache["php"] = e /\ rcToldOf["php"] = v => rcEntries[e] # Failed /\ Serves(e, v)

\* ... and each call waits for an entry that was in the cache when it began.
WaitersOK ==
    \A c \in GraphUsers, e \in 1..MaxGraphCalls, v \in Nat : Waits(c, e, v) => Serves(e, v)

PhpInv == RelationTypeOK /\ OneBuilder /\ EntriesOK /\ CallsOK /\ CacheOK /\ WaitersOK

LEMMA RelationTypeInit == RelationInit => RelationTypeOK
<1> SUFFICES ASSUME RelationInit PROVE RelationTypeOK
  OBVIOUS
<1>1. NoGraphCall \in GraphCalls
  BY RelationAssumption DEF NoGraphCall, GraphCalls
<1>2. MaxGraphCalls \in Nat /\ 1 \in 0..MaxTreeVersion
  BY RelationAssumption DEF Failed
<1> QED
  BY <1>1, <1>2 DEF RelationInit, RelationTypeOK, CallsTyped, NoGraph, Building

\* A step that gives one user of the graphs another call.
LEMMA CallChanges ==
  ASSUME RelationTypeOK, NEW c \in GraphUsers, NEW call \in GraphCalls,
         rcCall' = [rcCall EXCEPT ![c] = call]
  PROVE  /\ CallsTyped'
         /\ rcCall'[c] = call
         /\ \A d \in GraphUsers : d # c => rcCall'[d] = rcCall[d]
  BY DEF RelationTypeOK, CallsTyped

\* The calls that the steps of a user leave behind.
NewCall(c, pc, lang, at, entry, got) ==
    /\ CallsTyped'
    /\ \A d \in GraphUsers : d # c => rcCall'[d] = rcCall[d]
    /\ rcCall'[c].pc = pc /\ rcCall'[c].lang = lang /\ rcCall'[c].at = at
    /\ rcCall'[c].entry = entry /\ rcCall'[c].got = got

LEMMA CallFields ==
  ASSUME RelationTypeOK, NEW c \in GraphUsers
  PROVE  /\ rcCall[c].pc \in {"idle", "build", "store", "wait", "done"}
         /\ rcCall[c].lang \in GraphLanguages \union {"none"}
         /\ rcCall[c].at \in Nat /\ rcCall[c].entry \in 0..MaxGraphCalls /\ rcCall[c].got \in Nat
  BY DEF RelationTypeOK, CallsTyped, GraphCalls

LEMMA CallBecomes ==
  ASSUME RelationTypeOK, NEW c \in GraphUsers,
         NEW pc \in {"idle", "build", "store", "wait", "done"},
         NEW lang \in GraphLanguages \union {"none"}, NEW at \in Nat,
         NEW entry \in 0..MaxGraphCalls, NEW got \in Nat,
         rcCall' = [rcCall EXCEPT ![c] = [pc |-> pc, lang |-> lang, at |-> at,
                                          entry |-> entry, got |-> got]]
  PROVE  NewCall(c, pc, lang, at, entry, got)
<1> DEFINE call == [pc |-> pc, lang |-> lang, at |-> at, entry |-> entry, got |-> got]
<1>1. call \in GraphCalls
  BY DEF GraphCalls
<1>2. CallsTyped' /\ rcCall'[c] = call
      /\ \A d \in GraphUsers : d # c => rcCall'[d] = rcCall[d]
  BY <1>1, CallChanges
<1> QED
  BY <1>2 DEF NewCall

LEMMA CallMoves ==
  ASSUME RelationTypeOK, NEW c \in GraphUsers,
         NEW pc \in {"idle", "build", "store", "wait", "done"}, NEW got \in Nat,
         rcCall' = [rcCall EXCEPT ![c] = [rcCall[c] EXCEPT !.pc = pc, !.got = got]]
  PROVE  NewCall(c, pc, rcCall[c].lang, rcCall[c].at, rcCall[c].entry, got)
<1> DEFINE call == [rcCall[c] EXCEPT !.pc = pc, !.got = got]
<1>0. rcCall[c] \in GraphCalls
  BY DEF RelationTypeOK, CallsTyped
<1>1. /\ call \in GraphCalls
      /\ call.pc = pc /\ call.got = got /\ call.lang = rcCall[c].lang
      /\ call.at = rcCall[c].at /\ call.entry = rcCall[c].entry
  BY <1>0 DEF GraphCalls
<1>2. CallsTyped' /\ rcCall'[c] = call
      /\ \A d \in GraphUsers : d # c => rcCall'[d] = rcCall[d]
  BY <1>1, CallChanges
<1> QED
  BY <1>1, <1>2 DEF NewCall

LEMMA CallEnds ==
  ASSUME RelationTypeOK, NEW c \in GraphUsers, rcCall' = [rcCall EXCEPT ![c] = NoGraphCall]
  PROVE  NewCall(c, "idle", "none", 0, 0, 0)
<1>1. 0 \in Nat /\ 0 \in 0..MaxGraphCalls
  BY RelationAssumption
<1> QED
  BY <1>1, CallBecomes DEF NoGraphCall

\* What each step does to the calls.
LEMMA AskedPhp ==
  ASSUME RelationTypeOK, NEW c \in GraphUsers, GraphAsked(c, "php"), "php" \in GraphLanguages
  PROVE  \/ /\ rcCache["php"] = NoGraph /\ rcCache' = [rcCache EXCEPT !["php"] = rcCalls + 1]
            /\ NewCall(c, "build", "php", rcToldOf["php"], rcCalls + 1, rcTree["php"])
         \/ /\ rcCache["php"] # NoGraph /\ rcCache' = rcCache
            /\ rcCache["php"] <= MaxGraphCalls =>
                   NewCall(c, "wait", "php", rcToldOf["php"], rcCache["php"], 0)
<1>0. /\ rcToldOf["php"] \in Nat /\ rcTree["php"] \in Nat /\ rcCache["php"] \in Nat
      /\ rcCalls + 1 \in 0..MaxGraphCalls /\ rcCalls' = rcCalls + 1
  BY RelationAssumption DEF GraphAsked, RelationTypeOK
<1>1. CASE rcCache["php"] = NoGraph
  BY <1>0, <1>1, CallBecomes DEF GraphAsked, PhpGets
<1>2. CASE rcCache["php"] # NoGraph
  BY <1>0, <1>2, CallBecomes DEF GraphAsked, PhpGets
<1> QED
  BY <1>1, <1>2

LEMMA AskedOther ==
  ASSUME RelationTypeOK, NEW c \in GraphUsers, NEW l \in GraphLanguages, l # "php",
  GraphAsked(c, l)
  PROVE  /\ rcCache' = rcCache
         /\ \E pc \in {"build", "done"}, got \in Nat : NewCall(c, pc, l, rcToldOf[l], 0, got)
<1> DEFINE pc == IF rcCache[l] = NoGraph THEN "build" ELSE "done"
           got == IF rcCache[l] = NoGraph THEN rcTree[l] ELSE rcCache[l]
<1>1. pc \in {"build", "done"} /\ got \in Nat /\ rcToldOf[l] \in Nat /\ 0 \in 0..MaxGraphCalls
  BY RelationAssumption DEF RelationTypeOK
<1>2. rcCall' = [rcCall EXCEPT ![c] = [pc |-> pc, lang |-> l, at |-> rcToldOf[l],
                                       entry |-> 0, got |-> got]] /\ rcCache' = rcCache
  BY DEF GraphAsked, OtherGets
<1> HIDE DEF pc, got
<1> QED
  BY <1>1, <1>2, CallBecomes

LEMMA Built ==
  ASSUME RelationTypeOK, NEW c \in GraphUsers, GraphBuilt(c)
  PROVE  \E v \in rcCall[c].got..rcTree[rcCall[c].lang] :
            /\ v \in Nat
            /\ NewCall(c, "store", rcCall[c].lang, rcCall[c].at, rcCall[c].entry, v)
<1>1. PICK v \in rcCall[c].got..rcTree[rcCall[c].lang] :
          rcCall' = [rcCall EXCEPT ![c] = [rcCall[c] EXCEPT !.pc = "store", !.got = v]]
  BY DEF GraphBuilt
<1>2. v \in Nat
  BY <1>1, CallFields
<1> QED
  BY <1>1, <1>2, CallMoves

LEMMA Stored ==
  ASSUME RelationTypeOK, NEW c \in GraphUsers, GraphStored(c)
  PROVE  /\ rcCall[c].pc = "store"
         /\ NewCall(c, "done", rcCall[c].lang, rcCall[c].at, rcCall[c].entry, rcCall[c].got)
<1>1. rcCall' = [rcCall EXCEPT ![c] = [rcCall[c] EXCEPT !.pc = "done", !.got = rcCall[c].got]]
  <2>1. rcCall[c] \in GraphCalls
    BY DEF RelationTypeOK, CallsTyped
  <2>2. [rcCall[c] EXCEPT !.pc = "done"] = [rcCall[c] EXCEPT !.pc = "done",
       !.got = rcCall[c].got]
    BY <2>1 DEF GraphCalls
  <2> QED
    BY <2>2 DEF GraphStored
<1> QED
  BY <1>1, CallMoves, CallFields DEF GraphStored

LEMMA Cancelled ==
  ASSUME RelationTypeOK, NEW c \in GraphUsers, GraphCancelled(c)
  PROVE  /\ rcCall[c].pc = "build"
         /\ \/ NewCall(c, "idle", "none", 0, 0, 0)
            \/ /\ rcCall[c].lang = "py"
               /\ NewCall(c, "store", "py", rcCall[c].at, rcCall[c].entry, Failed)
<1>1. CASE rcCall[c].lang = "py"
  <2>1. rcCall[c].pc = "build" /\ rcCall' = [rcCall EXCEPT ![c].pc = "store",
       ![c].got = Failed]
    BY <1>1 DEF GraphCancelled
  <2>2. rcCall' = [rcCall EXCEPT ![c] = [rcCall[c] EXCEPT !.pc = "store", !.got = Failed]]
    BY <2>1 DEF RelationTypeOK, CallsTyped
  <2>3. Failed \in Nat
    BY DEF Failed
  <2> QED
    BY <1>1, <2>1, <2>2, <2>3, CallMoves
<1>2. CASE rcCall[c].lang # "py"
  BY <1>2, CallEnds DEF GraphCancelled
<1> QED
  BY <1>1, <1>2 DEF GraphCancelled

LEMMA Given ==
  ASSUME RelationTypeOK, NEW c \in GraphUsers, rcCall[c].entry \in 1..MaxGraphCalls,
  GraphGiven(c)
  PROVE  /\ rcCall[c].pc = "wait" /\ rcEntries[rcCall[c].entry] # Building
         /\ \/ NewCall(c, "idle", "none", 0, 0, 0)
            \/ /\ rcEntries[rcCall[c].entry] # Failed
               /\ NewCall(c, "done", rcCall[c].lang, rcCall[c].at, rcCall[c].entry,
                          rcEntries[rcCall[c].entry])
<1>1. rcEntries[rcCall[c].entry] \in Nat
  BY DEF RelationTypeOK, CallsTyped
<1>2. CASE rcEntries[rcCall[c].entry] = Failed
  BY <1>2, CallEnds DEF GraphGiven
<1>3. CASE rcEntries[rcCall[c].entry] # Failed
  BY <1>1, <1>3, CallMoves DEF GraphGiven
<1> QED
  BY <1>2, <1>3 DEF GraphGiven

LEMMA Noticed ==
  ASSUME RelationTypeOK, NEW l \in GraphLanguages, ChangeNoticed(l)
  PROVE  \/ rcCall' = rcCall
         \/ /\ rcCall[Warmer].pc \in {"idle", "done"} /\ "go" \in GraphLanguages
            /\ NewCall(Warmer, "build", "go", rcTree["go"], 0, rcTree["go"])
<1>1. CASE l = "go" /\ rcCall[Warmer].pc \in {"idle", "done"}
  <2>1. rcTree["go"] \in Nat /\ 0 \in 0..MaxGraphCalls /\ Warmer \in GraphUsers
    BY <1>1, RelationAssumption DEF RelationTypeOK, GraphUsers
  <2>2. rcCall' = [rcCall EXCEPT ![Warmer] = [pc |-> "build", lang |-> "go",
       at |-> rcTree["go"],
                                              entry |-> 0, got |-> rcTree["go"]]]
    BY <1>1 DEF ChangeNoticed, NoGraphCall
  <2> QED
    BY <1>1, <2>1, <2>2, CallBecomes
<1>2. CASE ~(l = "go" /\ rcCall[Warmer].pc \in {"idle", "done"})
  BY <1>2 DEF ChangeNoticed
<1> QED
  BY <1>1, <1>2

-----------------------------------------------------------------------------
(* The invariant                                                            *)

\* A step after which nobody builds or waits for an entry who did not before.
Settles ==
    /\ \A c \in GraphUsers, e \in 1..MaxGraphCalls :
          Builds(c, e)' => Builds(c, e) /\ rcCall'[c].got >= rcCall[c].got
    /\ \A c \in GraphUsers, e \in 1..MaxGraphCalls, v \in Nat :
          Waits(c, e, v)' => Waits(c, e, v)

LEMMA OthersSettle ==
  ASSUME RelationTypeOK, NEW c \in GraphUsers,
  \A d \in GraphUsers : d # c => rcCall'[d] = rcCall[d],
         rcCall'[c].lang = "php" /\ rcCall'[c].pc # "done" =>
             /\ rcCall[c].lang = "php" /\ rcCall[c].pc \in {"build", "store"}
             /\ rcCall'[c].pc \in {"build", "store"}
             /\ rcCall'[c].entry = rcCall[c].entry /\ rcCall'[c].got >= rcCall[c].got
  PROVE  Settles
<1>1. \A d \in GraphUsers : rcCall[d].got \in Nat
  BY CallFields
<1>2. ASSUME NEW d \in GraphUsers, NEW e \in 1..MaxGraphCalls, Builds(d, e)'
      PROVE  Builds(d, e) /\ rcCall'[d].got >= rcCall[d].got
  BY <1>1, <1>2 DEF Builds, IsPhp
<1>3. ASSUME NEW d \in GraphUsers, NEW e \in 1..MaxGraphCalls, NEW v \in Nat, Waits(d, e, v)'
      PROVE  Waits(d, e, v)
  BY <1>3 DEF Waits, IsPhp
<1> QED
  BY <1>2, <1>3 DEF Settles

LEMMA NobodySettles ==
  ASSUME RelationTypeOK, UNCHANGED rcCall
  PROVE  Settles
<1>1. \A d \in GraphUsers : rcCall[d].got \in Nat
  BY CallFields
<1> QED
  BY <1>1 DEF Settles, Builds, Waits, IsPhp

\* An entry serves no less when it stays, fails, or gets the graph of its builder.
LEMMA ServesStill ==
  ASSUME RelationTypeOK, CallsTyped', Settles, NEW e \in 1..MaxGraphCalls, NEW v \in Nat,
  Serves(e, v),
         \/ rcEntries'[e] = rcEntries[e]
         \/ rcEntries'[e] = Failed
         \/ \E c \in GraphUsers : Builds(c, e) /\ rcEntries'[e] = rcCall[c].got
  PROVE  Serves(e, v)'
<1>1. \A c \in GraphUsers : rcCall[c].got \in Nat
  BY CallFields
<1>2. \A c \in GraphUsers : rcCall'[c].got \in Nat
  BY DEF CallsTyped, GraphCalls
<1>3. ASSUME NEW c \in GraphUsers, Builds(c, e)' PROVE rcCall'[c].got >= v
  BY <1>1, <1>2, <1>3 DEF Serves, Settles
<1>4. rcEntries'[e] \notin {Building, Failed} => rcEntries'[e] >= v
  BY DEF Serves
<1> QED
  BY <1>3, <1>4 DEF Serves

\* What is left to show of a step that builds and waits for no new entry.
LEMMA PhpInvSettled ==
  ASSUME "php" \in GraphLanguages, PhpInv, RelationTypeOK', Settles, EntriesOK', CallsOK',
         \A e \in 1..MaxGraphCalls :
             \/ rcEntries'[e] = rcEntries[e]
             \/ rcEntries'[e] = Failed
             \/ \E c \in GraphUsers : Builds(c, e) /\ rcEntries'[e] = rcCall[c].got,
         \/ rcCache'["php"] = NoGraph
         \/ /\ rcCache'["php"] = rcCache["php"] /\ rcToldOf'["php"] = rcToldOf["php"]
            /\ rcCalls' = rcCalls
            /\ rcCache["php"] # NoGraph => rcEntries'[rcCache["php"]] # Failed
  PROVE  PhpInv'
<1>1. \A e \in 1..MaxGraphCalls, v \in Nat : Serves(e, v) => Serves(e, v)'
  BY ServesStill DEF PhpInv, RelationTypeOK
<1>2. OneBuilder'
  BY DEF PhpInv, OneBuilder, Settles
<1>3. WaitersOK'
  BY <1>1 DEF PhpInv, WaitersOK, Settles
<1>4. CacheOK'
  <2>1. CASE rcCache'["php"] = NoGraph
    <3>1. rcCalls' \in Nat
      BY RelationAssumption DEF RelationTypeOK
    <3> QED
      BY <2>1, <3>1 DEF CacheOK, NoGraph
  <2>2. CASE rcCache'["php"] # NoGraph
    BY <1>1, <2>2 DEF PhpInv, CacheOK, NoGraph
  <2> QED
    BY <2>1, <2>2
<1> QED
  BY <1>2, <1>3, <1>4 DEF PhpInv

\* The facts about the PHP entries and calls that the steps start from.
LEMMA PhpFacts ==
  ASSUME "php" \in GraphLanguages, PhpInv
  PROVE  /\ RelationTypeOK /\ rcTree["php"] \in 0..MaxTreeVersion /\ rcTree["php"] < Failed
         /\ rcCalls \in 0..MaxGraphCalls /\ MaxGraphCalls \in Nat
         /\ rcCache["php"] \in 0..MaxGraphCalls
         /\ rcCache["php"] # NoGraph => rcEntries[rcCache["php"]] # Failed
         /\ \A c \in GraphUsers : IsPhp(c) => rcCall[c].entry \in 1..MaxGraphCalls
         /\ \A c \in GraphUsers : IsPhp(c) /\ rcCall[c].pc # "wait" =>
                /\ rcCall[c].got \in 0..rcTree["php"] /\ rcCall[c].got # Failed
                /\ rcCall[c].at <= rcCall[c].got
<1>1. RelationTypeOK /\ CacheOK /\ CallsOK
  BY DEF PhpInv
<1>2. /\ rcTree["php"] \in 0..MaxTreeVersion /\ rcTree["php"] < Failed
      /\ rcCalls \in 0..MaxGraphCalls /\ MaxGraphCalls \in Nat
  BY <1>1, RelationAssumption DEF RelationTypeOK, Failed
<1>3. rcCache["php"] \in 0..MaxGraphCalls
  BY <1>1, <1>2 DEF CacheOK
<1>7. rcToldOf["php"] \in Nat
  BY <1>1 DEF RelationTypeOK
<1>8. rcCache["php"] # NoGraph => rcEntries[rcCache["php"]] # Failed
  BY <1>1, <1>3, <1>7 DEF CacheOK, NoGraph
<1>4. \A c \in GraphUsers : rcCall[c].got \in Nat /\ rcCall[c].at \in Nat
  BY <1>1, CallFields
<1>5. \A c \in GraphUsers : IsPhp(c) => rcCall[c].entry \in 1..MaxGraphCalls
  BY <1>1, <1>2 DEF CallsOK
<1>6. \A c \in GraphUsers : IsPhp(c) /\ rcCall[c].pc # "wait" =>
          /\ rcCall[c].got \in 0..rcTree["php"] /\ rcCall[c].got # Failed
          /\ rcCall[c].at <= rcCall[c].got
  BY <1>1, <1>2, <1>4 DEF CallsOK, Failed
<1> QED
  BY <1>1, <1>2, <1>3, <1>5, <1>6, <1>8

\* A walk ends with a graph of a version since it began.
LEMMA BuiltKeeps ==
  ASSUME "php" \in GraphLanguages, PhpInv, NEW c \in GraphUsers, GraphBuilt(c)
  PROVE  PhpInv'
<1>0. RelationTypeOK /\ CallsOK /\ rcCall[c].pc = "build"
  BY DEF PhpInv, GraphBuilt
<1>1. PICK v \in rcCall[c].got..rcTree[rcCall[c].lang] :
          v \in Nat /\ NewCall(c, "store", rcCall[c].lang, rcCall[c].at, rcCall[c].entry, v)
  BY <1>0, Built
<1>2. UNCHANGED <<rcTree, rcToldOf, rcCache, rcEntries, rcCalls>>
  BY DEF GraphBuilt
<1>3. RelationTypeOK'
  BY <1>0, <1>1, <1>2 DEF RelationTypeOK, NewCall
<1>4. v >= rcCall[c].got
  BY <1>0, <1>1, CallFields
<1>5. Settles
  BY <1>0, <1>1, <1>4, OthersSettle DEF NewCall
<1>6. EntriesOK'
  BY <1>2 DEF PhpInv, EntriesOK
<1>7. CallsOK'
  <2>1. IsPhp(c) => v \in rcCall[c].at..rcTree["php"]
    BY <1>0, <1>1, <1>4, PhpFacts, CallFields DEF IsPhp
  <2> QED
    BY <1>0, <1>1, <1>2, <2>1 DEF NewCall, CallsOK, IsPhp
<1> QED
  BY <1>2, <1>3, <1>5, <1>6, <1>7, PhpInvSettled, PhpFacts

\* The graph of a builder goes into its own entry.
LEMMA StoredKeeps ==
  ASSUME "php" \in GraphLanguages, PhpInv, NEW c \in GraphUsers, GraphStored(c)
  PROVE  PhpInv'
<1>0. RelationTypeOK /\ CallsOK /\ rcCall[c].pc = "store" /\ rcCall[c] \in GraphCalls
  BY DEF PhpInv, GraphStored, RelationTypeOK, CallsTyped
<1>1. NewCall(c, "done", rcCall[c].lang, rcCall[c].at, rcCall[c].entry, rcCall[c].got)
  BY <1>0, Stored
<1>2. UNCHANGED <<rcTree, rcToldOf, rcCalls>> /\ rcCall[c].got \in Nat
  BY <1>0 DEF GraphStored, GraphCalls
<1>3. CASE IsPhp(c)
  <2>1. /\ rcEntries' = [rcEntries EXCEPT ![rcCall[c].entry] = rcCall[c].got]
        /\ rcCache' = rcCache
    BY <1>3 DEF GraphStored, PhpStores, IsPhp
  <2>2. /\ rcCall[c].entry \in 1..rcCalls /\ rcCall[c].entry \in 1..MaxGraphCalls
        /\ rcCall[c].got \in 0..rcTree["php"] /\ rcCall[c].got # Failed
    BY <1>0, <1>3, PhpFacts DEF CallsOK
  <2>3. /\ rcEntries' \in [1..MaxGraphCalls -> Nat]
        /\ \A e \in 1..MaxGraphCalls :
              rcEntries'[e] = IF e = rcCall[c].entry THEN rcCall[c].got ELSE rcEntries[e]
    BY <1>0, <1>2, <2>1, <2>2 DEF RelationTypeOK
  <2>4. RelationTypeOK'
    BY <1>0, <1>1, <1>2, <2>1, <2>3 DEF RelationTypeOK, NewCall
  <2>5. Settles
    BY <1>0, <1>1, OthersSettle DEF NewCall
  <2>6. EntriesOK'
    BY <1>2, <2>2, <2>3, PhpFacts DEF PhpInv, EntriesOK
  <2>7. CallsOK'
    BY <1>0, <1>1, <1>2 DEF NewCall, CallsOK, IsPhp
  <2>8. \A e \in 1..MaxGraphCalls :
            \/ rcEntries'[e] = rcEntries[e]
            \/ \E d \in GraphUsers : Builds(d, e) /\ rcEntries'[e] = rcCall[d].got
    BY <1>0, <1>3, <2>3 DEF Builds
  <2>9. rcCache["php"] # NoGraph => rcEntries'[rcCache["php"]] # Failed
    BY <2>2, <2>3, PhpFacts DEF NoGraph
  <2> QED
    BY <1>2, <2>1, <2>4, <2>5, <2>6, <2>7, <2>8, <2>9, PhpInvSettled
<1>4. CASE ~IsPhp(c)
  <2>1. /\ rcCache' = [rcCache EXCEPT ![rcCall[c].lang] = rcCall[c].got]
        /\ rcEntries' = rcEntries
    BY <1>4 DEF GraphStored, OtherStores, IsPhp
  <2>2. rcCache' \in [GraphLanguages -> Nat] /\ rcCache'["php"] = rcCache["php"]
    BY <1>0, <1>2, <1>4, <2>1 DEF RelationTypeOK, IsPhp
  <2>3. RelationTypeOK'
    BY <1>0, <1>1, <1>2, <2>1, <2>2 DEF RelationTypeOK, NewCall
  <2>4. Settles
    BY <1>0, <1>1, OthersSettle DEF NewCall
  <2>5. EntriesOK'
    BY <1>2, <2>1 DEF PhpInv, EntriesOK
  <2>6. CallsOK'
    BY <1>0, <1>1, <1>2 DEF NewCall, CallsOK, IsPhp
  <2> QED
    BY <1>2, <2>1, <2>2, <2>3, <2>4, <2>5, <2>6, PhpInvSettled, PhpFacts
<1> QED
  BY <1>3, <1>4

\* A build that is given up leaves a failure to those who wait, and the cache empty.
LEMMA CancelledKeeps ==
  ASSUME "php" \in GraphLanguages, PhpInv, NEW c \in GraphUsers, GraphCancelled(c)
  PROVE  PhpInv'
<1>0. RelationTypeOK /\ CallsOK /\ rcCall[c].pc = "build"
  BY DEF PhpInv, GraphCancelled
<1>1. \/ NewCall(c, "idle", "none", 0, 0, 0)
      \/ /\ rcCall[c].lang = "py"
         /\ NewCall(c, "store", "py", rcCall[c].at, rcCall[c].entry, Failed)
  BY <1>0, Cancelled
<1>2. UNCHANGED <<rcTree, rcToldOf, rcCalls>>
  BY DEF GraphCancelled
<1>3. CallsTyped' /\ Settles
  BY <1>0, <1>1, OthersSettle DEF NewCall
<1>4. CallsOK'
  BY <1>0, <1>1, <1>2 DEF NewCall, CallsOK, IsPhp
<1>5. CASE IsPhp(c)
  <2>1. /\ rcEntries' = [rcEntries EXCEPT ![rcCall[c].entry] = Failed]
        /\ rcCache' = IF rcCache["php"] = rcCall[c].entry
                      THEN [rcCache EXCEPT !["php"] = NoGraph] ELSE rcCache
    BY <1>5 DEF GraphCancelled, IsPhp
  <2>2. rcCall[c].entry \in 1..rcCalls /\ rcCall[c].entry \in 1..MaxGraphCalls /\ Failed \in Nat
    BY <1>0, <1>5, PhpFacts DEF CallsOK, Failed
  <2>3. /\ rcEntries' \in [1..MaxGraphCalls -> Nat]
        /\ \A e \in 1..MaxGraphCalls :
              rcEntries'[e] = IF e = rcCall[c].entry THEN Failed ELSE rcEntries[e]
    BY <1>0, <2>1, <2>2 DEF RelationTypeOK
  <2>4. /\ rcCache' \in [GraphLanguages -> Nat]
        /\ rcCache'["php"] = IF rcCache["php"] = rcCall[c].entry THEN NoGraph ELSE rcCache["php"]
    BY <1>0, <2>1 DEF RelationTypeOK, NoGraph
  <2>5. RelationTypeOK'
    BY <1>0, <1>2, <1>3, <2>3, <2>4 DEF RelationTypeOK
  <2>6. EntriesOK'
    BY <1>2, <2>2, <2>3, PhpFacts DEF PhpInv, EntriesOK
  <2>7. rcCache'["php"] # NoGraph =>
            rcCache'["php"] = rcCache["php"] /\ rcEntries'[rcCache["php"]] # Failed
    BY <2>3, <2>4, PhpFacts DEF NoGraph
  <2> QED
    BY <1>2, <1>3, <1>4, <2>3, <2>5, <2>6, <2>7, PhpInvSettled
<1>6. CASE ~IsPhp(c)
  <2>1. UNCHANGED <<rcEntries, rcCache>>
    BY <1>6 DEF GraphCancelled, IsPhp
  <2>2. RelationTypeOK'
    BY <1>0, <1>2, <1>3, <2>1 DEF RelationTypeOK
  <2>3. EntriesOK'
    BY <1>2, <2>1 DEF PhpInv, EntriesOK
  <2> QED
    BY <1>2, <1>3, <1>4, <2>1, <2>2, <2>3, PhpInvSettled, PhpFacts
<1> QED
  BY <1>5, <1>6

\* A waiter is given what its entry holds.
LEMMA GivenKeeps ==
  ASSUME "php" \in GraphLanguages, PhpInv, NEW c \in GraphUsers, GraphGiven(c)
  PROVE  PhpInv'
<1>0. RelationTypeOK /\ CallsOK /\ rcCall[c].pc = "wait" /\ IsPhp(c)
  BY DEF PhpInv, GraphGiven, CallsOK
<1> DEFINE e == rcCall[c].entry
           held == rcEntries[e]
<1>1. e \in 1..MaxGraphCalls /\ rcCall[c].at \in Nat
  BY <1>0, PhpFacts, CallFields
<1>2. /\ held # Building
      /\ \/ NewCall(c, "idle", "none", 0, 0, 0)
         \/ held # Failed /\ NewCall(c, "done", rcCall[c].lang, rcCall[c].at, e, held)
  BY <1>0, <1>1, Given
<1>3. UNCHANGED <<rcTree, rcToldOf, rcCache, rcEntries, rcCalls>>
  BY DEF GraphGiven
<1>4. CallsTyped' /\ Settles
  BY <1>0, <1>2, OthersSettle DEF NewCall
<1>5. RelationTypeOK'
  BY <1>0, <1>3, <1>4 DEF RelationTypeOK
<1>6. held # Failed => held \in rcCall[c].at..rcTree["php"]
  <2>1. Serves(e, rcCall[c].at)
    BY <1>0, <1>1 DEF PhpInv, WaitersOK, Waits
  <2>2. held # Failed => held \in 0..rcTree["php"]
    BY <1>1 DEF PhpInv, EntriesOK
  <2> QED
    BY <1>1, <1>2, <2>1, <2>2, PhpFacts DEF Serves
<1>7. CallsOK'
  <2>1. CASE NewCall(c, "idle", "none", 0, 0, 0)
    BY <1>0, <1>3, <2>1 DEF NewCall, CallsOK, IsPhp
  <2>2. CASE held # Failed /\ NewCall(c, "done", rcCall[c].lang, rcCall[c].at, e, held)
    BY <1>0, <1>3, <1>6, <2>2 DEF NewCall, CallsOK, IsPhp
  <2> QED
    BY <1>2, <2>1, <2>2
<1>8. EntriesOK'
  BY <1>3 DEF PhpInv, EntriesOK
<1> QED
  BY <1>3, <1>4, <1>5, <1>7, <1>8, PhpInvSettled, PhpFacts

LEMMA LeavesKeeps ==
  ASSUME "php" \in GraphLanguages, PhpInv, NEW c \in GraphUsers, WaiterLeaves(c)
  PROVE  PhpInv'
<1>0. RelationTypeOK /\ CallsOK
  BY DEF PhpInv
<1>1. NewCall(c, "idle", "none", 0, 0, 0)
  BY <1>0, CallEnds DEF WaiterLeaves
<1>2. UNCHANGED <<rcTree, rcToldOf, rcCache, rcEntries, rcCalls>>
  BY DEF WaiterLeaves
<1>3. CallsTyped' /\ Settles
  BY <1>0, <1>1, OthersSettle DEF NewCall
<1>4. RelationTypeOK'
  BY <1>0, <1>2, <1>3 DEF RelationTypeOK
<1>5. CallsOK'
  BY <1>0, <1>1, <1>2 DEF NewCall, CallsOK, IsPhp
<1>6. EntriesOK'
  BY <1>2 DEF PhpInv, EntriesOK
<1> QED
  BY <1>2, <1>3, <1>4, <1>5, <1>6, PhpInvSettled, PhpFacts

\* A change of the files makes no graph older than what was announced.
LEMMA FilesKeep ==
  ASSUME "php" \in GraphLanguages, PhpInv, NEW l \in GraphLanguages, FilesChange(l)
  PROVE  PhpInv'
<1>0. RelationTypeOK /\ CallsOK
  BY DEF PhpInv
<1>1. UNCHANGED <<rcToldOf, rcCache, rcEntries, rcCall, rcCalls>>
  BY DEF FilesChange
<1>2. /\ rcTree' \in [GraphLanguages -> 0..MaxTreeVersion]
      /\ \A m \in GraphLanguages : rcTree'[m] >= rcTree[m] /\ rcToldOf[m] <= rcTree'[m]
  <2>1. MaxTreeVersion \in Nat /\ rcTree[l] \in 0..MaxTreeVersion
    BY <1>0, RelationAssumption DEF RelationTypeOK
  <2>2. rcTree' = [rcTree EXCEPT ![l] = rcTree[l] + 1] /\ rcTree[l] + 1 \in 0..MaxTreeVersion
    BY <2>1 DEF FilesChange
  <2>3. \A m \in GraphLanguages : rcTree[m] \in Nat /\ rcToldOf[m] \in Nat
    BY <1>0, <2>1 DEF RelationTypeOK
  <2> QED
    BY <1>0, <2>1, <2>2, <2>3 DEF RelationTypeOK
<1>3. RelationTypeOK'
  BY <1>0, <1>1, <1>2 DEF RelationTypeOK, CallsTyped
<1>4. Settles
  BY <1>0, <1>1, NobodySettles
<1>5. rcTree["php"] \in Nat /\ rcTree'["php"] \in Nat /\ rcTree'["php"] >= rcTree["php"]
  BY <1>2, PhpFacts, RelationAssumption
<1>6. EntriesOK'
  BY <1>1, <1>5 DEF PhpInv, EntriesOK
<1>7. CallsOK'
  BY <1>0, <1>1, <1>5, CallFields DEF CallsOK, IsPhp
<1> QED
  BY <1>1, <1>3, <1>4, <1>6, <1>7, PhpInvSettled, PhpFacts

\* An announced change empties the cache of PHP.
LEMMA NoticedKeeps ==
  ASSUME "php" \in GraphLanguages, PhpInv, NEW l \in GraphLanguages, ChangeNoticed(l)
  PROVE  PhpInv'
<1>0. RelationTypeOK /\ CallsOK
  BY DEF PhpInv
<1>1. /\ UNCHANGED <<rcTree, rcEntries, rcCalls>>
      /\ rcToldOf' = [rcToldOf EXCEPT ![l] = rcTree[l]]
      /\ rcCache' = IF l = "py" THEN rcCache ELSE [rcCache EXCEPT ![l] = NoGraph]
  BY DEF ChangeNoticed
<1>2. \/ rcCall' = rcCall
      \/ NewCall(Warmer, "build", "go", rcTree["go"], 0, rcTree["go"])
  BY <1>0, Noticed
<1>3. CallsTyped' /\ Settles
  BY <1>0, <1>2, OthersSettle, NobodySettles DEF NewCall, RelationTypeOK, CallsTyped,
     GraphUsers
<1>4. RelationTypeOK'
  <2>1. rcTree[l] \in Nat
    BY <1>0, RelationAssumption DEF RelationTypeOK
  <2>2. rcToldOf' \in [GraphLanguages -> Nat] /\ rcCache' \in [GraphLanguages -> Nat]
    BY <1>0, <1>1, <2>1 DEF RelationTypeOK, NoGraph
  <2>3. \A m \in GraphLanguages : rcToldOf'[m] <= rcTree[m]
    BY <1>0, <1>1, <2>1 DEF RelationTypeOK
  <2> QED
    BY <1>0, <1>1, <1>3, <2>2, <2>3 DEF RelationTypeOK
<1>5. EntriesOK'
  BY <1>1 DEF PhpInv, EntriesOK
<1>6. CallsOK'
  BY <1>0, <1>1, <1>2 DEF NewCall, CallsOK, IsPhp
<1>7. CASE l = "php"
  <2>1. rcCache'["php"] = NoGraph
    BY <1>0, <1>1, <1>7 DEF RelationTypeOK
  <2> QED
    BY <1>1, <1>3, <1>4, <1>5, <1>6, <2>1, PhpInvSettled
<1>8. CASE l # "php"
  <2>1. rcCache'["php"] = rcCache["php"] /\ rcToldOf'["php"] = rcToldOf["php"]
    BY <1>0, <1>1, <1>8 DEF RelationTypeOK
  <2> QED
    BY <1>1, <1>3, <1>4, <1>5, <1>6, <2>1, PhpInvSettled, PhpFacts
<1> QED
  BY <1>7, <1>8

LEMMA PassKeeps ==
  ASSUME "php" \in GraphLanguages, PhpInv, PassInvalidates
  PROVE  PhpInv'
<1>0. RelationTypeOK /\ CallsOK
  BY DEF PhpInv
<1>1. UNCHANGED <<rcTree, rcToldOf, rcEntries, rcCall, rcCalls>>
      /\ rcCache' \in [GraphLanguages -> Nat] /\ rcCache'["php"] = NoGraph
  BY <1>0 DEF PassInvalidates, RelationTypeOK, NoGraph
<1>2. RelationTypeOK'
  BY <1>0, <1>1 DEF RelationTypeOK, CallsTyped
<1>3. Settles
  BY <1>0, <1>1, NobodySettles
<1>4. EntriesOK' /\ CallsOK'
  BY <1>0, <1>1 DEF PhpInv, EntriesOK, CallsOK, IsPhp
<1> QED
  BY <1>1, <1>2, <1>3, <1>4, PhpInvSettled

\* A call that finds the cache of PHP empty builds for an entry that nobody has, and
\* from a tree in which every announced change is; another waits for the cached entry.
LEMMA AskedPhpKeeps ==
  ASSUME "php" \in GraphLanguages, PhpInv, NEW c \in GraphUsers, GraphAsked(c, "php")
  PROVE  PhpInv'
<1>0. /\ RelationTypeOK /\ OneBuilder /\ EntriesOK /\ CallsOK /\ CacheOK /\ WaitersOK
      /\ rcCall[c].pc \in {"idle", "done"}
  BY DEF PhpInv, GraphAsked
<1>a. rcCalls + 1 \in 1..MaxGraphCalls /\ rcToldOf["php"] \in Nat
  BY <1>0, RelationAssumption DEF GraphAsked, RelationTypeOK
<1>b. PICK fresh \in 1..MaxGraphCalls,
     told \in Nat : fresh = rcCalls + 1 /\ told = rcToldOf["php"]
  BY <1>a
<1>1. /\ UNCHANGED <<rcTree, rcToldOf, rcEntries>> /\ rcCalls' = fresh
      /\ fresh = rcCalls + 1 /\ rcCalls \in 0..MaxGraphCalls
      /\ told = rcToldOf["php"] /\ rcTree["php"] \in Nat /\ told <= rcTree["php"]
  BY <1>0, <1>b, RelationAssumption DEF GraphAsked, RelationTypeOK
<1>2. EntriesOK'
  BY <1>0, <1>1 DEF EntriesOK
<1>3. CASE rcCache["php"] = NoGraph
  <2>1. /\ rcCache' = [rcCache EXCEPT !["php"] = fresh]
        /\ NewCall(c, "build", "php", told, fresh, rcTree["php"])
    BY <1>0, <1>1, <1>3, AskedPhp
  <2>2. rcCache' \in [GraphLanguages -> Nat] /\ rcCache'["php"] = fresh
    BY <1>0, <1>1, <2>1 DEF RelationTypeOK
  <2>3. RelationTypeOK'
    BY <1>0, <1>1, <2>1, <2>2 DEF RelationTypeOK, NewCall
  <2>4. \A d \in GraphUsers, e \in 1..MaxGraphCalls :
            Builds(d, e)' <=> (d = c /\ e = fresh) \/ (Builds(d, e) /\ e # fresh)
    <3>1. \A d \in GraphUsers : IsPhp(d) => rcCall[d].entry # fresh
      BY <1>0, <1>1 DEF CallsOK
    <3> QED
      BY <1>0, <2>1, <3>1 DEF NewCall, Builds, IsPhp
  <2>5. OneBuilder'
    BY <1>0, <2>4 DEF OneBuilder
  <2>6. CallsOK'
    <3>1. \A d \in GraphUsers : IsPhp(d) => rcCall[d].entry \in 1..fresh
      BY <1>0, <1>1 DEF CallsOK
    <3> QED
      BY <1>0, <1>1, <2>1, <3>1 DEF NewCall, CallsOK, IsPhp
  <2>7. \A e \in 1..MaxGraphCalls, v \in Nat : e # fresh /\ Serves(e, v) => Serves(e, v)'
    <3>1. \A d \in GraphUsers : d # c => rcCall'[d] = rcCall[d]
      BY <2>1 DEF NewCall
    <3>2. \A d \in GraphUsers, e \in 1..MaxGraphCalls : ~(Builds(c, e) /\ d = c)
      BY <1>0 DEF Builds
    <3> QED
      BY <1>1, <2>4, <3>1, <3>2 DEF Serves
  <2>8. Serves(fresh, told)'
    <3>1. rcEntries[fresh] = Building
      BY <1>0, <1>1 DEF EntriesOK
    <3>2. rcCall'[c].got = rcTree["php"]
      BY <2>1 DEF NewCall
    <3>3. \A d \in GraphUsers : Builds(d, fresh)' => rcCall'[d].got >= told
      <4>1. \A d \in GraphUsers : Builds(d, fresh)' => d = c
        BY <1>1, <2>1, <1>0 DEF Builds, IsPhp, NewCall, CallsOK
      <4> QED
        BY <1>1, <3>2, <4>1
    <3> QED
      BY <1>1, <3>1, <3>3 DEF Serves
  <2>9. CacheOK'
    BY <1>0, <1>1, <2>2, <2>8 DEF CacheOK, EntriesOK, Building, Failed
  <2>10. WaitersOK'
    <3>1. ASSUME NEW d \in GraphUsers, NEW e \in 1..MaxGraphCalls, NEW v \in Nat, Waits(d, e,
         v)'
          PROVE  e # fresh /\ Waits(d, e, v)
      <4>1. d # c /\ Waits(d, e, v)
        BY <2>1, <3>1 DEF NewCall, Waits, IsPhp
      <4> QED
        BY <1>0, <1>1, <4>1 DEF CallsOK, Waits
    <3> QED
      BY <1>0, <2>7, <3>1 DEF WaitersOK
  <2> QED
    BY <1>2, <2>3, <2>5, <2>6, <2>9, <2>10 DEF PhpInv
<1>4. CASE rcCache["php"] # NoGraph
  <2>0. rcCache["php"] \in 1..rcCalls /\ rcCache["php"] \in 1..MaxGraphCalls
    <3>1. rcCache["php"] \in 0..rcCalls
      BY <1>0 DEF CacheOK
    <3>2. rcCalls \in 0..MaxGraphCalls /\ MaxGraphCalls \in Nat
      BY <1>1, RelationAssumption
    <3> QED
      BY <1>4, <3>1, <3>2 DEF NoGraph
  <2>1. rcCache' = rcCache /\ NewCall(c, "wait", "php", told, rcCache["php"], 0)
    BY <1>0, <1>1, <1>4, <2>0, AskedPhp
  <2>2. RelationTypeOK'
    BY <1>0, <1>1, <2>1 DEF RelationTypeOK, NewCall
  <2>3. \A d \in GraphUsers, e \in 1..MaxGraphCalls :
            Builds(d, e)' => Builds(d, e) /\ rcCall'[d].got = rcCall[d].got
    BY <1>0, <2>1 DEF NewCall, Builds, IsPhp
  <2>4. \A e \in 1..MaxGraphCalls, v \in Nat : Serves(e, v) => Serves(e, v)'
    BY <1>1, <2>3 DEF Serves
  <2>5. OneBuilder'
    BY <1>0, <2>3 DEF OneBuilder
  <2>6. CallsOK'
    <3>1. \A d \in GraphUsers : IsPhp(d) => rcCall[d].entry \in 1..fresh
      BY <1>0, <1>1 DEF CallsOK
    <3> QED
      BY <1>0, <1>1, <2>0, <2>1, <3>1 DEF NewCall, CallsOK, IsPhp
  <2>7. CacheOK'
    BY <1>0, <1>1, <2>0, <2>1, <2>4 DEF CacheOK
  <2>8. WaitersOK'
    <3>1. ASSUME NEW d \in GraphUsers, NEW e \in 1..MaxGraphCalls, NEW v \in Nat, Waits(d, e,
         v)'
          PROVE  Serves(e, v)
      <4>1. CASE d = c
        BY <1>0, <1>1, <2>1, <3>1, <4>1 DEF NewCall, Waits, CacheOK
      <4>2. CASE d # c
        BY <1>0, <2>1, <3>1, <4>2 DEF NewCall, Waits, IsPhp, WaitersOK
      <4> QED
        BY <4>1, <4>2
    <3> QED
      BY <2>4, <3>1 DEF WaitersOK
  <2> QED
    BY <1>2, <2>2, <2>5, <2>6, <2>7, <2>8 DEF PhpInv
<1> QED
  BY <1>3, <1>4

LEMMA AskedOtherKeeps ==
  ASSUME "php" \in GraphLanguages, PhpInv, NEW c \in GraphUsers, NEW l \in GraphLanguages,
         l # "php", GraphAsked(c, l)
  PROVE  PhpInv'
<1>0. RelationTypeOK /\ OneBuilder /\ EntriesOK /\ CallsOK /\ CacheOK /\ WaitersOK
  BY DEF PhpInv
<1>1. /\ UNCHANGED <<rcTree, rcToldOf, rcEntries, rcCache>> /\ rcCalls' = rcCalls + 1
      /\ rcCalls + 1 \in 0..MaxGraphCalls /\ rcCalls \in Nat
  <2>1. rcCalls \in Nat /\ MaxGraphCalls \in Nat
    BY <1>0, RelationAssumption DEF RelationTypeOK
  <2> QED
    BY <2>1 DEF GraphAsked, OtherGets
<1>2. PICK pc \in {"build", "done"}, got \in Nat : NewCall(c, pc, l, rcToldOf[l], 0, got)
  BY <1>0, AskedOther
<1>3. RelationTypeOK'
  BY <1>0, <1>1, <1>2 DEF RelationTypeOK, NewCall
<1>4. Settles
  BY <1>0, <1>2, OthersSettle DEF NewCall
<1>5. \A e \in 1..MaxGraphCalls, v \in Nat : Serves(e, v) => Serves(e, v)'
  BY <1>0, <1>1, <1>3, <1>4, ServesStill DEF RelationTypeOK
<1>6. OneBuilder'
  BY <1>0, <1>4 DEF OneBuilder, Settles
<1>7. EntriesOK'
  BY <1>0, <1>1 DEF EntriesOK
<1>8. CallsOK'
  <2>1. \A d \in GraphUsers : IsPhp(d) => rcCall[d].entry \in 1..(rcCalls + 1)
    BY <1>0, <1>1 DEF CallsOK
  <2> QED
    BY <1>0, <1>1, <1>2, <2>1 DEF NewCall, CallsOK, IsPhp
<1>9. CacheOK'
  BY <1>0, <1>1, <1>5 DEF CacheOK
<1>10. WaitersOK'
  BY <1>0, <1>4, <1>5 DEF WaitersOK, Settles
<1> QED
  BY <1>3, <1>6, <1>7, <1>8, <1>9, <1>10 DEF PhpInv

LEMMA PhpInvNext ==
  ASSUME "php" \in GraphLanguages, PhpInv, [RelationNext]_rcVars
  PROVE  PhpInv'
<1>1. CASE UNCHANGED rcVars
  BY <1>1
  DEF rcVars, PhpInv, RelationTypeOK, CallsTyped, OneBuilder, EntriesOK, CallsOK, CacheOK,
      WaitersOK, Serves, Waits, Builds, IsPhp
<1>2. ASSUME NEW c \in GraphUsers, NEW l \in GraphLanguages, GraphAsked(c, l)
      PROVE  PhpInv'
  BY <1>2, AskedPhpKeeps, AskedOtherKeeps
<1> QED
  BY <1>1, <1>2, BuiltKeeps, StoredKeeps, CancelledKeeps, GivenKeeps, LeavesKeeps, FilesKeep,
     NoticedKeeps, PassKeeps
  DEF RelationNext

LEMMA PhpInvInit == "php" \in GraphLanguages /\ RelationInit => PhpInv
<1> SUFFICES ASSUME "php" \in GraphLanguages, RelationInit PROVE PhpInv
  OBVIOUS
<1>1. \A c \in GraphUsers : rcCall[c].pc = "idle" /\ rcCall[c].lang = "none"
  BY DEF RelationInit, NoGraphCall
<1>2. OneBuilder /\ CallsOK /\ WaitersOK
  BY <1>1, RelationAssumption DEF OneBuilder, CallsOK, WaitersOK, Waits, Builds, IsPhp
<1>3. EntriesOK /\ CacheOK
  BY RelationAssumption DEF RelationInit, EntriesOK, CacheOK, NoGraph, Building
<1> QED
  BY <1>2, <1>3, RelationTypeInit DEF PhpInv

\* A call never gets a PHP graph older than the change announced before it began,
\* nor one whose build was given up (PhpGraphIsCurrent), for any number of calls,
\* changes and cancellations.
THEOREM PhpGraphsAreCurrent == RelationSpec => []PhpGraphIsCurrent
<1>1. PhpInv => PhpGraphIsCurrent
  BY DEF PhpInv, CallsOK, IsPhp, PhpGraphIsCurrent, CurrentFor, GraphUsers
<1>2. CASE "php" \in GraphLanguages
  <2>1. RelationInit => PhpInv
    BY <1>2, PhpInvInit
  <2>2. PhpInv /\ [RelationNext]_rcVars => PhpInv'
    BY <1>2, PhpInvNext
  <2> QED
    BY <1>1, <2>1, <2>2, PTL DEF RelationSpec
<1>3. CASE "php" \notin GraphLanguages
  <2>1. PhpGraphIsCurrent
    BY <1>3 DEF PhpGraphIsCurrent
  <2> QED
    BY <2>1, PTL
<1> QED
  BY <1>2, <1>3
=============================================================================
