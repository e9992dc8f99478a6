----------------------------- MODULE PagesProofs -----------------------------
(***************************************************************************)
(* What the pages of the application show, for any number of answers,         *)
(* accounts, events, questions, documents, calls and visits.  Each page has   *)
(* an inductive invariant of its own; that of the whole is the one of the     *)
(* page that is open.                                                         *)
(***************************************************************************)
EXTENDS Pages, FiniteSetTheorems, SequenceTheorems, WellFoundedInduction, TLAPS

-----------------------------------------------------------------------------
(* Numbered things, in the order of a list that is newest first *)

\* The members of a set that are listed before one.
Before(S, e) == {x \in S : x > e}

\* A set of naturals has a least element.
LEMMA SmallestOf ==
  ASSUME NEW S \in SUBSET Nat, S # {}
  PROVE  \E m \in S : \A x \in S : m <= x
<1> DEFINE Segments == {0..m : m \in S}
<1>1. Segments \subseteq FiniteSubsetsOf(Nat) /\ Segments # {}
  <2>1. ASSUME NEW m \in S PROVE 0..m \in FiniteSubsetsOf(Nat)
    <3>1. m \in Int /\ 0..m \subseteq Nat
      OBVIOUS
    <3> QED  BY <3>1, FS_Interval DEF FiniteSubsetsOf
  <2> QED  BY <2>1
<1>2. PICK segment \in Segments : \A other \in Segments :
        ~ (<<other, segment>> \in StrictSubsetOrdering(Nat))
  BY <1>1, FS_StrictSubsetOrderingWellFounded, WFMin
<1>3. PICK m \in S : segment = 0..m
  OBVIOUS
<1>4. ASSUME NEW x \in S, x < m PROVE FALSE
  <2>1. 0..x \subseteq 0..m /\ 0..x # 0..m /\ 0..x \subseteq Nat /\ 0..m \subseteq Nat
    <3>1. x \in Nat /\ m \in Nat
      OBVIOUS
    <3> QED  BY <1>4, <3>1
  <2>2. <<0..x, 0..m>> \in StrictSubsetOrdering(Nat)
    BY <2>1 DEF StrictSubsetOrdering
  <2> QED  BY <1>2, <1>3, <2>2
<1>5. S \subseteq Nat
  OBVIOUS
<1> QED  BY <1>4, <1>5

\* What is numbered up to N is finite.
LEMMA NumbersAreFinite ==
  ASSUME NEW N \in Nat, NEW S \in SUBSET (1..N)
  PROVE  IsFiniteSet(S) /\ Cardinality(S) \in Nat /\ S \subseteq Nat
<1>1. IsFiniteSet(1..N) /\ 1..N \subseteq Nat
  BY FS_Interval
<1>2. IsFiniteSet(S)
  BY <1>1, FS_Subset
<1> QED  BY <1>1, <1>2, FS_CardinalityType

LEMMA FewerNumbers ==
  ASSUME NEW N \in Nat, NEW S \in SUBSET (1..N), NEW T \in SUBSET S
  PROVE  Cardinality(T) <= Cardinality(S)
BY NumbersAreFinite, FS_Subset

\* Before e in the order of a list that is newest first.
LEMMA BeforeIsCounted ==
  ASSUME NEW N \in Nat, NEW S \in SUBSET (1..N), NEW e \in S
  PROVE  Cardinality(Before(S, e)) \in Nat /\ Cardinality(Before(S, e)) < Cardinality(S)
<1>1. e \notin Before(S, e) /\ Before(S, e) \cup {e} \subseteq S
  BY NumbersAreFinite DEF Before
<1>2. Before(S, e) \in SUBSET (1..N) /\ Before(S, e) \cup {e} \in SUBSET (1..N)
  BY <1>1
<1>3. IsFiniteSet(Before(S, e)) /\ Cardinality(Before(S, e)) \in Nat /\ Cardinality(S) \in Nat
  BY <1>2, NumbersAreFinite
<1>4. Cardinality(Before(S, e) \cup {e}) = Cardinality(Before(S, e)) + 1
  BY <1>1, <1>3, FS_AddElement
<1>5. Cardinality(Before(S, e) \cup {e}) <= Cardinality(S)
  BY <1>1, FewerNumbers
<1> QED  BY <1>3, <1>4, <1>5

\* A set of more than n numbers has one that exactly n of it are above.
LEMMA EveryPlaceIsTaken ==
  ASSUME NEW N \in Nat, NEW S \in SUBSET (1..N), NEW n \in Nat, Cardinality(S) > n
  PROVE  \E e \in S : Cardinality(Before(S, e)) = n
<1> DEFINE place(e) == Cardinality(Before(S, e))
           Late == {e \in S : place(e) >= n}
<1>1. S \subseteq Nat /\ IsFiniteSet(S) /\ \A e \in S : place(e) \in Nat
  BY NumbersAreFinite, BeforeIsCounted
<1> HIDE DEF place
<1>2. Late # {}
  <2>1. S # {}
    BY FS_EmptySet
  <2>2. PICK e \in S : \A x \in S : e <= x
    BY <1>1, <2>1, SmallestOf
  <2>3. Before(S, e) = S \ {e}
    <3>1. \A x \in S : x > e <=> x # e
      BY <1>1, <2>2
    <3> QED  BY <3>1 DEF Before
  <2>4. place(e) = Cardinality(S) - 1
    BY <1>1, <2>3, FS_RemoveElement DEF place
  <2>5. Cardinality(S) \in Nat
    BY NumbersAreFinite
  <2> QED  BY <2>2, <2>4, <2>5
<1>3. PICK m \in Late : \A x \in Late : x <= m
  <2> DEFINE Bounds == {b \in Nat : \A x \in Late : x <= b}
  <2>1. N \in Bounds
    BY <1>1
  <2>2. PICK b \in Bounds : \A c \in Bounds : b <= c
    BY <2>1, SmallestOf
  <2>3. b \in Late
    <3> SUFFICES ASSUME b \notin Late PROVE FALSE
      OBVIOUS
    <3>1. PICK x \in Late : x <= b /\ x \in Nat
      BY <1>1, <1>2
    <3>2. \A y \in Late : y \in Nat /\ y <= b /\ y # b
      BY <1>1
    <3>3. b # 0 /\ b - 1 \in Nat
      BY <3>1, <3>2
    <3>4. b - 1 \in Bounds
      BY <3>2, <3>3
    <3> QED  BY <2>2, <3>3, <3>4
  <2> QED  BY <2>3
<1>4. CASE Before(S, m) = {}
  <2>1. place(m) = 0
    BY <1>4, FS_EmptySet DEF place
  <2> QED  BY <1>1, <1>3, <2>1 DEF place
<1>5. CASE Before(S, m) # {}
  <2>1. Before(S, m) \subseteq Nat
    BY <1>1 DEF Before
  <2>2. PICK y \in Before(S, m) : \A x \in Before(S, m) : y <= x
    BY <1>5, <2>1, SmallestOf
  <2>3. y \in S /\ y > m /\ y \notin Late
    BY <1>1, <1>3, <2>2 DEF Before
  <2>4. place(y) < n
    BY <1>1, <2>3
  <2>5. Before(S, m) = Before(S, y) \cup {y} /\ y \notin Before(S, y)
    <3>1. \A x \in S : x > m <=> x > y \/ x = y
      <4>1. \A x \in S : x \in Nat /\ (x > m => y <= x)
        BY <1>1, <2>2 DEF Before
      <4> QED  BY <1>1, <1>3, <2>3, <4>1
    <3>2. ~ (y > y)
      BY <1>1, <2>3
    <3> QED  BY <2>3, <3>1, <3>2 DEF Before
  <2>6. IsFiniteSet(Before(S, y))
    BY <1>1, FS_Subset DEF Before
  <2>7. place(m) = place(y) + 1
    BY <2>5, <2>6, FS_AddElement DEF place
  <2> QED  BY <1>1, <1>3, <2>3, <2>4, <2>7 DEF place
<1> QED  BY <1>4, <1>5

-----------------------------------------------------------------------------
(* The page of one answer under review *)

\* An answer's status is the one that was read, or one that can follow it.
Follows(later, earlier) == later = earlier \/ later \in Detail!AllowedDecisions(earlier)

\* What has been read may be old, but not wrong.
ReadIsPast ==
  /\ data # "none" => Follows(status, data)
  /\ fetch = "read" => read # "none" /\ Follows(status, read)

Fits(body) ==
  /\ body.decision # "approved" => body.comment.units > 0
  /\ body.comment.units > 0 => body.comment.units \in 10..1000

\* A decision was sent from a form that offered what followed the status shown,
\* with a comment of the length the form wants.
SentWasValid ==
  \A s \in Detail!Submits :
    IF call[s] = "unused" THEN reply[s] = "none"
    ELSE /\ Follows(status, sent[s].shown)
         /\ sent[s].offered = Detail!AllowedDecisions(sent[s].shown) \cap Detail!Decisions
         /\ Fits(sent[s])

DetailInv == Detail!TypeOK /\ ReadIsPast /\ SentWasValid /\ Detail!RefusedOnlyIfOvertaken

-----------------------------------------------------------------------------
\* The transitions never lead back.
LEMMA FollowsIsAnOrder ==
  ASSUME NEW a \in Detail!AnswerStatus, NEW b \in Detail!AnswerStatus, Follows(b, a),
         NEW c \in Detail!ALLOWED_TRANSITIONS[b]
  PROVE  c \in Detail!AnswerStatus /\ Follows(c, a) /\ c # a /\ c # b
BY DEF Follows, Detail!AllowedDecisions, Detail!ALLOWED_TRANSITIONS, Detail!AnswerStatus

\* A later status leaves what was read in the past, and what was refused overtaken.
LEMMA StatusMovesOn ==
  ASSUME DetailInv, status' \in Detail!ALLOWED_TRANSITIONS[status],
         UNCHANGED <<data, fetch, read, call, reply, sent>>
  PROVE  ReadIsPast' /\ SentWasValid' /\ Detail!RefusedOnlyIfOvertaken'
<1> USE DEF DetailInv
<1>1. \A a \in Detail!AnswerStatus : Follows(status, a) => Follows(status', a) /\ status' # a
  BY FollowsIsAnOrder DEF Detail!TypeOK
<1>2. \A s \in Detail!Submits : call[s] # "unused" => sent[s].shown \in Detail!AnswerStatus
  BY DEF Detail!TypeOK, Detail!Body
<1>3. ReadIsPast'
  BY <1>1 DEF Detail!TypeOK, ReadIsPast
<1>4. SentWasValid'
  BY <1>1, <1>2 DEF SentWasValid
<1>5. Detail!RefusedOnlyIfOvertaken'
  BY <1>1, <1>2 DEF SentWasValid, Detail!RefusedOnlyIfOvertaken, Detail!WasOffered
<1> QED  BY <1>3, <1>4, <1>5

LEMMA DetailInit == Detail!Init => DetailInv
<1> SUFFICES ASSUME Detail!Init PROVE DetailInv
  OBVIOUS
<1>1. Detail!TypeOK
  <2>1. latest \in 0..MaxSubmits
    BY ReviewPageAssumption DEF Detail!Init
  <2> QED  BY <2>1 DEF Detail!Init, Detail!TypeOK, Detail!AnswerStatus
<1>2. ReadIsPast /\ SentWasValid /\ Detail!RefusedOnlyIfOvertaken
  BY DEF Detail!Init, ReadIsPast, SentWasValid, Detail!RefusedOnlyIfOvertaken
<1> QED  BY <1>1, <1>2 DEF DetailInv

\* What fetches, hides or fills in the page: the status and the calls stay.
LEMMA DetailViewKeeps ==
  ASSUME DetailInv,
         \/ Detail!Fetching \/ Detail!Reconnect \/ Detail!Leave
         \/ \E stale \in BOOLEAN : Detail!Return(stale)
         \/ \E d \in Detail!Decisions : Detail!Choose(d)
         \/ \E t \in Texts : Detail!Write(t)
  PROVE  DetailInv'
<1> USE DEF DetailInv
<1>1. UNCHANGED <<status, call, reply, sent>>
  BY DEF Detail!Fetching, Detail!ReadDetail, Detail!ShowDetail, Detail!FetchFails,
         Detail!Reconnect, Detail!Leave, Detail!Return, Detail!Choose, Detail!Write,
         Detail!calls
<1>2. Detail!TypeOK' /\ ReadIsPast'
  <2> USE ReviewPageAssumption
          DEF Detail!TypeOK, ReadIsPast, Detail!query, Detail!form, Detail!calls
  <2>1. CASE Detail!ReadDetail
    BY <2>1 DEF Detail!ReadDetail, Follows, Detail!AnswerStatus
  <2>2. CASE Detail!ShowDetail
    BY <2>2 DEF Detail!ShowDetail
  <2>3. CASE Detail!FetchFails
    BY <2>3 DEF Detail!FetchFails
  <2>4. CASE Detail!Reconnect
    BY <2>4 DEF Detail!Reconnect, Detail!StartFetch
  <2>5. CASE Detail!Leave
    <3>1. latest' \in 0..MaxSubmits
      BY <2>5 DEF Detail!Leave
    <3> QED  BY <2>5, <3>1 DEF Detail!Leave
  <2>6. ASSUME NEW stale \in BOOLEAN, Detail!Return(stale) PROVE Detail!TypeOK' /\ ReadIsPast'
    BY <2>6 DEF Detail!Return, Detail!StartFetch
  <2>7. ASSUME NEW d \in Detail!Decisions, Detail!Choose(d) PROVE Detail!TypeOK' /\ ReadIsPast'
    BY <2>7 DEF Detail!Choose
  <2>8. ASSUME NEW t \in Texts, Detail!Write(t) PROVE Detail!TypeOK' /\ ReadIsPast'
    BY <2>8 DEF Detail!Write
  <2> QED  BY <2>1, <2>2, <2>3, <2>4, <2>5, <2>6, <2>7, <2>8 DEF Detail!Fetching
<1>3. SentWasValid' /\ Detail!RefusedOnlyIfOvertaken'
  BY <1>1 DEF SentWasValid, Detail!RefusedOnlyIfOvertaken, Detail!WasOffered
<1> QED  BY <1>2, <1>3

\* The form sends what it offers for the status it shows.
LEMMA DetailSubmitKeeps ==
  ASSUME DetailInv, NEW s \in Detail!Submits, Detail!Submit(s)
  PROVE  DetailInv'
<1> USE ReviewPageAssumption DEF DetailInv, Detail!Submit, Detail!query, Detail!form
<1> DEFINE body == [decision |-> choice, comment |-> comment, shown |-> data,
  offered |-> Detail!Offered]
<1>1. data \in Detail!AnswerStatus /\
  Detail!Offered = Detail!AllowedDecisions(data) \cap Detail!Decisions
  BY DEF Detail!TypeOK, Detail!FormShown, Detail!Offered
<1>2. choice \in Detail!Decisions /\ Fits(body)
  BY DEF Detail!TypeOK, Detail!Valid, Detail!CommentOk, Fits
<1>3. /\ sent'[s] = body /\ call'[s] = "flying"
      /\ \A r \in Detail!Submits \ {s} : sent'[r] = sent[r] /\ call'[r] = call[r]
  BY DEF Detail!TypeOK
<1>4. Detail!TypeOK'
  <2>1. s \in 0..MaxSubmits
    BY DEF Detail!Submits
  <2>2. body \in Detail!Body
    BY <1>1, <1>2 DEF Detail!TypeOK, Detail!Body
  <2> QED  BY <1>3, <2>1, <2>2 DEF Detail!TypeOK
<1>5. ReadIsPast'
  BY DEF ReadIsPast
<1>6. SentWasValid'
  <2>1. Follows(status', body.shown)
    BY <1>1 DEF ReadIsPast, Detail!AnswerStatus
  <2>2. Fits(body)
    BY <1>2
  <2>3. \A r \in Detail!Submits \ {s} : UNCHANGED <<status, call[r], sent[r], reply[r]>>
    BY <1>3
  <2> QED  BY <1>1, <1>3, <2>1, <2>2, <2>3 DEF SentWasValid
<1>7. Detail!RefusedOnlyIfOvertaken'
  BY <1>3 DEF Detail!TypeOK, SentWasValid, Detail!RefusedOnlyIfOvertaken, Detail!WasOffered
<1> QED  BY <1>4, <1>5, <1>6, <1>7

\* A refusal has one of the two reasons; an acceptance moves the status on.
LEMMA DetailDecideKeeps ==
  ASSUME DetailInv, NEW s \in Detail!Submits, Detail!Decide(s)
  PROVE  DetailInv'
<1> USE DEF DetailInv, Detail!Decide, Detail!query, Detail!form
<1>1. /\ call[s] = "flying" /\ sent[s].shown \in Detail!AnswerStatus
      /\ sent[s].decision \in Detail!Decisions
      /\ sent[s].comment \in Texts \cup {Detail!NoText} /\ status \in Detail!AnswerStatus
  BY DEF Detail!TypeOK, Detail!Body
<1>2. CASE ~Detail!BodyOk(sent[s])
  <2>1. status' = status /\ reply' = [reply EXCEPT ![s] = "422"]
    BY <1>2
  <2>2. sent[s].comment.units # sent[s].comment.points
    <3> DEFINE c == sent[s].comment
    <3>1. c.units \in Nat /\ c.points \in Nat /\ (c.units = 0 <=> c.points = 0)
      BY <1>1, ReviewPageAssumption DEF Detail!NoText
    <3>2. Fits(sent[s])
      BY <1>1 DEF SentWasValid
    <3>3. ASSUME c.units = c.points PROVE Detail!BodyOk(sent[s])
      <4>1. sent[s].decision # "approved" => c.points > 0
        BY <3>1, <3>2, <3>3 DEF Fits
      <4>2. c.units > 0 => c.units \in 10..1000
        BY <3>2 DEF Fits
      <4>3. c.points > 0 => c.points \in 10..1000
        BY <3>3, <4>2
      <4> QED  BY <4>1, <4>3 DEF Detail!BodyOk
    <3> QED  BY <1>2, <3>3
  <2>3. Detail!TypeOK' /\ ReadIsPast' /\ SentWasValid'
    BY <1>1, <2>1 DEF Detail!TypeOK, ReadIsPast, SentWasValid
  <2>4. Detail!RefusedOnlyIfOvertaken'
    BY <2>1, <2>2 DEF Detail!TypeOK, Detail!RefusedOnlyIfOvertaken, Detail!WasOffered
  <2> QED  BY <2>3, <2>4
<1>3. CASE Detail!BodyOk(sent[s]) /\ sent[s].decision \notin Detail!ALLOWED_TRANSITIONS[status]
  <2>1. status' = status /\ reply' = [reply EXCEPT ![s] = "409"]
    BY <1>3
  <2>2. Detail!WasOffered(s) => status # sent[s].shown
    BY <1>1, <1>3 DEF SentWasValid, Detail!WasOffered, Detail!AllowedDecisions
  <2>3. Detail!TypeOK' /\ ReadIsPast' /\ SentWasValid'
    BY <1>1, <2>1 DEF Detail!TypeOK, ReadIsPast, SentWasValid
  <2>4. Detail!RefusedOnlyIfOvertaken'
    BY <2>1, <2>2 DEF Detail!TypeOK, Detail!RefusedOnlyIfOvertaken, Detail!WasOffered
  <2> QED  BY <2>3, <2>4
<1>4. CASE Detail!BodyOk(sent[s]) /\ sent[s].decision \in Detail!ALLOWED_TRANSITIONS[status]
  <2>1. status' \in Detail!ALLOWED_TRANSITIONS[status] /\ reply' = [reply EXCEPT ![s] = "201"]
    BY <1>4
  <2>2. \A a \in Detail!AnswerStatus : Follows(status, a) => Follows(status', a) /\ status' # a
    BY <1>1, <2>1, FollowsIsAnOrder
  <2>3. Detail!TypeOK'
    BY <2>1, <1>1, FollowsIsAnOrder DEF Detail!TypeOK, Follows
  <2>4. \A r \in Detail!Submits : /\ call[r] # "unused" => sent[r].shown \in Detail!AnswerStatus
                                  /\ r # s => reply'[r] = reply[r]
    BY <2>1 DEF Detail!TypeOK, Detail!Body
  <2>5. ASSUME NEW r \in Detail!Submits, call[r] # "unused"
        PROVE  Follows(status', sent[r].shown) /\ status' # sent[r].shown
    <3>1. Follows(status, sent[r].shown)
      BY <2>5 DEF SentWasValid
    <3>2. sent[r].shown \in Detail!AnswerStatus
      BY <2>4, <2>5
    <3> QED  BY ONLY <2>2, <3>1, <3>2
  <2>6. ReadIsPast'
    BY <2>2 DEF Detail!TypeOK, ReadIsPast
  <2>7. SentWasValid'
    <3>1. \A r \in Detail!Submits : call[r] = "unused" => reply'[r] = "none"
      BY <1>1, <2>4 DEF SentWasValid
    <3>2. \A r \in Detail!Submits : call[r] # "unused" => Follows(status', sent[r].shown)
      BY <2>5
    <3> QED  BY <3>1, <3>2 DEF SentWasValid
  <2>8. Detail!RefusedOnlyIfOvertaken'
    <3>1. \A r \in Detail!Submits : reply'[r] # "422" \/ reply[r] = "422"
      BY <2>1 DEF Detail!TypeOK
    <3>2. \A r \in Detail!Submits : reply'[r] = "409" => call[r] # "unused"
      BY <1>1, <2>4 DEF SentWasValid
    <3> QED  BY <2>5, <3>1, <3>2 DEF Detail!RefusedOnlyIfOvertaken, Detail!WasOffered
  <2> QED  BY <2>3, <2>6, <2>7, <2>8
<1> QED  BY <1>2, <1>3, <1>4

\* What becomes of a call that is answered, or not, leaves status and body alone.
LEMMA DetailSettleKeeps ==
  ASSUME DetailInv, NEW s \in Detail!Submits,
    Detail!Accepted(s) \/ Detail!Refused(s) \/ Detail!Lost(s)
  PROVE  DetailInv'
<1> USE DEF DetailInv
<1>1. call[s] = "flying" /\ UNCHANGED <<status, data, reply, sent>>
  BY DEF Detail!Accepted, Detail!Refused, Detail!Lost, Detail!query
<1>2. \A r \in Detail!Submits : call'[r] = "unused" <=> call[r] = "unused"
  BY <1>1 DEF Detail!TypeOK, Detail!Accepted, Detail!Refused, Detail!Lost
<1>3. Detail!TypeOK' /\ ReadIsPast'
  <2>1. CASE Detail!Accepted(s)
    <3>1. latest' \in 0..MaxSubmits
      BY <2>1, ReviewPageAssumption DEF Detail!TypeOK, Detail!Accepted
    <3>2. /\ choice' \in Detail!Decisions \cup {"none"} /\ comment' \in Texts \cup {Detail!NoText}
          /\ {failed, invalid, mounted}' \subseteq BOOLEAN
      BY <2>1 DEF Detail!TypeOK, Detail!Accepted, Detail!StartFetch, Detail!form
    <3>3. /\ fetch' \in {"idle", "sent", "read"} /\ read' \in Detail!AnswerStatus \cup {"none"}
          /\ fetch' = "read" => fetch = "read" /\ read' = read
      BY <2>1 DEF Detail!TypeOK, Detail!Accepted, Detail!StartFetch
    <3>4. call' \in [Detail!Submits -> {"unused", "flying", "settled", "lost"}]
      BY <2>1 DEF Detail!TypeOK, Detail!Accepted
    <3> QED  BY <1>1, <1>2, <3>1, <3>2, <3>3, <3>4 DEF Detail!TypeOK, ReadIsPast
  <2>2. CASE Detail!Refused(s) \/ Detail!Lost(s)
    BY <1>2, <2>2
       DEF Detail!TypeOK, ReadIsPast, Detail!Refused, Detail!Lost, Detail!query, Detail!form
  <2> QED  BY <2>1, <2>2
<1>4. SentWasValid' /\ Detail!RefusedOnlyIfOvertaken'
  BY <1>1, <1>2 DEF SentWasValid, Detail!RefusedOnlyIfOvertaken, Detail!WasOffered
<1> QED  BY <1>3, <1>4

LEMMA DetailOtherReviewerKeeps ==
  ASSUME DetailInv, Detail!OtherReviewer
  PROVE  DetailInv'
<1>1. PICK d \in Detail!ALLOWED_TRANSITIONS[status] : status' = d
  BY DEF Detail!OtherReviewer
<1>2. Detail!TypeOK'
  <2>1. d \in Detail!AnswerStatus
    BY FollowsIsAnOrder DEF DetailInv, Detail!TypeOK, Follows
  <2> QED  BY <1>1, <2>1
              DEF Detail!OtherReviewer, Detail!query, Detail!form, Detail!calls, DetailInv,
                  Detail!TypeOK
<1>3. ReadIsPast' /\ SentWasValid' /\ Detail!RefusedOnlyIfOvertaken'
  BY <1>1, StatusMovesOn DEF Detail!OtherReviewer, Detail!query, Detail!calls
<1> QED  BY <1>2, <1>3 DEF DetailInv

LEMMA DetailNext == DetailInv /\ (Detail!Next \/ UNCHANGED Detail!vars) => DetailInv'
<1> SUFFICES ASSUME DetailInv, (Detail!Next \/ UNCHANGED Detail!vars) PROVE DetailInv'
  OBVIOUS
<1>1. ASSUME NEW s \in Detail!Submits, Detail!Submit(s) \/ Detail!Answering(s) \/ Detail!Lost(s)
      PROVE DetailInv'
  BY <1>1, DetailSubmitKeeps, DetailDecideKeeps, DetailSettleKeeps DEF Detail!Answering
<1>2. CASE Detail!OtherReviewer
  BY <1>2, DetailOtherReviewerKeeps
<1>3. CASE UNCHANGED Detail!vars
  BY <1>3
     DEF Detail!vars, DetailInv, Detail!TypeOK, ReadIsPast, SentWasValid,
         Detail!RefusedOnlyIfOvertaken, Detail!WasOffered
<1> QED  BY <1>1, <1>2, <1>3, DetailViewKeeps DEF Detail!Next

-----------------------------------------------------------------------------
(* The queue of answers *)

\* A decision is about an answer; one that has taken effect has moved it on.
DecidedHasMoved ==
  \A s \in Queue!Decisions :
    /\ call[s] # "unused" => sent[s].answer \in Answers /\ sent[s].decision \in Queue!AnswerStatus
    /\ call[s] \in {"decided", "told", "overtaken"} => status[sent[s].answer] # "pending_review"

\* The queue has no mutation of its own, and never rests on a list that is marked.
QueueIsFresh ==
  open = "queue" =>
    /\ latest = 0
    /\ fetch[filter] = "idle" /\ filter \in loaded \cap invalid => filter \in failed

\* Neither what a fetch of the pending ones brings nor what is cached unmarked is
\* older than what the reviewer was told.
ToldIsSeen ==
  \A s \in Queue!Decisions : call[s] = "told" =>
    /\ fetch["pending_review"] = "read"
         => read["pending_review"][sent[s].answer] # "pending_review"
    /\ "pending_review" \in loaded \ invalid
         => listed["pending_review"][sent[s].answer] # "pending_review"

QueueInv == Queue!TypeOK /\ DecidedHasMoved /\ QueueIsFresh /\ ToldIsSeen

-----------------------------------------------------------------------------
\* An answer once decided is never pending again.
LEMMA NeverPendingAgain ==
  \A a \in Queue!AnswerStatus : Queue!ALLOWED_TRANSITIONS[a] \subseteq
    Queue!AnswerStatus \ {"pending_review"}
BY DEF Queue!ALLOWED_TRANSITIONS, Queue!AnswerStatus

LEMMA QueueInit == Queue!Init => QueueInv
<1> SUFFICES ASSUME Queue!Init PROVE QueueInv
  OBVIOUS
<1> USE ReviewQueueAssumption DEF Queue!Init
<1>1. Queue!TypeOK
  <2>1. Queue!Unread \in [Answers -> Queue!AnswerStatus]
    BY DEF Queue!Unread, Queue!AnswerStatus
  <2>2. latest \in 0..MaxDecisions
    OBVIOUS
  <2> QED  BY <2>1, <2>2 DEF Queue!TypeOK
<1>2. DecidedHasMoved /\ QueueIsFresh /\ ToldIsSeen
  BY DEF DecidedHasMoved, QueueIsFresh, ToldIsSeen
<1> QED  BY <1>1, <1>2 DEF QueueInv

\* A fetch that starts carries nothing yet.
LEMMA StartFetchTyped ==
  ASSUME Queue!TypeOK, NEW f \in Filters, Queue!StartFetch(f)
  PROVE  /\ fetch' \in [Filters -> {"idle", "sent", "read"}] /\ fetch'[f] = "sent"
         /\ \A g \in Filters : g # f => fetch'[g] = fetch[g] /\ read'[g] = read[g]
         /\ read' \in [Filters -> [Answers -> Queue!AnswerStatus]]
         /\ failed' \in SUBSET Filters
<1>1. Queue!Unread \in [Answers -> Queue!AnswerStatus]
  BY DEF Queue!Unread, Queue!AnswerStatus
<1> QED  BY <1>1 DEF Queue!TypeOK, Queue!StartFetch

LEMMA ReadQueueKeeps ==
  ASSUME QueueInv, NEW f \in Filters, Queue!ReadQueue(f)
  PROVE  QueueInv'
<1> USE DEF QueueInv, Queue!ReadQueue, Queue!cache, Queue!calls
<1>1. Queue!TypeOK'
  BY DEF Queue!TypeOK
<1>2. DecidedHasMoved' /\ QueueIsFresh'
  BY DEF Queue!TypeOK, DecidedHasMoved, QueueIsFresh
<1>3. ToldIsSeen'
  BY DEF Queue!TypeOK, DecidedHasMoved, ToldIsSeen
<1> QED  BY <1>1, <1>2, <1>3

LEMMA ShowQueueKeeps ==
  ASSUME QueueInv, NEW f \in Filters, Queue!ShowQueue(f)
  PROVE  QueueInv'
<1> USE DEF QueueInv, Queue!ShowQueue, Queue!EndFetch, Queue!calls
<1>1. Queue!TypeOK'
  <2>1. Queue!Unread \in [Answers -> Queue!AnswerStatus]
    BY DEF Queue!Unread, Queue!AnswerStatus
  <2> QED  BY <2>1 DEF Queue!TypeOK
<1>2. DecidedHasMoved' /\ QueueIsFresh'
  BY DEF Queue!TypeOK, DecidedHasMoved, QueueIsFresh
<1>3. ToldIsSeen'
  BY DEF Queue!TypeOK, ToldIsSeen
<1> QED  BY <1>1, <1>2, <1>3

LEMMA QueueFetchFailsKeeps ==
  ASSUME QueueInv, NEW f \in Filters, Queue!FetchFails(f)
  PROVE  QueueInv'
<1> USE DEF QueueInv, Queue!FetchFails, Queue!EndFetch, Queue!calls
<1>1. Queue!TypeOK'
  <2>1. Queue!Unread \in [Answers -> Queue!AnswerStatus]
    BY DEF Queue!Unread, Queue!AnswerStatus
  <2> QED  BY <2>1 DEF Queue!TypeOK
<1>2. DecidedHasMoved' /\ QueueIsFresh'
  BY DEF Queue!TypeOK, DecidedHasMoved, QueueIsFresh
<1>3. ToldIsSeen'
  BY DEF Queue!TypeOK, ToldIsSeen
<1> QED  BY <1>1, <1>2, <1>3

\* Who comes to a tab fetches it if its list is marked.
LEMMA VisitKeeps ==
  ASSUME QueueInv, NEW f \in Filters, NEW stale \in BOOLEAN, Queue!Visit(f, stale),
         latest' = 0, UNCHANGED <<status, call, sent>>
  PROVE  QueueInv'
<1> USE ReviewQueueAssumption DEF QueueInv, Queue!Visit
<1> DEFINE Missing == fetch[f] = "idle" /\ (f \notin loaded \/ f \in invalid \/ stale)
<1>1. CASE Missing
  <2>1. Queue!StartFetch(f)
    BY <1>1
  <2>2. Queue!TypeOK'
    BY <2>1, StartFetchTyped DEF Queue!TypeOK
  <2>3. DecidedHasMoved' /\ QueueIsFresh'
    BY <2>1, StartFetchTyped DEF DecidedHasMoved, QueueIsFresh
  <2>4. ToldIsSeen'
    BY <2>1, StartFetchTyped DEF ToldIsSeen
  <2> QED  BY <2>2, <2>3, <2>4
<1>2. CASE ~Missing
  <2>1. UNCHANGED <<fetch, read, failed, loaded, invalid, listed>>
    BY <1>2
  <2>2. Queue!TypeOK'
    BY <2>1 DEF Queue!TypeOK
  <2>3. DecidedHasMoved' /\ QueueIsFresh' /\ ToldIsSeen'
    BY <1>2, <2>1 DEF DecidedHasMoved, QueueIsFresh, ToldIsSeen
  <2> QED  BY <2>2, <2>3
<1> QED  BY <1>1, <1>2

LEMMA QueueRefetchKeeps ==
  ASSUME QueueInv, Queue!Refetch
  PROVE  QueueInv'
<1> USE ReviewQueueAssumption DEF QueueInv, Queue!Refetch, Queue!calls
<1>1. filter \in Filters /\ Queue!StartFetch(filter)
  BY DEF Queue!TypeOK
<1>2. Queue!TypeOK'
  BY <1>1, StartFetchTyped DEF Queue!TypeOK
<1>3. DecidedHasMoved' /\ QueueIsFresh'
  BY <1>1, StartFetchTyped DEF DecidedHasMoved, QueueIsFresh
<1>4. ToldIsSeen'
  <2>1. UNCHANGED <<loaded, invalid, listed, call, sent>>
    OBVIOUS
  <2>2. \A g \in Filters : fetch'[g] = "read" => fetch[g] = "read" /\ read'[g] = read[g]
    BY <1>1, StartFetchTyped
  <2> QED  BY ONLY <2>1, <2>2, QueueInv, ReviewQueueAssumption DEF QueueInv, ToldIsSeen
<1> QED  BY <1>2, <1>3, <1>4

LEMMA ReviewKeeps ==
  ASSUME QueueInv, NEW a \in Answers, Queue!Review(a)
  PROVE  QueueInv'
<1> USE DEF QueueInv, Queue!Review, Queue!queries, Queue!calls
<1>1. Queue!TypeOK'
  BY DEF Queue!TypeOK
<1>2. DecidedHasMoved' /\ QueueIsFresh' /\ ToldIsSeen'
  BY DEF DecidedHasMoved, QueueIsFresh, ToldIsSeen, Queue!Shown
<1> QED  BY <1>1, <1>2

LEMMA QueueSubmitKeeps ==
  ASSUME QueueInv, NEW s \in Queue!Decisions, NEW d \in Queue!AnswerStatus, Queue!Submit(s, d)
  PROVE  QueueInv'
<1> USE ReviewQueueAssumption DEF QueueInv, Queue!Submit, Queue!queries
<1>1. open \in Answers /\ s \in 0..MaxDecisions
  BY DEF Queue!TypeOK, Queue!Decisions
<1>2. Queue!TypeOK'
  BY <1>1 DEF Queue!TypeOK
<1>3. DecidedHasMoved'
  BY <1>1 DEF Queue!TypeOK, DecidedHasMoved
<1>4. QueueIsFresh' /\ ToldIsSeen'
  BY DEF Queue!TypeOK, QueueIsFresh, ToldIsSeen
<1> QED  BY <1>2, <1>3, <1>4

LEMMA QueueDecideKeeps ==
  ASSUME QueueInv, NEW s \in Queue!Decisions, Queue!Decide(s)
  PROVE  QueueInv'
<1> USE DEF QueueInv, Queue!Decide, Queue!queries
<1> DEFINE a == sent[s].answer
<1>1. a \in Answers /\ sent[s].decision \in Queue!AnswerStatus \ {"pending_review"}
  BY NeverPendingAgain DEF Queue!TypeOK, DecidedHasMoved
<1>2. Queue!TypeOK'
  BY <1>1 DEF Queue!TypeOK
<1>3. DecidedHasMoved'
  BY <1>1 DEF Queue!TypeOK, DecidedHasMoved
<1>4. QueueIsFresh' /\ ToldIsSeen'
  BY DEF Queue!TypeOK, QueueIsFresh, ToldIsSeen
<1> QED  BY <1>2, <1>3, <1>4

LEMMA SubmitFailsKeeps ==
  ASSUME QueueInv, NEW s \in Queue!Decisions, Queue!SubmitFails(s)
  PROVE  QueueInv'
<1> USE DEF QueueInv, Queue!SubmitFails, Queue!queries
<1>1. Queue!TypeOK'
  BY DEF Queue!TypeOK
<1>2. DecidedHasMoved' /\ QueueIsFresh' /\ ToldIsSeen'
  BY DEF Queue!TypeOK, DecidedHasMoved, QueueIsFresh, ToldIsSeen
<1> QED  BY <1>1, <1>2

LEMMA QueueOtherReviewerKeeps ==
  ASSUME QueueInv, Queue!OtherReviewer
  PROVE  QueueInv'
<1> USE DEF QueueInv, Queue!OtherReviewer, Queue!queries, Queue!calls
<1>1. PICK a \in Answers, d \in Queue!AnswerStatus \ {"pending_review"} :
        status' = [status EXCEPT ![a] = d]
  BY NeverPendingAgain DEF Queue!TypeOK
<1>2. Queue!TypeOK'
  BY <1>1 DEF Queue!TypeOK
<1>3. DecidedHasMoved'
  BY <1>1 DEF Queue!TypeOK, DecidedHasMoved
<1>4. QueueIsFresh' /\ ToldIsSeen'
  BY DEF QueueIsFresh, ToldIsSeen
<1> QED  BY <1>2, <1>3, <1>4

\* All lists are marked, and one that is told of the decision has no older fetch.
LEMMA QueueAcceptedKeeps ==
  ASSUME QueueInv, NEW s \in Queue!Decisions, Queue!Accepted(s)
  PROVE  QueueInv'
<1> USE ReviewQueueAssumption DEF QueueInv, Queue!Accepted
<1> DEFINE back == latest = s
           Fetches == \/ open = "queue" /\ ~Queue!Joined(filter)
                      \/ back /\ fetch["pending_review"] = "idle"
<1>1. back => open # "queue"
  BY DEF QueueIsFresh, Queue!Decisions
<1>2. /\ invalid' = Filters /\ filter' \in Filters /\ open' \in Answers \cup {"queue"}
      /\ latest' \in 0..MaxDecisions /\ (open' = "queue" => latest' = 0)
      /\ open' = "queue" => (open = "queue" /\ filter' = filter)
                              \/ (back /\ filter' = "pending_review")
  BY <1>1 DEF Queue!TypeOK, QueueIsFresh, Queue!Invalidate
<1>3. IF Fetches THEN Queue!StartFetch(filter') ELSE UNCHANGED <<fetch, read, failed>>
  BY DEF Queue!Invalidate
<1>4. call' \in [Queue!Decisions -> {"unused", "flying", "decided", "told", "overtaken",
  "failed"}]
  BY DEF Queue!TypeOK
<1>5. CASE Fetches
  <2>1. Queue!StartFetch(filter')
    BY <1>3, <1>5
  <2>2. Queue!TypeOK'
    BY <1>2, <1>4, <2>1, StartFetchTyped DEF Queue!TypeOK
  <2>3. DecidedHasMoved'
    BY DEF Queue!TypeOK, DecidedHasMoved
  <2>4. QueueIsFresh'
    BY <1>2, <2>1, StartFetchTyped DEF QueueIsFresh
  <2>5. ToldIsSeen'
    <3>1. CASE filter' = "pending_review"
      BY <1>2, <2>1, <3>1, StartFetchTyped DEF ToldIsSeen
    <3>2. CASE filter' # "pending_review"
      <4>1. filter # "pending_review"
        BY <3>2 DEF Queue!Invalidate
      <4>2. /\ fetch'["pending_review"] = fetch["pending_review"]
            /\ read'["pending_review"] = read["pending_review"]
        BY <1>2, <2>1, <3>2, StartFetchTyped
      <4>3. call'[s] = "told" => fetch["pending_review"] = "idle"
        BY <4>1 DEF Queue!TypeOK, Queue!Told
      <4> QED  BY <1>2, <4>2, <4>3 DEF Queue!TypeOK, ToldIsSeen
    <3> QED  BY <3>1, <3>2
  <2> QED  BY <2>2, <2>3, <2>4, <2>5
<1>6. CASE ~Fetches
  <2>1. UNCHANGED <<fetch, read, failed>>
    BY <1>3, <1>6
  <2>2. Queue!TypeOK'
    BY <1>2, <1>4, <2>1 DEF Queue!TypeOK
  <2>3. DecidedHasMoved'
    BY DEF Queue!TypeOK, DecidedHasMoved
  <2>4. QueueIsFresh'
    BY <1>2, <1>6, <2>1 DEF QueueIsFresh, Queue!Joined
  <2>5. ToldIsSeen'
    BY <1>2, <1>6, <2>1 DEF Queue!TypeOK, ToldIsSeen, Queue!Told, Queue!Joined
  <2> QED  BY <2>2, <2>3, <2>4, <2>5
<1> QED  BY <1>5, <1>6

LEMMA QueueNext == QueueInv /\ (Queue!Next \/ UNCHANGED Queue!vars) => QueueInv'
<1> SUFFICES ASSUME QueueInv, (Queue!Next \/ UNCHANGED Queue!vars) PROVE QueueInv'
  OBVIOUS
<1>1. ASSUME NEW f \in Filters, Queue!ReadQueue(f) \/ Queue!ShowQueue(f) \/ Queue!FetchFails(f)
      PROVE QueueInv'
  BY <1>1, ReadQueueKeeps, ShowQueueKeeps, QueueFetchFailsKeeps
<1>2. ASSUME NEW stale \in BOOLEAN, Queue!BackToQueue(stale) PROVE QueueInv'
  BY <1>2, VisitKeeps, ReviewQueueAssumption DEF Queue!BackToQueue
<1>3. ASSUME NEW stale \in BOOLEAN, NEW f \in Filters, Queue!ChooseFilter(f, stale)
      PROVE QueueInv'
  BY <1>3, VisitKeeps DEF Queue!ChooseFilter, Queue!calls, QueueInv, QueueIsFresh
<1>4. ASSUME NEW s \in Queue!Decisions,
             \/ \E d \in Queue!AnswerStatus : Queue!Submit(s, d)
             \/ Queue!Decide(s) \/ Queue!SubmitFails(s) \/ Queue!Accepted(s)
      PROVE  QueueInv'
  BY <1>4, QueueSubmitKeeps, QueueDecideKeeps, SubmitFailsKeeps, QueueAcceptedKeeps
<1>5. CASE UNCHANGED Queue!vars
  BY <1>5 DEF Queue!vars, QueueInv, Queue!TypeOK, DecidedHasMoved, QueueIsFresh, ToldIsSeen
<1> QED  BY <1>1, <1>2, <1>3, <1>4, <1>5, QueueRefetchKeeps, QueueOtherReviewerKeeps,
            ReviewKeeps DEF Queue!Next

LEMMA QueueInvSuffices == QueueInv => Queue!DecidedLeavesQueue
BY DEF QueueInv, QueueIsFresh, ToldIsSeen, Queue!DecidedLeavesQueue, Queue!Shown, Queue!Items

-----------------------------------------------------------------------------
(* The list of accounts *)

\* A change is of one of the two columns, to a value that this column takes.
Changes == {ch \in [account : Accounts, column : {"role", "status"},
                    value : ROLES \cup {"active", "inactive"}] :
              IF ch.column = "role" THEN ch.value \in ROLES
              ELSE ch.value \in {"active", "inactive"}}
SentIsChange == \A c \in Admin!Patches : call[c] # "unused" => sent[c] \in Changes

\* An open page never rests on a list that is marked.
TableIsFresh == mounted /\ fetch = "idle" /\ invalid /\ data # 0 => failed

\* Neither what a fetch brings nor what is cached unmarked is older than what the
\* administrator was told.
ToldIsListed ==
  \A c \in Admin!Patches : call[c] = "told" =>
    /\ fetch = "read" => read >= at[c]
    /\ data # 0 /\ ~invalid => data >= at[c]

UsersInv == Admin!TypeOK /\ SentIsChange /\ TableIsFresh /\ ToldIsListed

\* There is always a table.
LEMMA Tables ==
  ASSUME Admin!TypeOK
  PROVE  /\ tables \in Seq(Admin!Table) /\ Len(tables) \in Nat /\ Len(tables) \in 1..Len(tables)
         /\ Len(tables) \in 0..Len(tables) /\ 0 \in 0..Len(tables) /\ Admin!Users \in Admin!Table
<1>1. tables \in Seq(Admin!Table) /\ Len(tables) > 0
  BY DEF Admin!TypeOK
<1>2. Len(tables) \in Nat /\ Len(tables) \in 1..Len(tables)
  BY <1>1, LenProperties
<1> QED  BY <1>1, <1>2, ElementOfSeq DEF Admin!Users

LEMMA ChangeTyped ==
  ASSUME Admin!TypeOK, NEW u \in Accounts, NEW col \in {"role", "status"}, NEW v,
         IF col = "role" THEN v \in ROLES ELSE v \in {"active", "inactive"}
  PROVE  /\ Admin!Change(u, col, v) \in Seq(Admin!Table)
         /\ Len(Admin!Change(u, col, v)) = Len(tables) + 1
<1>1. Admin!Users \in Admin!Table
  BY Tables
<1>2. [Admin!Users EXCEPT ![u][col] = v] \in Admin!Table
  <2>1. CASE col = "role"
    BY <1>1, <2>1 DEF Admin!Table
  <2>2. CASE col = "status"
    BY <1>1, <2>2 DEF Admin!Table
  <2> QED  BY <2>1, <2>2
<1> QED  BY <1>2, Tables, AppendProperties DEF Admin!Change

LEMMA UsersInit == Admin!Init => UsersInv
<1> SUFFICES ASSUME Admin!Init PROVE UsersInv
  OBVIOUS
<1> USE UsersTableAssumption
<1>1. PICK table \in Admin!Table : tables = <<table>>
  BY DEF Admin!Init, Admin!Table
<1>2. tables \in Seq(Admin!Table) /\ Len(tables) = 1
  BY <1>1
<1>3. Admin!TypeOK
  <2>1. Admin!NoChange \in [account : Accounts, column : {"none", "role", "status"},
                      value : ROLES \cup {"none", "active", "inactive"}]
    BY DEF Admin!NoChange
  <2>2. 0 \in 0..MaxPatches /\ 0 \in 0..Len(tables) /\ 0 \in 0..MaxOthers
    BY <1>2
  <2>3. /\ data \in 0..Len(tables) /\ read \in 0..Len(tables) /\ others \in 0..MaxOthers
        /\ {failed, invalid, mounted} \subseteq BOOLEAN /\ latest \in 0..MaxPatches
        /\ fetch \in {"idle", "sent", "read"}
    BY <2>2 DEF Admin!Init
  <2>4. at \in [Admin!Patches -> 0..Len(tables)]
    BY <2>2 DEF Admin!Init
  <2>5. call = [c \in Admin!Patches |-> "unused"] /\
    sent = [c \in Admin!Patches |-> Admin!NoChange]
    BY DEF Admin!Init
  <2> QED  BY <1>2, <2>1, <2>3, <2>4, <2>5 DEF Admin!TypeOK
<1>4. SentIsChange /\ TableIsFresh /\ ToldIsListed
  BY DEF Admin!Init, SentIsChange, TableIsFresh, ToldIsListed
<1> QED  BY <1>3, <1>4 DEF UsersInv

\* The fetch of the list, and the coming and going of the page.
LEMMA UsersListKeeps ==
  ASSUME UsersInv,
         \/ Admin!ListUsers \/ Admin!ShowUsers \/ Admin!FetchFails \/ Admin!Refetch \/ Admin!Leave
         \/ \E stale \in BOOLEAN : Admin!Return(stale)
  PROVE  UsersInv'
<1> USE UsersTableAssumption DEF UsersInv
<1>1. UNCHANGED <<tables, others, call, sent, at>>
  BY DEF Admin!ListUsers, Admin!ShowUsers, Admin!FetchFails, Admin!Refetch, Admin!Leave,
         Admin!Return, Admin!server, Admin!calls
<1>2. Len(tables) \in Nat /\ \A c \in Admin!Patches : at[c] \in 0..Len(tables)
  BY Tables DEF Admin!TypeOK
<1>3. Admin!TypeOK'
  <2>1. 0 \in 0..Len(tables) /\ Len(tables) \in 0..Len(tables) /\ 0 \in 0..MaxPatches
    BY <1>2
  <2>2. /\ data' \in 0..Len(tables) /\ read' \in 0..Len(tables) /\ latest' \in 0..MaxPatches
        /\ fetch' \in {"idle", "sent", "read"} /\ {failed, invalid, mounted}' \subseteq BOOLEAN
    BY <2>1
       DEF Admin!TypeOK, Admin!ListUsers, Admin!ShowUsers, Admin!FetchFails, Admin!Refetch,
           Admin!Leave, Admin!Return, Admin!StartFetch, Admin!query, Admin!calls
  <2> QED  BY <1>1, <2>2 DEF Admin!TypeOK
<1>5. TableIsFresh' /\ ToldIsListed'
  <2> USE <1>1, <1>2 DEF TableIsFresh, ToldIsListed, Admin!query
  <2>1. CASE Admin!ListUsers
    BY <2>1 DEF Admin!ListUsers
  <2>2. CASE Admin!ShowUsers
    BY <2>2 DEF Admin!ShowUsers
  <2>3. CASE Admin!FetchFails
    BY <2>3 DEF Admin!FetchFails
  <2>4. CASE Admin!Refetch
    BY <2>4 DEF Admin!Refetch, Admin!StartFetch
  <2>5. CASE Admin!Leave
    BY <2>5 DEF Admin!Leave
  <2>6. ASSUME NEW stale \in BOOLEAN, Admin!Return(stale) PROVE TableIsFresh' /\ ToldIsListed'
    BY <2>6 DEF Admin!Return, Admin!StartFetch
  <2> QED  BY <2>1, <2>2, <2>3, <2>4, <2>5, <2>6
<1>4. SentIsChange'
  BY <1>1 DEF SentIsChange
<1> QED  BY <1>3, <1>4, <1>5

\* The controls only send what their column takes.
LEMMA UsersPatchKeeps ==
  ASSUME UsersInv, NEW c \in Admin!Patches, NEW u \in Accounts,
         Admin!ToggleActive(c, u) \/ \E role \in ROLES : Admin!ChangeRole(c, u, role)
  PROVE  UsersInv'
<1> USE UsersTableAssumption DEF UsersInv
<1>1. PICK column \in {"role", "status"}, value \in ROLES \cup {"active", "inactive"} :
        /\ IF column = "role" THEN value \in ROLES ELSE value \in {"active", "inactive"}
        /\ Admin!Patch(c, u, column, value)
  BY DEF Admin!ToggleActive, Admin!ChangeRole
<1> DEFINE change == [account |-> u, column |-> column, value |-> value]
<1>2. change \in Changes
  BY <1>1 DEF Changes
<1>3. c \in 0..MaxPatches
  BY DEF Admin!Patches
<1>4. Admin!TypeOK'
  BY <1>1, <1>3 DEF Admin!TypeOK, Admin!Patch, Admin!server, Admin!query
<1>5. SentIsChange'
  BY <1>1, <1>2 DEF Admin!TypeOK, SentIsChange, Admin!Patch
<1>6. TableIsFresh' /\ ToldIsListed'
  BY <1>1 DEF Admin!TypeOK, TableIsFresh, ToldIsListed, Admin!Patch, Admin!query
<1> QED  BY <1>4, <1>5, <1>6

CallStates ==
  {"unused", "flying", "applied", "refused", "told", "told away", "failed"}

\* What has been read stays the number of a table when there are more of them.
LEMMA MoreTablesTyped ==
  ASSUME Admin!TypeOK, tables' \in Seq(Admin!Table), Len(tables') >= Len(tables),
         others' \in 0..MaxOthers,
         call' \in [Admin!Patches -> CallStates], at' \in [Admin!Patches -> 0..Len(tables')],
         UNCHANGED <<data, failed, fetch, read, invalid, mounted, latest, sent>>
  PROVE  Admin!TypeOK'
<1>1. Len(tables) \in Nat /\ Len(tables') \in Nat /\ Len(tables') > 0
  BY Tables, LenProperties
<1>2. data' \in 0..Len(tables') /\ read' \in 0..Len(tables')
  <2>1. data' \in 0..Len(tables) /\ read' \in 0..Len(tables)
    BY DEF Admin!TypeOK
  <2> QED  BY <1>1, <2>1
<1>3. /\ {failed, invalid, mounted}' \subseteq BOOLEAN
      /\ fetch' \in {"idle", "sent", "read"} /\ latest' \in 0..MaxPatches
  BY DEF Admin!TypeOK
<1>4. sent' \in [Admin!Patches -> [account : Accounts, column : {"none", "role", "status"},
                            value : ROLES \cup {"none", "active", "inactive"}]]
  BY DEF Admin!TypeOK
<1> QED  BY <1>1, <1>2, <1>3, <1>4 DEF Admin!TypeOK, CallStates

\* The tables only get more.
LEMMA UpdateUserKeeps ==
  ASSUME UsersInv, NEW c \in Admin!Patches, Admin!UpdateUser(c)
  PROVE  UsersInv'
<1> USE DEF UsersInv, Admin!UpdateUser, Admin!query
<1>1. sent[c] \in Changes
  BY DEF SentIsChange
<1>2. tables' \in Seq(Admin!Table) /\ Len(tables') \in Nat /\ Len(tables') >= Len(tables)
      /\ Len(tables) \in Nat /\ Len(tables) > 0
  <2>1. ASSUME NEW u \in Accounts, NEW column \in {"role", "status"}, NEW value,
               IF column = "role" THEN value \in ROLES ELSE value \in {"active", "inactive"}
        PROVE  LET changed == Admin!Change(u, column, value)
               IN  changed \in Seq(Admin!Table) /\ Len(changed) = Len(tables) + 1
    BY <2>1, ChangeTyped
  <2> QED  BY <1>1, <2>1, Tables DEF Changes
<1>3. Admin!TypeOK'
  <2>1. \A n \in 0..Len(tables) : n \in 0..Len(tables')
    BY <1>2
  <2>2. at \in [Admin!Patches -> 0..Len(tables)] /\ call \in [Admin!Patches -> CallStates]
    BY DEF Admin!TypeOK, CallStates
  <2>3. Len(tables') \in 0..Len(tables') /\ at \in [Admin!Patches -> 0..Len(tables')]
    BY ONLY <1>2, <2>1, <2>2
  <2>4. at' \in [Admin!Patches -> 0..Len(tables')] /\ call' \in [Admin!Patches -> CallStates]
    BY <2>2, <2>3 DEF CallStates
  <2> QED  BY <1>2, <2>4, MoreTablesTyped DEF Admin!TypeOK
<1>4. SentIsChange' /\ TableIsFresh' /\ ToldIsListed'
  BY DEF Admin!TypeOK, SentIsChange, TableIsFresh, ToldIsListed
<1> QED  BY <1>3, <1>4

LEMMA OtherAdminKeeps ==
  ASSUME UsersInv, Admin!OtherAdmin
  PROVE  UsersInv'
<1> USE UsersTableAssumption DEF UsersInv, Admin!OtherAdmin, Admin!query, Admin!calls
<1>1. tables' \in Seq(Admin!Table) /\ Len(tables') \in Nat /\ Len(tables') >= Len(tables)
      /\ Len(tables) \in Nat /\ Len(tables) > 0
  BY ChangeTyped, Tables
<1>2. Admin!TypeOK'
  <2>1. \A n \in 0..Len(tables) : n \in 0..Len(tables')
    BY <1>1
  <2>2. at' \in [Admin!Patches -> 0..Len(tables')] /\ call' \in [Admin!Patches -> CallStates]
    BY <2>1 DEF Admin!TypeOK, CallStates
  <2>3. others \in 0..MaxOthers /\ others < MaxOthers /\ others' = others + 1
    BY DEF Admin!TypeOK
  <2>4. others' \in 0..MaxOthers
    BY <2>3
  <2> QED  BY <1>1, <2>2, <2>4, MoreTablesTyped
<1>3. SentIsChange' /\ TableIsFresh' /\ ToldIsListed'
  BY DEF SentIsChange, TableIsFresh, ToldIsListed
<1> QED  BY <1>2, <1>3

\* Who is told has either a new fetch or a marked list that is not being fetched.
LEMMA UsersAcceptedKeeps ==
  ASSUME UsersInv, NEW c \in Admin!Patches, Admin!Accepted(c)
  PROVE  UsersInv'
<1> USE DEF UsersInv, Admin!Accepted, Admin!Invalidate, Admin!StartFetch, Admin!server
<1>1. Admin!TypeOK'
  <2>1. 0 \in 0..Len(tables)
    BY Tables DEF Admin!TypeOK
  <2>2. fetch' \in {"idle", "sent", "read"} /\ {failed, invalid}' \subseteq BOOLEAN
    BY DEF Admin!TypeOK
  <2>3. read' \in 0..Len(tables)
    BY <2>1 DEF Admin!TypeOK
  <2>4. call' \in [Admin!Patches -> {"unused", "flying", "applied", "refused", "told",
                                 "told away", "failed"}]
    BY DEF Admin!TypeOK
  <2> QED  BY <2>2, <2>3, <2>4 DEF Admin!TypeOK
<1>2. SentIsChange' /\ TableIsFresh'
  BY DEF Admin!TypeOK, SentIsChange, TableIsFresh
<1>3. ToldIsListed'
  BY DEF Admin!TypeOK, ToldIsListed
<1> QED  BY <1>1, <1>2, <1>3

LEMMA PatchFailsKeeps ==
  ASSUME UsersInv, NEW c \in Admin!Patches, Admin!PatchFails(c)
  PROVE  UsersInv'
BY DEF UsersInv, Admin!PatchFails, Admin!server, Admin!query, Admin!TypeOK, SentIsChange,
       TableIsFresh, ToldIsListed

LEMMA UsersNext == UsersInv /\ (Admin!Next \/ UNCHANGED Admin!vars) => UsersInv'
<1> SUFFICES ASSUME UsersInv, (Admin!Next \/ UNCHANGED Admin!vars) PROVE UsersInv'
  OBVIOUS
<1>1. ASSUME NEW c \in Admin!Patches,
             \/ \E u \in Accounts :
                  Admin!ToggleActive(c, u) \/ \E role \in ROLES : Admin!ChangeRole(c, u, role)
             \/ Admin!UpdateUser(c) \/ Admin!Accepted(c) \/ Admin!PatchFails(c)
      PROVE  UsersInv'
  BY <1>1, UsersPatchKeeps, UpdateUserKeeps, UsersAcceptedKeeps, PatchFailsKeeps
<1>2. CASE UNCHANGED Admin!vars
  BY <1>2 DEF Admin!vars, UsersInv, Admin!TypeOK, SentIsChange, TableIsFresh, ToldIsListed
<1> QED  BY <1>1, <1>2, UsersListKeeps, OtherAdminKeeps DEF Admin!Next

LEMMA UsersInvSuffices == UsersInv => Admin!ListShowsOwnChanges
BY DEF UsersInv, TableIsFresh, ToldIsListed, Admin!ListShowsOwnChanges

-----------------------------------------------------------------------------
(* The audit log *)

\* The events that a filter lets through, with those given that the narrow one does.
Through(f, events, narrow) == IF f = "narrow" THEN events \cap narrow ELSE events

\* These are more than fit on the pages before a query's.
Reaches(k, events, narrow) ==
  k[2] = 0 \/ Cardinality(Through(k[1], events, narrow)) > k[2] * AUDIT_PAGE_SIZE

\* The select of an answer has seen what its count has seen, and neither more than
\* the log.
AnswersAreOrdered ==
  \A k \in Audit!Keys :
    /\ fetch[k].answer.counted \subseteq log
    /\ fetch[k].at = "selected" =>
         /\ fetch[k].answer.counted \subseteq fetch[k].answer.listed
         /\ fetch[k].answer.listed \subseteq log
    /\ data[k].answer.counted \subseteq data[k].answer.listed
    /\ data[k].answer.listed \subseteq log

\* Nobody gets to a page that no event is on: not by a fetch, and not from the cache.
PagesExist ==
  /\ Reaches(Audit!Open, log, matching)
  /\ \A k \in Audit!Keys :
       /\ fetch[k].at # "idle" => Reaches(k, log, matching)
       /\ fetch[k].at = "selected" => Reaches(k, fetch[k].answer.listed, matching)
       /\ data[k].loaded => Reaches(k, data[k].answer.listed, matching)

AuditInv == Audit!TypeOK /\ AnswersAreOrdered /\ PagesExist

-----------------------------------------------------------------------------
LEMMA EventsAreFinite ==
  ASSUME NEW S \in SUBSET Audit!Events
  PROVE  IsFiniteSet(S) /\ Cardinality(S) \in Nat /\ S \subseteq Nat
BY AuditAssumption, NumbersAreFinite DEF Audit!Events

LEMMA FewerEvents ==
  ASSUME NEW S \in SUBSET Audit!Events, NEW T \in SUBSET S
  PROVE  Cardinality(T) <= Cardinality(S)
BY AuditAssumption, FewerNumbers DEF Audit!Events

LEMMA EarlierAreCounted ==
  ASSUME NEW S \in SUBSET Audit!Events, NEW e \in S
  PROVE  Cardinality(Before(S, e)) \in Nat /\ Cardinality(Before(S, e)) < Cardinality(S)
BY AuditAssumption, BeforeIsCounted DEF Audit!Events

LEMMA EveryPlaceHasAnEvent ==
  ASSUME NEW S \in SUBSET Audit!Events, NEW n \in Nat, Cardinality(S) > n
  PROVE  \E e \in S : Cardinality(Before(S, e)) = n
<1>1. MaxEvents \in Nat /\ S \in SUBSET (1..MaxEvents)
  BY AuditAssumption DEF Audit!Events
<1> QED  BY <1>1, EveryPlaceIsTaken

\* The page counts what the theorems count.
LEMMA PageCounts == \A S : Audit!Cardinality(S) = Cardinality(S)
BY DEF Audit!Cardinality, Cardinality

LEMMA PageBounds ==
  ASSUME NEW p \in Nat
  PROVE  /\ p * AUDIT_PAGE_SIZE \in Nat /\ 0 * AUDIT_PAGE_SIZE = 0
         /\ (p + 1) * AUDIT_PAGE_SIZE \in Nat
         /\ (p + 1) * AUDIT_PAGE_SIZE = p * AUDIT_PAGE_SIZE + AUDIT_PAGE_SIZE
         /\ p * AUDIT_PAGE_SIZE < (p + 1) * AUDIT_PAGE_SIZE
BY AuditAssumption

\* What a query has read are events.
LEMMA ReadEvents ==
  ASSUME Audit!TypeOK, NEW f \in Audit!AuditFilters, NEW p \in Audit!Pages
  PROVE  /\ <<f, p>> \in Audit!Keys
         /\ Audit!Base(f, data[<<f, p>>].answer.listed) \in SUBSET Audit!Events
         /\ Audit!Base(f, data[<<f, p>>].answer.counted) \in SUBSET Audit!Events
<1>1. <<f, p>> \in Audit!Keys
  BY DEF Audit!Keys
<1> QED  BY <1>1 DEF Audit!TypeOK, Audit!AnswerType, Audit!Base

\* An event is an item of the page whose places hold its own.
LEMMA ItemIsPlaced ==
  ASSUME Audit!TypeOK, NEW f \in Audit!AuditFilters, NEW p \in Audit!Pages,
         NEW e \in Audit!Base(f, data[<<f, p>>].answer.listed),
         Cardinality(Before(Audit!Base(f, data[<<f, p>>].answer.listed), e))
           >= p * AUDIT_PAGE_SIZE,
         Cardinality(Before(Audit!Base(f, data[<<f, p>>].answer.listed), e))
           < (p + 1) * AUDIT_PAGE_SIZE
  PROVE  e \in Audit!Items(<<f, p>>)
<1> DEFINE base == Audit!Base(f, data[<<f, p>>].answer.listed)
           place == Cardinality(Before(base, e))
<1>1. p \in Nat /\ place \in Nat
  <2>1. base \in SUBSET Audit!Events /\ e \in base
    BY ReadEvents
  <2> QED  BY <2>1, AuditAssumption, EarlierAreCounted DEF Audit!Pages
<1> HIDE DEF place
<1>2. place \in p * AUDIT_PAGE_SIZE..(p + 1) * AUDIT_PAGE_SIZE - 1
  BY <1>1, PageBounds DEF place
<1> QED  BY <1>2, PageCounts DEF Audit!Items, Before, place

\* A page that was gone to has items, unless the filter lets nothing through.
LEMMA EmptyMeansNoneHolds == AuditInv => Audit!EmptyMeansNone
<1> SUFFICES ASSUME AuditInv, Audit!Shown, Audit!Base(filter, data[Audit!Open].answer.listed) # {}
             PROVE  Audit!Items(Audit!Open) # {}
  BY DEF Audit!EmptyMeansNone
<1> USE DEF AuditInv
<1> DEFINE base == Audit!Base(filter, data[Audit!Open].answer.listed)
<1>1. /\ filter \in Audit!AuditFilters /\ page \in Audit!Pages
      /\ Audit!Open = <<filter, page>> /\ page \in Nat
  BY AuditAssumption DEF Audit!TypeOK, Audit!Open, Audit!Pages
<1>2. base \in SUBSET Audit!Events /\ Audit!Open \in Audit!Keys
  BY <1>1, ReadEvents
<1>3. Cardinality(base) > page * AUDIT_PAGE_SIZE
  <2>1. CASE page = 0
    BY <1>2, <2>1, EventsAreFinite, FS_EmptySet, PageBounds
  <2>2. CASE page # 0
    BY <1>1, <1>2, <2>2 DEF Audit!Shown, PagesExist, Reaches, Through, Audit!Base
  <2> QED  BY <2>1, <2>2
<1>4. PICK e \in base : Cardinality(Before(base, e)) = page * AUDIT_PAGE_SIZE
  <2>1. page * AUDIT_PAGE_SIZE \in Nat
    BY <1>1, PageBounds
  <2> QED  BY <1>2, <1>3, <2>1, EveryPlaceHasAnEvent
<1>5. /\ page * AUDIT_PAGE_SIZE \in Nat
      /\ page * AUDIT_PAGE_SIZE < (page + 1) * AUDIT_PAGE_SIZE
  BY <1>1, PageBounds
<1>6. e \in Audit!Items(<<filter, page>>)
  <2>1. /\ Cardinality(Before(base, e)) >= page * AUDIT_PAGE_SIZE
        /\ Cardinality(Before(base, e)) < (page + 1) * AUDIT_PAGE_SIZE
    BY <1>4, <1>5
  <2> QED  BY <1>1, <2>1, ItemIsPlaced
<1> QED  BY <1>1, <1>6

\* On the way to the last page an event only moves down the list; on the first
\* page whose end it has not yet passed it is shown.
LEMMA WalkMissesNothingHolds == AuditInv => Audit!WalkMissesNothing
<1> SUFFICES ASSUME AuditInv, NEW f \in Audit!AuditFilters, NEW n \in Audit!Pages,
                    Audit!ReadInOrder(f, n), ~Audit!HasNext(<<f, n>>),
                    Audit!Base(f, data[<<f, n>>].answer.counted)
                      = Audit!Base(f, data[<<f, n>>].answer.listed),
                    NEW e \in Audit!Base(f, data[<<f, 0>>].answer.listed)
             PROVE  \E p \in 0..n : e \in Audit!Items(<<f, p>>)
  BY DEF Audit!WalkMissesNothing
<1> USE DEF AuditInv
<1> DEFINE base(p) == Audit!Base(f, data[<<f, p>>].answer.listed)
           place(p) == Cardinality(Before(base(p), e))
<1>1. n \in Nat /\ 0..n \subseteq Audit!Pages /\ 0..n \subseteq Nat
  BY AuditAssumption DEF Audit!Pages
<1>2. \A p \in 0..n : base(p) \in SUBSET Audit!Events
  BY <1>1, ReadEvents
<1>3. \A p \in 1..n : base(p - 1) \subseteq base(p)
  <2> TAKE p \in 1..n
  <2>1. data[<<f, p - 1>>].answer.listed \subseteq data[<<f, p>>].answer.counted
    BY DEF Audit!ReadInOrder
  <2>2. <<f, p>> \in Audit!Keys
    BY <1>1 DEF Audit!Keys
  <2>3. data[<<f, p>>].answer.counted \subseteq data[<<f, p>>].answer.listed
    BY <2>2 DEF AnswersAreOrdered
  <2> QED  BY <2>1, <2>3 DEF Audit!Base
<1> HIDE DEF base
<1>4. \A p \in 0..n : e \in base(p)
  <2> SUFFICES ASSUME {p \in 0..n : e \notin base(p)} # {} PROVE FALSE
    OBVIOUS
  <2>1. PICK p \in {p \in 0..n : e \notin base(p)} :
          \A q \in {q \in 0..n : e \notin base(q)} : p <= q
    BY <1>1, SmallestOf
  <2>2. p # 0
    BY <2>1 DEF base
  <2>3. p \in 1..n /\ p - 1 \in 0..n /\ ~ (p <= p - 1)
    BY <1>1, <2>2
  <2>4. e \in base(p - 1)
    BY <2>1, <2>3
  <2> QED  BY <1>3, <2>1, <2>3, <2>4
<1>5. \A p \in 0..n : place(p) \in Nat /\ place(p) < Cardinality(base(p))
  BY <1>2, <1>4, EarlierAreCounted
<1>6. \A p \in 1..n : place(p - 1) <= place(p)
  <2> TAKE p \in 1..n
  <2>1. Before(base(p - 1), e) \subseteq Before(base(p), e)
    BY <1>3 DEF Before
  <2>2. Before(base(p), e) \in SUBSET Audit!Events
    BY <1>1, <1>2 DEF Before
  <2> QED  BY <2>1, <2>2, FewerEvents
<1> HIDE DEF place
<1>7. place(n) < (n + 1) * AUDIT_PAGE_SIZE
  <2>1. Cardinality(base(n)) <= (n + 1) * AUDIT_PAGE_SIZE
    <3>1. Cardinality(base(n)) = Audit!Total(<<f, n>>)
      BY PageCounts DEF Audit!Total, base
    <3>2. Cardinality(base(n)) \in Nat
      BY <1>1, <1>2, EventsAreFinite
    <3> QED  BY <1>1, <3>1, <3>2, PageBounds DEF Audit!HasNext
  <2>2. Cardinality(base(n)) \in Nat /\ (n + 1) * AUDIT_PAGE_SIZE \in Nat
    BY <1>1, <1>2, EventsAreFinite, PageBounds
  <2> QED  BY <1>1, <1>5, <2>1, <2>2
<1> DEFINE Ahead == {p \in 0..n : place(p) < (p + 1) * AUDIT_PAGE_SIZE}
<1>8. PICK p \in Ahead : \A q \in Ahead : p <= q
  <2>1. n \in Ahead /\ Ahead \subseteq Nat
    BY <1>1, <1>7
  <2> QED  BY <2>1, SmallestOf
<1>9. place(p) >= p * AUDIT_PAGE_SIZE
  <2>1. CASE p = 0
    BY <1>5, <2>1, PageBounds
  <2>2. CASE p # 0
    <3>1. p \in 1..n /\ p - 1 \in 0..n /\ p - 1 \in Nat /\ ~ (p <= p - 1) /\ (p - 1) + 1 = p
      BY <1>1, <2>2
    <3>2. place(p - 1) \in Nat /\ place(p) \in Nat /\ place(p - 1) <= place(p)
      BY <1>5, <1>6, <3>1
    <3>3. ~ (place(p - 1) < p * AUDIT_PAGE_SIZE)
      BY <1>8, <3>1
    <3>4. p * AUDIT_PAGE_SIZE \in Nat
      BY <3>1, PageBounds
    <3> QED  BY <3>2, <3>3, <3>4
  <2> QED  BY <2>1, <2>2
<1>10. e \in Audit!Items(<<f, p>>)
  <2>1. p \in Audit!Pages /\ e \in base(p)
    BY <1>1, <1>4
  <2> QED  BY <1>8, <1>9, <2>1, ItemIsPlaced DEF place, base
<1> QED  BY <1>10
-----------------------------------------------------------------------------
(* The invariant is inductive *)

\* What is reached stays reached as events are added.
LEMMA StillReached ==
  ASSUME NEW k \in Audit!Keys, NEW T \in SUBSET Audit!Events, NEW S \in SUBSET T, NEW narrow,
    NEW wider,
         S \cap narrow \subseteq wider, Reaches(k, S, narrow)
  PROVE  Reaches(k, T, wider)
<1>1. k[2] \in Nat /\ k[2] * AUDIT_PAGE_SIZE \in Nat
  <2>1. k[2] \in Nat
    BY AuditAssumption DEF Audit!Keys, Audit!Pages
  <2> QED  BY <2>1, PageBounds
<1>2. Through(k[1], S, narrow) \subseteq Through(k[1], T, wider)
  BY DEF Through
<1>3. Through(k[1], T, wider) \in SUBSET Audit!Events
  BY DEF Through
<1>4. /\ Cardinality(Through(k[1], S, narrow)) \in Nat
      /\ Cardinality(Through(k[1], T, wider)) \in Nat
      /\ Cardinality(Through(k[1], S, narrow)) <= Cardinality(Through(k[1], T, wider))
  BY <1>2, <1>3, EventsAreFinite, FewerEvents
<1> QED  BY <1>1, <1>4 DEF Reaches

LEMMA AuditInit == Audit!Init => AuditInv
<1> SUFFICES ASSUME Audit!Init PROVE AuditInv
  OBVIOUS
<1> USE AuditAssumption
<1>1. /\ 0 \in Audit!Pages /\ 0 \in 0..MaxTurns /\ EarlierEvents \in Nat
      /\ 1..EarlierEvents \subseteq Audit!Events
  BY DEF Audit!Pages, Audit!Events
<1>2. \A k \in Audit!Keys :
        fetch[k] \in {Audit!Sent, Audit!Idle} /\ (fetch[k] = Audit!Sent => k[2] = 0)
  <2>1. Audit!Sent # Audit!Idle
    BY DEF Audit!Sent, Audit!Idle
  <2> QED  BY <2>1 DEF Audit!Init, Audit!Open
<1>3. /\ Audit!NoAnswer \in Audit!AnswerType
      /\ Audit!NoAnswer.counted = {} /\ Audit!NoAnswer.listed = {}
  BY DEF Audit!NoAnswer, Audit!Answer, Audit!AnswerType
<1>4. /\ data \in [Audit!Keys -> [loaded : BOOLEAN, answer : Audit!AnswerType]]
      /\ failed \in [Audit!Keys -> BOOLEAN]
      /\ fetch \in [Audit!Keys -> [at : {"idle", "sent", "counted", "selected"},
         answer : Audit!AnswerType]]
  BY <1>3 DEF Audit!Init, Audit!NoData, Audit!Sent, Audit!Idle
<1>5. Audit!TypeOK
  BY <1>1, <1>4 DEF Audit!TypeOK, Audit!Init, Audit!AuditFilters
<1>6. AnswersAreOrdered
  BY <1>2, <1>3 DEF AnswersAreOrdered, Audit!Init, Audit!NoData, Audit!Sent, Audit!Idle
<1>7. PagesExist
  BY <1>2 DEF PagesExist, Reaches, Audit!Init, Audit!NoData, Audit!Sent, Audit!Idle, Audit!Open
<1> QED  BY <1>5, <1>6, <1>7 DEF AuditInv

LEMMA InsertKeeps == AuditInv /\ Audit!InsertEvent => AuditInv'
<1> SUFFICES ASSUME AuditInv, Audit!InsertEvent PROVE AuditInv'
  OBVIOUS
<1> USE AuditAssumption
<1>1. /\ drawn \in Nat /\ drawn' = drawn + 1 /\ drawn' \in 0..MaxEvents
      /\ 1..drawn \subseteq 1..drawn'
      /\ drawn' \in 1..drawn' /\ drawn' \notin 1..drawn
  BY DEF AuditInv, Audit!TypeOK, Audit!InsertEvent
<1>2. UNCHANGED <<log, filter, page, turns, data, failed, fetch>>
  BY DEF Audit!InsertEvent, Audit!view, Audit!queries
<1>3. Audit!TypeOK'
  <2>1. drawn' \notin log
    BY <1>1 DEF AuditInv, Audit!TypeOK
  <2>2. /\ writing' \subseteq 1..drawn' /\ log' \subseteq 1..drawn' \ writing'
        /\ matching' \subseteq 1..drawn'
    BY <1>1, <1>2, <2>1 DEF AuditInv, Audit!TypeOK, Audit!InsertEvent
  <2> QED  BY ONLY <1>1, <1>2, <2>2, AuditInv DEF AuditInv, Audit!TypeOK
<1>4. AnswersAreOrdered'
  BY ONLY <1>2, AuditInv DEF AuditInv, AnswersAreOrdered
<1>5. log \subseteq Audit!Events /\ matching \subseteq matching'
  <2>1. 1..drawn \subseteq Audit!Events
    BY <1>1 DEF Audit!Events
  <2> QED  BY <2>1 DEF AuditInv, Audit!TypeOK, Audit!InsertEvent
<1>6. ASSUME NEW k \in Audit!Keys, NEW S \in SUBSET log, Reaches(k, S, matching)
      PROVE  Reaches(k, S, matching')
  BY <1>5, <1>6, StillReached
<1>7. PagesExist'
  <2>1. Audit!Open \in Audit!Keys /\ Audit!Open' = Audit!Open
    BY <1>2 DEF AuditInv, Audit!TypeOK, Audit!Keys, Audit!Open
  <2>2. Reaches(Audit!Open, log, matching)'
    BY <1>2, <1>6, <2>1 DEF AuditInv, PagesExist
  <2>3. ASSUME NEW k \in Audit!Keys
        PROVE  /\ fetch'[k].at # "idle" => Reaches(k, log', matching')
               /\ fetch'[k].at = "selected" => Reaches(k, fetch'[k].answer.listed, matching')
               /\ data'[k].loaded => Reaches(k, data'[k].answer.listed, matching')
    BY <1>2, <1>6 DEF AuditInv, PagesExist, AnswersAreOrdered
  <2> QED  BY <2>2, <2>3 DEF PagesExist
<1> QED  BY <1>3, <1>4, <1>7 DEF AuditInv

\* A step that adds no events to those that are matched, and takes none from the log,
\* leaves what is reached as it was.
LEMMA LogGrows ==
  AuditInv /\ (\E e \in Audit!Events : Audit!CommitEvent(e) \/ Audit!RollBackEvent(e)) =>
    AuditInv'
<1> SUFFICES ASSUME AuditInv, NEW e \in Audit!Events,
  Audit!CommitEvent(e) \/ Audit!RollBackEvent(e) PROVE AuditInv'
  OBVIOUS
<1> USE AuditAssumption
<1>1. UNCHANGED <<drawn, matching, filter, page, turns, data, failed, fetch>>
  BY DEF Audit!CommitEvent, Audit!RollBackEvent, Audit!view, Audit!queries
<1>2. /\ writing' \subseteq 1..drawn /\ log' \subseteq 1..drawn \ writing' /\ log \subseteq log'
      /\ log' \subseteq Audit!Events
  <2>1. drawn \in 0..MaxEvents /\ 1..drawn \subseteq Audit!Events
    BY DEF AuditInv, Audit!TypeOK, Audit!Events
  <2> QED  BY <2>1 DEF AuditInv, Audit!TypeOK, Audit!CommitEvent, Audit!RollBackEvent
<1>3. Audit!TypeOK'
  BY ONLY <1>1, <1>2, AuditInv DEF AuditInv, Audit!TypeOK
<1>4. AnswersAreOrdered'
  BY ONLY <1>1, <1>2, AuditInv DEF AuditInv, AnswersAreOrdered
<1>5. ASSUME NEW k \in Audit!Keys, Reaches(k, log, matching) PROVE Reaches(k, log', matching')
  BY <1>1, <1>2, <1>5, StillReached
<1>6. PagesExist'
  <2>1. Audit!Open \in Audit!Keys /\ Audit!Open' = Audit!Open
    BY <1>1 DEF AuditInv, Audit!TypeOK, Audit!Keys, Audit!Open
  <2>2. Reaches(Audit!Open, log, matching)'
    BY <1>5, <2>1 DEF AuditInv, PagesExist
  <2>3. ASSUME NEW k \in Audit!Keys
        PROVE  /\ fetch'[k].at # "idle" => Reaches(k, log', matching')
               /\ fetch'[k].at = "selected" => Reaches(k, fetch'[k].answer.listed, matching')
               /\ data'[k].loaded => Reaches(k, data'[k].answer.listed, matching')
    BY <1>1, <1>5 DEF AuditInv, PagesExist
  <2> QED  BY <2>2, <2>3 DEF PagesExist
<1> QED  BY <1>3, <1>4, <1>6 DEF AuditInv

LEMMA AuditFetchingKeeps == AuditInv /\ (\E k \in Audit!Keys : Audit!Fetching(k)) => AuditInv'
<1> SUFFICES ASSUME AuditInv, NEW k \in Audit!Keys, Audit!Fetching(k) PROVE AuditInv'
  OBVIOUS
<1> USE AuditAssumption
<1>1. UNCHANGED <<drawn, writing, log, matching, filter, page, turns>>
  BY DEF Audit!Fetching, Audit!CountEvents, Audit!SelectEvents, Audit!ShowEvents,
         Audit!FetchFails, Audit!table, Audit!view
<1>2. log \subseteq Audit!Events
  <2>1. 1..drawn \subseteq Audit!Events
    BY DEF AuditInv, Audit!TypeOK, Audit!Events
  <2> QED  BY <2>1 DEF AuditInv, Audit!TypeOK
<1>3. \A l \in Audit!Keys : l # k => fetch'[l] = fetch[l] /\ data'[l] = data[l]
  BY DEF AuditInv, Audit!TypeOK, Audit!Fetching, Audit!CountEvents, Audit!SelectEvents,
         Audit!ShowEvents, Audit!FetchFails
<1>4. /\ fetch'[k].at \in {"idle", "counted", "selected"} /\ fetch[k].at # "idle"
      /\ fetch'[k].answer \in Audit!AnswerType
      /\ fetch'[k].answer.counted \subseteq log
      /\ fetch'[k].at = "selected" =>
           fetch'[k].answer.counted \subseteq log /\ fetch'[k].answer.listed = log
      /\ \/ data'[k] = data[k]
         \/ fetch[k].at = "selected" /\ data'[k] = [loaded |-> TRUE, answer |-> fetch[k].answer]
  <2>1. fetch[k] \in [at : {"idle", "sent", "counted", "selected"}, answer : Audit!AnswerType]
    BY DEF AuditInv, Audit!TypeOK
  <2>2. CASE Audit!CountEvents(k)
    BY <1>2, <2>1, <2>2
       DEF AuditInv, Audit!TypeOK, Audit!CountEvents, Audit!Answer, Audit!AnswerType
  <2>3. CASE Audit!SelectEvents(k)
    BY <1>2, <2>1, <2>3
       DEF AuditInv, Audit!TypeOK, AnswersAreOrdered, Audit!SelectEvents, Audit!Answer,
           Audit!AnswerType
  <2>4. CASE Audit!ShowEvents(k)
    BY <2>1, <2>4
       DEF AuditInv, Audit!TypeOK, Audit!ShowEvents, Audit!Idle, Audit!NoAnswer, Audit!Answer,
           Audit!AnswerType
  <2>5. CASE Audit!FetchFails(k)
    BY <2>1, <2>5
       DEF AuditInv, Audit!TypeOK, Audit!FetchFails, Audit!Idle, Audit!NoAnswer, Audit!Answer,
           Audit!AnswerType
  <2> QED  BY <2>2, <2>3, <2>4, <2>5 DEF Audit!Fetching
<1>5. Audit!TypeOK'
  <2>1. fetch' \in [Audit!Keys -> [at : {"idle", "sent", "counted", "selected"},
    answer : Audit!AnswerType]]
    <3>1. fetch[k] \in [at : {"idle", "sent", "counted", "selected"}, answer : Audit!AnswerType]
      BY DEF AuditInv, Audit!TypeOK
    <3>2. Audit!Idle \in [at : {"idle", "sent", "counted", "selected"}, answer : Audit!AnswerType]
      BY DEF Audit!Idle, Audit!NoAnswer, Audit!Answer, Audit!AnswerType
    <3>3. \E a \in [at : {"idle", "sent", "counted", "selected"}, answer : Audit!AnswerType] :
            fetch' = [fetch EXCEPT ![k] = a]
      <4>1. CASE Audit!CountEvents(k)
        <5>1. [at |-> "counted", answer |-> Audit!Answer(log, {})]
                \in [at : {"idle", "sent", "counted", "selected"}, answer : Audit!AnswerType]
          BY <1>2 DEF Audit!Answer, Audit!AnswerType
        <5> QED  BY <4>1, <5>1 DEF Audit!CountEvents
      <4>2. CASE Audit!SelectEvents(k)
        <5>1. [at |-> "selected", answer |-> Audit!Answer(fetch[k].answer.counted, log)]
                \in [at : {"idle", "sent", "counted", "selected"}, answer : Audit!AnswerType]
          BY <1>2, <3>1 DEF Audit!Answer, Audit!AnswerType
        <5> QED  BY <4>2, <5>1 DEF Audit!SelectEvents
      <4>3. CASE Audit!ShowEvents(k) \/ Audit!FetchFails(k)
        BY <3>2, <4>3 DEF Audit!ShowEvents, Audit!FetchFails
      <4> QED  BY <4>1, <4>2, <4>3 DEF Audit!Fetching
    <3> QED  BY <3>3 DEF AuditInv, Audit!TypeOK
  <2>2. data' \in [Audit!Keys -> [loaded : BOOLEAN,
    answer : Audit!AnswerType]] /\ failed' \in [Audit!Keys -> BOOLEAN]
    <3>1. CASE Audit!CountEvents(k) \/ Audit!SelectEvents(k)
      BY <3>1 DEF AuditInv, Audit!TypeOK, Audit!CountEvents, Audit!SelectEvents
    <3>2. CASE Audit!ShowEvents(k)
      <4>1. [loaded |-> TRUE, answer |-> fetch[k].answer] \in [loaded : BOOLEAN,
        answer : Audit!AnswerType]
        BY DEF AuditInv, Audit!TypeOK
      <4> QED  BY <3>2, <4>1 DEF AuditInv, Audit!TypeOK, Audit!ShowEvents
    <3>3. CASE Audit!FetchFails(k)
      BY <3>3 DEF AuditInv, Audit!TypeOK, Audit!FetchFails
    <3> QED  BY <3>1, <3>2, <3>3 DEF Audit!Fetching
  <2> QED  BY ONLY <1>1, <2>1, <2>2, AuditInv DEF AuditInv, Audit!TypeOK
<1>6. AnswersAreOrdered'
  <2>1. ASSUME NEW l \in Audit!Keys
        PROVE  /\ fetch'[l].answer.counted \subseteq log
               /\ fetch'[l].at = "selected" =>
                    /\ fetch'[l].answer.counted \subseteq fetch'[l].answer.listed
                    /\ fetch'[l].answer.listed \subseteq log
               /\ data'[l].answer.counted \subseteq data'[l].answer.listed
               /\ data'[l].answer.listed \subseteq log
    <3>1. CASE l = k
      BY ONLY <1>4, <3>1, AuditInv, k \in Audit!Keys DEF AuditInv, AnswersAreOrdered
    <3>2. CASE l # k
      BY ONLY <1>3, <3>2, AuditInv, l \in Audit!Keys DEF AuditInv, AnswersAreOrdered
    <3> QED  BY <3>1, <3>2
  <2> QED  BY <1>1, <2>1 DEF AnswersAreOrdered
<1>7. PagesExist'
  <2>1. ASSUME NEW l \in Audit!Keys
        PROVE  /\ fetch'[l].at # "idle" => Reaches(l, log, matching)
               /\ fetch'[l].at = "selected" => Reaches(l, fetch'[l].answer.listed, matching)
               /\ data'[l].loaded => Reaches(l, data'[l].answer.listed, matching)
    <3>1. CASE l = k
      BY ONLY <1>4, <3>1, AuditInv, k \in Audit!Keys DEF AuditInv, PagesExist
    <3>2. CASE l # k
      BY ONLY <1>3, <3>2, AuditInv, l \in Audit!Keys DEF AuditInv, PagesExist
    <3> QED  BY <3>1, <3>2
  <2>2. Audit!Open' = Audit!Open
    BY <1>1 DEF Audit!Open
  <2> QED  BY ONLY <1>1, <2>1, <2>2, AuditInv DEF AuditInv, PagesExist
<1> QED  BY <1>5, <1>6, <1>7 DEF AuditInv

\* Going to a page that is reached, or fetching it, keeps the invariant.
LEMMA GoingKeeps ==
  ASSUME AuditInv, NEW f \in Audit!AuditFilters, NEW p \in Audit!Pages,
         Reaches(<<f, p>>, log, matching),
         turns < MaxTurns, turns' = turns + 1, filter' = f, page' = p,
         Audit!StartFetch(<<f, p>>) \/ UNCHANGED <<fetch, failed>>,
         UNCHANGED <<Audit!table, data>>
  PROVE  AuditInv'
<1> DEFINE k == <<f, p>>
<1> USE AuditAssumption
<1>1. k \in Audit!Keys /\ Audit!Open' = k
  BY DEF Audit!Keys, Audit!Open
<1> HIDE DEF k
<1>2. UNCHANGED <<drawn, writing, log, matching, data>>
  BY DEF Audit!table
<1>3. /\ \A l \in Audit!Keys : fetch'[l] = fetch[l] \/ (l = k /\ fetch'[l] = Audit!Sent)
      /\ fetch' \in [Audit!Keys -> [at : {"idle", "sent", "counted", "selected"},
         answer : Audit!AnswerType]]
      /\ failed' \in [Audit!Keys -> BOOLEAN]
  <2>1. Audit!Sent \in [at : {"idle", "sent", "counted", "selected"}, answer : Audit!AnswerType]
    BY DEF Audit!Sent, Audit!NoAnswer, Audit!Answer, Audit!AnswerType
  <2>2. CASE Audit!StartFetch(k)
    BY <1>1, <2>1, <2>2 DEF Audit!StartFetch, AuditInv, Audit!TypeOK
  <2>3. CASE UNCHANGED <<fetch, failed>>
    BY <2>3 DEF AuditInv, Audit!TypeOK
  <2> QED  BY <2>2, <2>3 DEF k
<1>4. Audit!TypeOK'
  <2>1. turns' \in 0..MaxTurns
    BY DEF AuditInv, Audit!TypeOK
  <2> QED  BY <1>2, <1>3, <2>1 DEF AuditInv, Audit!TypeOK
<1>5. Audit!Sent.at = "sent" /\ Audit!Sent.answer.counted = {}
  BY DEF Audit!Sent, Audit!NoAnswer, Audit!Answer
<1>6. AnswersAreOrdered'
  BY ONLY <1>2, <1>3, <1>5, AuditInv DEF AuditInv, AnswersAreOrdered
<1>7. PagesExist'
  <2>1. Reaches(k, log, matching)
    BY DEF k
  <2> QED  BY ONLY <1>1, <1>2, <1>3, <1>5, <2>1, AuditInv DEF AuditInv, PagesExist
<1> QED  BY <1>4, <1>6, <1>7 DEF AuditInv

LEMMA TurningKeeps ==
  ASSUME AuditInv, NEW stale \in BOOLEAN,
         \/ Audit!PreviousPage(stale) \/ Audit!NextPage(stale)
         \/ Audit!ApplyFilters(stale) \/ Audit!Reopen(stale)
  PROVE  AuditInv'
<1> USE AuditAssumption
<1>1. /\ filter \in Audit!AuditFilters /\ page \in Audit!Pages /\ page \in Nat
      /\ Audit!Open = <<filter, page>> /\ Audit!Open \in Audit!Keys
  BY DEF AuditInv, Audit!TypeOK, Audit!Pages, Audit!Open, Audit!Keys
<1>2. ASSUME NEW f \in Audit!AuditFilters, NEW p \in Audit!Pages,
             Reaches(<<f, p>>, log, matching), Audit!Turn(f, p, stale)
      PROVE  AuditInv'
  <2>1. Audit!StartFetch(<<f, p>>) \/ UNCHANGED <<fetch, failed>>
    BY <1>2 DEF Audit!Turn
  <2> QED  BY <1>2, <2>1, GoingKeeps DEF Audit!Turn
<1>3. \A f \in Audit!AuditFilters : Reaches(<<f, 0>>, log, matching) /\ 0 \in Audit!Pages
  BY DEF Reaches, Audit!Pages
<1>4. CASE Audit!PreviousPage(stale)
  <2>1. page - 1 \in Audit!Pages /\ page # 0 /\ page - 1 \in Nat
    BY <1>1, <1>4 DEF Audit!PreviousPage, Audit!Pages
  <2>2. Reaches(<<filter, page - 1>>, log, matching)
    <3>1. Cardinality(Through(filter, log, matching)) > page * AUDIT_PAGE_SIZE
      BY <1>1, <2>1 DEF AuditInv, PagesExist, Reaches
    <3>2. (page - 1) * AUDIT_PAGE_SIZE \in Nat /\ page * AUDIT_PAGE_SIZE \in Nat
          /\ (page - 1) * AUDIT_PAGE_SIZE < page * AUDIT_PAGE_SIZE
      <4>1. (page - 1) + 1 = page
        BY <1>1, <2>1
      <4> QED  BY <1>1, <2>1, <4>1, PageBounds
    <3>3. Cardinality(Through(filter, log, matching)) \in Nat
      <4>1. Through(filter, log, matching) \subseteq Audit!Events
        <5>1. 1..drawn \subseteq Audit!Events
          BY DEF AuditInv, Audit!TypeOK, Audit!Events
        <5> QED  BY <5>1 DEF AuditInv, Audit!TypeOK, Through
      <4> QED  BY <4>1, EventsAreFinite
    <3> QED  BY <3>1, <3>2, <3>3 DEF Reaches
  <2> QED  BY <1>1, <1>2, <1>4, <2>1, <2>2 DEF Audit!PreviousPage
<1>5. CASE Audit!NextPage(stale)
  <2>1. page + 1 \in Audit!Pages
    BY <1>1, <1>5 DEF Audit!NextPage, Audit!Pages
  <2>2. Reaches(<<filter, page + 1>>, log, matching)
    <3>1. data[Audit!Open].answer.counted \subseteq log
      BY <1>1 DEF AuditInv, AnswersAreOrdered
    <3>2. Cardinality(Through(filter, data[Audit!Open].answer.counted, matching))
            > (page + 1) * AUDIT_PAGE_SIZE
      <4>1. (page + 1) * AUDIT_PAGE_SIZE
              < Cardinality(Audit!Base(filter, data[Audit!Open].answer.counted))
        BY <1>1, <1>5, PageCounts DEF Audit!NextPage, Audit!HasNext, Audit!Total
      <4> QED  BY <4>1 DEF Audit!Base, Through
    <3>3. log \in SUBSET Audit!Events
      <4>1. 1..drawn \subseteq Audit!Events
        BY DEF AuditInv, Audit!TypeOK, Audit!Events
      <4> QED  BY <4>1 DEF AuditInv, Audit!TypeOK
    <3>4. <<filter, page + 1>> \in Audit!Keys
      BY <1>1, <2>1 DEF Audit!Keys
    <3>5. Reaches(<<filter, page + 1>>, data[Audit!Open].answer.counted, matching)
      BY <3>2 DEF Reaches
    <3> QED  BY <3>1, <3>3, <3>4, <3>5, StillReached
  <2> QED  BY <1>1, <1>2, <1>5, <2>1, <2>2 DEF Audit!NextPage
<1>6. CASE Audit!ApplyFilters(stale)
  BY <1>2, <1>3, <1>6 DEF Audit!ApplyFilters
<1>7. CASE Audit!Reopen(stale)
  BY <1>2, <1>3, <1>7 DEF Audit!Reopen, Audit!AuditFilters
<1> QED  BY <1>4, <1>5, <1>6, <1>7

LEMMA AuditRefetchKeeps == AuditInv /\ Audit!Refetch => AuditInv'
<1> SUFFICES ASSUME AuditInv, Audit!Refetch PROVE AuditInv'
  OBVIOUS
<1>1. filter \in Audit!AuditFilters /\ page \in Audit!Pages /\ Audit!Open = <<filter, page>>
  BY DEF AuditInv, Audit!TypeOK, Audit!Open
<1>2. Reaches(<<filter, page>>, log, matching)
  BY <1>1 DEF AuditInv, PagesExist
<1>3. Audit!StartFetch(<<filter, page>>)
  BY <1>1 DEF Audit!Refetch
<1> QED  BY <1>1, <1>2, <1>3, GoingKeeps DEF Audit!Refetch

LEMMA AuditNext == AuditInv /\ (Audit!Next \/ UNCHANGED Audit!vars) => AuditInv'
<1> SUFFICES ASSUME AuditInv, (Audit!Next \/ UNCHANGED Audit!vars) PROVE AuditInv'
  OBVIOUS
<1>1. CASE UNCHANGED Audit!vars
  BY <1>1 DEF Audit!vars, AuditInv, Audit!TypeOK, AnswersAreOrdered, PagesExist, Audit!Open
<1> QED  BY <1>1, InsertKeeps, LogGrows, AuditFetchingKeeps, TurningKeeps, AuditRefetchKeeps
            DEF Audit!Next

-----------------------------------------------------------------------------
(* The page of a conversation *)

\* What the composer has lost is a question that was asked and answered.
OnlyAnsweredIsCleared ==
  draft # typed => /\ draft = Empty /\ latest # 0
                   /\ call[latest] = "settled" /\ Chat!Succeeded(latest)

\* An answer is given to a question that is saved.
SavedFirst ==
  \A a \in Chat!Asks : server[a] \in {"saved", "answered", "ungrounded"} => a \in questions

ChatInv == Chat!TypeOK /\ OnlyAnsweredIsCleared /\ SavedFirst

LEMMA ChatInit == Chat!Init => ChatInv
<1> SUFFICES ASSUME Chat!Init PROVE ChatInv
  OBVIOUS
<1>1. Chat!TypeOK
  <2>1. {busy, mounted, loaded, failed, invalid} \subseteq BOOLEAN
    BY DEF Chat!Init
  <2>2. /\ {draft, typed} \subseteq Drafts \cup {Empty}
        /\ visits \in 0..MaxVisits /\ latest \in 0..MaxAsks
    BY ChatAssumption DEF Chat!Init
  <2>3. /\ questions \subseteq Chat!Asks /\ answers \subseteq questions
        /\ shownAnswers \subseteq shown /\ shown \subseteq questions
        /\ fetch \in {"idle", "sent", "listed"} /\ listed \subseteq questions
    BY DEF Chat!Init
  <2>4. /\ server \in [Chat!Asks -> {"unused", "received", "saved", "answered", "ungrounded",
           "failed"}]
        /\ call \in [Chat!Asks -> {"unused", "flying", "settled", "dropped"}]
        /\ sent \in [Chat!Asks -> Drafts \cup {Empty}]
    BY DEF Chat!Init
  <2> QED  BY <2>1, <2>2, <2>3, <2>4 DEF Chat!TypeOK
<1>2. OnlyAnsweredIsCleared /\ SavedFirst
  BY DEF Chat!Init, OnlyAnsweredIsCleared, SavedFirst
<1> QED  BY <1>1, <1>2 DEF ChatInv

LEMMA ChatTypes ==
  ASSUME ChatInv, Chat!Next \/ UNCHANGED Chat!vars
  PROVE  Chat!TypeOK'
<1> SUFFICES ASSUME Chat!TypeOK, SavedFirst PROVE Chat!TypeOK'
  BY DEF ChatInv
<1> USE ChatAssumption DEF Chat!service, Chat!asking, Chat!composer, Chat!visit, Chat!query
<1>1. CASE \E a \in Chat!Asks : Chat!Serve(a)
  BY <1>1
     DEF Chat!TypeOK, SavedFirst, Chat!Serve, Chat!Save, Chat!GiveAnswer, Chat!NothingGrounds,
         Chat!AskFails
<1>2. CASE \E a \in Chat!Asks : Chat!Submit(a)
  BY <1>2 DEF Chat!TypeOK, Chat!Submit, Chat!Asks
<1>3. CASE \E a \in Chat!Asks : Chat!Settle(a) \/ Chat!Drop(a)
  BY <1>3 DEF Chat!TypeOK, Chat!Settle, Chat!Drop, Chat!Cleared, Chat!Invalidate, Chat!StartFetch
<1>4. CASE \E t \in Drafts \cup {Empty} : Chat!Type(t)
  BY <1>4 DEF Chat!TypeOK, Chat!Type
<1>5. CASE Chat!Render
  BY <1>5 DEF Chat!TypeOK, Chat!Render, Chat!InFlight
<1>6. CASE Chat!Fetching
  BY <1>6 DEF Chat!TypeOK, Chat!Fetching, Chat!ListQuestions, Chat!ShowHistory, Chat!FetchFails
<1>7. CASE Chat!Reconnect
  BY <1>7 DEF Chat!TypeOK, Chat!Reconnect, Chat!StartFetch
<1>10. CASE Chat!Leave
  <2>1. {busy', mounted', loaded', failed', invalid'} \subseteq BOOLEAN
    BY <1>10 DEF Chat!TypeOK, Chat!Leave
  <2>2. /\ {draft', typed'} \subseteq Drafts \cup {Empty}
        /\ visits' \in 0..MaxVisits /\ latest' \in 0..MaxAsks
    BY <1>10 DEF Chat!TypeOK, Chat!Leave
  <2> QED  BY <1>10, <2>1, <2>2 DEF Chat!TypeOK, Chat!Leave
<1>8. CASE \E stale \in BOOLEAN : Chat!Return(stale)
  BY <1>8 DEF Chat!TypeOK, Chat!Return, Chat!StartFetch
<1>9. CASE UNCHANGED Chat!vars
  BY <1>9 DEF Chat!TypeOK, Chat!vars
<1> QED  BY <1>1, <1>2, <1>3, <1>4, <1>5, <1>6, <1>7, <1>8, <1>9, <1>10 DEF Chat!Next

LEMMA ChatNext ==
  ASSUME ChatInv, Chat!Next \/ UNCHANGED Chat!vars
  PROVE  ChatInv'
<1>0. Chat!TypeOK /\ OnlyAnsweredIsCleared /\ SavedFirst
  BY DEF ChatInv
<1>1. Chat!TypeOK'
  BY ChatTypes
<1> USE ChatAssumption DEF Chat!service, Chat!asking, Chat!composer, Chat!visit, Chat!query
<1>2. SavedFirst'
  <2> USE <1>0 DEF SavedFirst, Chat!TypeOK
  <2>1. CASE \E a \in Chat!Asks : Chat!Serve(a)
    BY <2>1 DEF Chat!Serve, Chat!Save, Chat!GiveAnswer, Chat!NothingGrounds, Chat!AskFails
  <2>2. CASE \E a \in Chat!Asks : Chat!Submit(a)
    BY <2>2 DEF Chat!Submit
  <2>3. CASE UNCHANGED Chat!service
    BY <2>3
  <2>4. Chat!Next \/ UNCHANGED Chat!vars =>
          (\E a \in Chat!Asks : Chat!Serve(a) \/ Chat!Submit(a)) \/ UNCHANGED Chat!service
    BY DEF Chat!Next, Chat!vars, Chat!Settle, Chat!Drop, Chat!Type, Chat!Render, Chat!Fetching,
           Chat!ListQuestions, Chat!ShowHistory, Chat!FetchFails, Chat!Reconnect, Chat!Leave,
           Chat!Return
  <2> QED  BY <2>1, <2>2, <2>3, <2>4
<1>3. OnlyAnsweredIsCleared'
  <2> USE <1>0 DEF OnlyAnsweredIsCleared, Chat!Succeeded, Chat!TypeOK, Chat!Asks
  <2>1. CASE \E a \in Chat!Asks : Chat!Serve(a)
    BY <2>1 DEF Chat!Serve, Chat!Save, Chat!GiveAnswer, Chat!NothingGrounds, Chat!AskFails
  <2>2. CASE \E a \in Chat!Asks : Chat!Submit(a)
    BY <2>2 DEF Chat!Submit
  <2>3. CASE \E a \in Chat!Asks : Chat!Settle(a) \/ Chat!Drop(a)
    BY <2>3 DEF Chat!Settle, Chat!Drop, Chat!Cleared
  <2>4. CASE \E t \in Drafts \cup {Empty} : Chat!Type(t)
    BY <2>4 DEF Chat!Type
  <2>5. CASE Chat!Leave
    BY <2>5 DEF Chat!Leave
  <2>6. CASE UNCHANGED <<server, call, latest, Chat!composer>>
    BY <2>6
  <2>7. Chat!Render \/ Chat!Fetching \/ Chat!Reconnect
          \/ (\E stale \in BOOLEAN : Chat!Return(stale)) \/ UNCHANGED Chat!vars => UNCHANGED <<server, call, latest, Chat!composer>>
    BY DEF Chat!vars, Chat!Render, Chat!Fetching, Chat!ListQuestions, Chat!ShowHistory,
           Chat!FetchFails, Chat!Reconnect, Chat!Return
  <2> QED  BY <2>1, <2>2, <2>3, <2>4, <2>5, <2>6, <2>7 DEF Chat!Next
<1> QED  BY <1>1, <1>2, <1>3 DEF ChatInv

LEMMA FailedIsNotCleared == ChatInv => Chat!FailedAskKeepsDraft
BY DEF ChatInv, OnlyAnsweredIsCleared, Chat!FailedAskKeepsDraft, Chat!AskFailed, Chat!Succeeded

-----------------------------------------------------------------------------
(* The page of one's documents *)

LEMMA DocumentsCount == \A S : Files!Cardinality(S) = Cardinality(S)
BY DEF Files!Cardinality, Cardinality

\* A document has a row once its upload was accepted.
UploadedFirst == \A d \in Files!Docs : upload[d] \in {"unused", "sent"} => row[d] = "none"

\* A call that was used has a target; what it has deleted stays deleted.
TargetsAreKnown ==
  \A q \in Files!Deletes :
    /\ deletion[q] # "unused" => target[q] \in Files!Docs
    /\ deletion[q] \in {"gone", "over"} => row[target[q]] = "deleted"

\* A page that is open has been fetched or is being fetched.
OpenIsFetched == loaded[page] \/ failed[page] \/ fetch[page] # "idle"

\* Only what the list shows can be deleted, and it shows nothing until it has loaded.
DeletedFromList ==
  Files!NeverTurned => \A q \in Files!Deletes : deletion[q] # "unused" => loaded[0]

\* This list has everything that the user has been told.
HasTold(list) ==
  /\ \A d \in Files!Active : upload[d] = "over" =>
       d \in DOMAIN list \/ Cardinality(Before(DOMAIN list, d)) = PAGE_SIZE
  /\ \A q \in Files!Deletes : deletion[q] = "over" => target[q] \notin DOMAIN list

\* So has what is shown at rest, and what a fetch has read that nothing cancelled.
ToldIsRead ==
  Files!NeverTurned =>
    /\ fetch[0] = "listed" => HasTold(listed[0])
    /\ loaded[0] /\ fetch[0] = "idle" /\ ~failed[0] => HasTold(items[0])

DocumentsInv ==
  /\ Files!TypeOK /\ UploadedFirst /\ TargetsAreKnown
  /\ OpenIsFetched /\ DeletedFromList /\ ToldIsRead

-----------------------------------------------------------------------------
LEMMA ActiveIsFinite ==
  /\ Files!Active \in SUBSET (1..MaxDocs) /\ IsFiniteSet(Files!Active)
  /\ Cardinality(Files!Active) \in 0..MaxDocs
<1>1. Files!Active \in SUBSET (1..MaxDocs) /\ MaxDocs \in Nat
  BY DocumentsPageAssumption DEF Files!Active, Files!Docs
<1>2. IsFiniteSet(Files!Active) /\ Cardinality(Files!Active) \in Nat
  BY <1>1, NumbersAreFinite
<1>3. Cardinality(Files!Active) <= Cardinality(1..MaxDocs)
  BY <1>1, FewerNumbers
<1>4. Cardinality(1..MaxDocs) = MaxDocs
  BY <1>1, FS_Interval
<1> QED  BY <1>1, <1>2, <1>3, <1>4

\* Of two documents in the list, the newer has fewer before it.
LEMMA NewerIsHigher ==
  ASSUME NEW d \in Files!Active, NEW e \in Before(Files!Active, d)
  PROVE  /\ Cardinality(Before(Files!Active, e)) \in Nat
         /\ Cardinality(Before(Files!Active, d)) \in Nat
         /\ Cardinality(Before(Files!Active, e)) < Cardinality(Before(Files!Active, d))
<1>1. Files!Active \in SUBSET (1..MaxDocs) /\ MaxDocs \in Nat
  BY ActiveIsFinite, DocumentsPageAssumption
<1>2. Before(Files!Active, d) \in SUBSET (1..MaxDocs)
  BY <1>1 DEF Before
<1>3. Before(Before(Files!Active, d), e) = Before(Files!Active, e)
  <2>1. \A x \in Files!Active : x > e => x > d
    BY <1>1 DEF Before
  <2> QED  BY <2>1 DEF Before
<1>4. Cardinality(Before(Files!Active, e)) < Cardinality(Before(Files!Active, d))
  BY <1>1, <1>2, <1>3, BeforeIsCounted
<1>5. e \in Files!Active
  BY DEF Before
<1> QED  BY <1>1, <1>4, <1>5, BeforeIsCounted

\* The places of a page are as many as its size.
LEMMA PageFits ==
  ASSUME NEW p \in Nat
  PROVE  /\ Files!OnPage(p) \subseteq Files!Active /\ IsFiniteSet(Files!OnPage(p))
         /\ Cardinality(Files!OnPage(p)) <= PAGE_SIZE
<1> DEFINE low == p * PAGE_SIZE
           places == low..((p + 1) * PAGE_SIZE - 1)
           place == [d \in Files!OnPage(p) |-> Cardinality(Before(Files!Active, d))]
<1>1. Files!OnPage(p) = {d \in Files!Active : Cardinality(Before(Files!Active, d)) \in places}
  BY DocumentsCount DEF Files!OnPage, Before
<1>7. Files!OnPage(p) \subseteq Files!Active /\ Files!Active \subseteq Nat
  <2>1. Files!Active \subseteq Nat
    BY ActiveIsFinite
  <2> QED  BY <1>1, <2>1
<1>2. low \in Nat /\ (p + 1) * PAGE_SIZE = low + PAGE_SIZE /\ PAGE_SIZE \in Nat
  BY DocumentsPageAssumption
<1>3. IsFiniteSet(places) /\ Cardinality(places) = PAGE_SIZE
  <2>1. places = low..(low + PAGE_SIZE - 1) /\ low \in Int /\ low + PAGE_SIZE - 1 \in Int
    BY <1>2
  <2> HIDE DEF places, low
  <2>2. IsFiniteSet(places) /\
    Cardinality(places) = IF low > low + PAGE_SIZE - 1 THEN 0 ELSE (low + PAGE_SIZE - 1) - low + 1
    BY <2>1, FS_Interval
  <2> QED  BY <1>2, <2>2, DocumentsPageAssumption
<1>4. place \in Injection(Files!OnPage(p), places)
  <2>1. place \in [Files!OnPage(p) -> places]
    BY <1>1
  <2>2. ASSUME NEW d \in Files!OnPage(p), NEW e \in Files!OnPage(p), place[d] = place[e]
        PROVE d = e
    <3>1. d \in Files!Active /\ e \in Files!Active /\ d \in Nat /\ e \in Nat
      BY <1>7
    <3>2. Cardinality(Before(Files!Active, d)) = Cardinality(Before(Files!Active, e))
      BY <2>2
    <3>3. CASE d < e
      <4>1. e \in Before(Files!Active, d)
        BY <3>1, <3>3 DEF Before
      <4> QED  BY <3>1, <3>2, <4>1, NewerIsHigher
    <3>4. CASE e < d
      <4>1. d \in Before(Files!Active, e)
        BY <3>1, <3>4 DEF Before
      <4> QED  BY <3>1, <3>2, <4>1, NewerIsHigher
    <3> QED  BY <3>1, <3>3, <3>4
  <2> HIDE DEF place, places
  <2> QED  BY <2>1, <2>2 DEF Injection, IsInjective
<1> HIDE DEF places, place
<1>6. IsFiniteSet(Files!OnPage(p)) /\ Cardinality(Files!OnPage(p)) <= Cardinality(places)
  BY <1>3, <1>4, FS_Injection
<1> QED  BY <1>1, <1>3, <1>6

\* The first page shows a document, or is full of newer ones.
LEMMA FirstPageIsFull ==
  ASSUME NEW d \in Files!Active, d \notin Files!OnPage(0)
  PROVE  Cardinality(Before(Files!OnPage(0), d)) = PAGE_SIZE
<1> DEFINE place(e) == Cardinality(Before(Files!Active, e))
<1>1. /\ Files!Active \in SUBSET (1..MaxDocs) /\ MaxDocs \in Nat /\ PAGE_SIZE \in Nat \ {0}
      /\ \A e \in Files!Active : place(e) \in Nat /\ place(e) < Cardinality(Files!Active)
      /\ Cardinality(Files!Active) \in Nat
  <2>1. /\ Files!Active \in SUBSET (1..MaxDocs) /\ MaxDocs \in Nat /\ PAGE_SIZE \in Nat \ {0}
        /\ Cardinality(Files!Active) \in Nat
    BY ActiveIsFinite, DocumentsPageAssumption
  <2>2. \A e \in Files!Active : place(e) \in Nat /\ place(e) < Cardinality(Files!Active)
    BY <2>1, BeforeIsCounted
  <2> QED  BY <2>1, <2>2
<1>2. Files!OnPage(0) = {e \in Files!Active : place(e) < PAGE_SIZE}
  <2>1. 0 * PAGE_SIZE = 0 /\ (0 + 1) * PAGE_SIZE = PAGE_SIZE
    BY <1>1
  <2>2. Files!OnPage(0) = {e \in Files!Active : place(e) \in 0..PAGE_SIZE - 1}
    BY <2>1, DocumentsCount DEF Files!OnPage, Before
  <2>3. \A e \in Files!Active : place(e) \in 0..PAGE_SIZE - 1 <=> place(e) < PAGE_SIZE
    BY <1>1
  <2> HIDE DEF place
  <2> QED  BY <2>2, <2>3
<1>3. \A e, f \in Files!Active : e > f => place(e) < place(f)
  BY NewerIsHigher DEF Before
<1>4. PICK m \in Files!Active : place(m) = PAGE_SIZE
  <2>1. Cardinality(Files!Active) > PAGE_SIZE
    <3> HIDE DEF place
    <3> QED  BY <1>1, <1>2
  <2> QED  BY <1>1, <2>1, EveryPlaceIsTaken
<1> HIDE DEF place
<1>5. Before(Files!OnPage(0), d) = Before(Files!Active, m)
  <2>1. \A e \in Files!Active : e \in Nat
    BY <1>1
  <2>2. ~ (d > m)
    BY <1>1, <1>2, <1>3, <1>4
  <2>3. \A e \in Files!Active : e > m <=> place(e) < PAGE_SIZE
    <3>1. ASSUME NEW e \in Files!Active, ~ (e > m) PROVE ~ (place(e) < PAGE_SIZE)
      <4>1. e = m \/ m > e
        BY <2>1, <3>1
      <4> QED  BY <1>1, <1>3, <1>4, <4>1
    <3> QED  BY <1>1, <1>3, <1>4, <3>1
  <2>4. \A e \in Files!Active : place(e) < PAGE_SIZE => e > d
    BY <2>1, <2>2, <2>3
  <2> QED  BY <1>2, <2>3, <2>4 DEF Before
<1> QED  BY <1>4, <1>5 DEF place

-----------------------------------------------------------------------------
LEMMA NothingIsListing == Files!Listing(Files!Nothing) /\ DOMAIN Files!Nothing = {}
<1>1. DOMAIN Files!Nothing = {}
  BY DEF Files!Nothing
<1> QED  BY <1>1, FS_EmptySet, DocumentsCount, DocumentsPageAssumption DEF Files!Listing

\* No document goes back to not being uploaded.
LEMMA ListingsStay ==
  ASSUME \A d \in Files!Docs : row[d] # "none" => row'[d] # "none"
  PROVE  \A list : Files!Listing(list) => Files!Listing(list)'
BY DEF Files!Listing

LEMMA DocumentsInit == Files!Init => DocumentsInv
<1> SUFFICES ASSUME Files!Init PROVE DocumentsInv
  OBVIOUS
<1> USE DEF Files!Init
<1>1. 0 \in Files!Pages
  BY DocumentsPageAssumption DEF Files!Pages
<1>2. Files!TypeOK
  <2>1. \A p \in Files!Pages : Files!Listing(items[p]) /\ Files!Listing(listed[p])
    BY NothingIsListing
  <2>2. /\ row \in [Files!Docs -> Files!Settling \cup {"none", "settled", "deleted"}]
        /\ upload \in [Files!Docs -> {"unused", "sent", "accepted", "failed", "over",
           "over early"}]
        /\ deletion \in [Files!Deletes -> {"unused", "sent", "gone", "missing", "failed", "over"}]
        /\ target \in [Files!Deletes -> 0..MaxDocs] /\ latest \in 0..MaxDeletes
        /\ page \in Files!Pages
    BY <1>1, DocumentsPageAssumption
  <2>3. /\ {loaded, failed, invalid} \subseteq [Files!Pages -> BOOLEAN]
        /\ {total, counted} \subseteq [Files!Pages -> 0..MaxDocs]
        /\ fetch \in [Files!Pages -> {"idle", "sent", "counted", "listed"}]
    BY DocumentsPageAssumption
  <2> QED  BY <2>1, <2>2, <2>3 DEF Files!TypeOK
<1>3. UploadedFirst /\ TargetsAreKnown /\ DeletedFromList
  BY DEF UploadedFirst, TargetsAreKnown, DeletedFromList
<1>4. OpenIsFetched /\ ToldIsRead
  BY <1>1 DEF OpenIsFetched, ToldIsRead
<1> QED  BY <1>2, <1>3, <1>4 DEF DocumentsInv

-----------------------------------------------------------------------------
LEMMA ListStartsTyped ==
  ASSUME Files!TypeOK, NEW p \in Files!Pages, Files!StartFetch(p), UNCHANGED row
  PROVE  /\ fetch' \in [Files!Pages -> {"idle", "sent", "counted", "listed"}]
         /\ failed' \in [Files!Pages -> BOOLEAN] /\ counted' \in [Files!Pages -> 0..MaxDocs]
         /\ DOMAIN listed' = Files!Pages /\ \A r \in Files!Pages : Files!Listing(listed'[r])
<1>1. \A r \in Files!Pages : listed'[r] = Files!Nothing \/ listed'[r] = listed[r]
  BY DEF Files!StartFetch, Files!TypeOK
<1>2. \A r \in Files!Pages : Files!Listing(listed'[r])
  BY <1>1, NothingIsListing DEF Files!TypeOK
<1>3. DOMAIN listed' = Files!Pages
  BY DEF Files!StartFetch, Files!TypeOK
<1>4. /\ failed \in [Files!Pages -> BOOLEAN] /\ loaded \in [Files!Pages -> BOOLEAN]
      /\ counted \in [Files!Pages -> 0..MaxDocs]
  BY DEF Files!TypeOK
<1>5. failed' \in [Files!Pages -> BOOLEAN]
  BY <1>4 DEF Files!StartFetch
<1>6. fetch' \in [Files!Pages -> {"idle", "sent", "counted", "listed"}]
  BY DEF Files!StartFetch, Files!TypeOK
<1>7. counted' \in [Files!Pages -> 0..MaxDocs]
  BY <1>4, DocumentsPageAssumption DEF Files!StartFetch
<1> QED  BY <1>2, <1>3, <1>5, <1>6, <1>7

\* What changes in the data of a page, or in its fetch, is of its type.
LEMMA ListingSet ==
  ASSUME NEW f, DOMAIN f = Files!Pages, \A r \in Files!Pages : Files!Listing(f[r]),
         NEW p \in Files!Pages, NEW list, Files!Listing(list)
  PROVE  /\ DOMAIN [f EXCEPT ![p] = list] = Files!Pages
         /\ \A r \in Files!Pages : Files!Listing([f EXCEPT ![p] = list][r])
<1>1. \A r \in Files!Pages : [f EXCEPT ![p] = list][r] = IF r = p THEN list ELSE f[r]
  OBVIOUS
<1> QED  BY <1>1

LEMMA DocumentsTypes ==
  ASSUME Files!TypeOK, Files!Next \/ UNCHANGED Files!vars
  PROVE  Files!TypeOK'
<1> USE DEF Files!server, Files!query
<1> DEFINE ServerTyped ==
             /\ row \in [Files!Docs -> Files!Settling \cup {"none", "settled", "deleted"}]
             /\ upload \in [Files!Docs -> {"unused", "sent", "accepted", "failed", "over",
                "over early"}]
             /\ deletion \in [Files!Deletes -> {"unused", "sent", "gone", "missing", "failed",
                "over"}]
             /\ target \in [Files!Deletes -> 0..MaxDocs] /\ latest \in 0..MaxDeletes
           Grows == \A d \in Files!Docs : row[d] # "none" => row'[d] # "none"
<1>0. ServerTyped
  BY DEF Files!TypeOK
<1>8. ASSUME ServerTyped', Grows, UNCHANGED <<page, Files!query>> PROVE Files!TypeOK'
  <2>1. \A r \in Files!Pages : Files!Listing(items[r])' /\ Files!Listing(listed[r])'
    BY <1>8, ListingsStay DEF Files!TypeOK
  <2> QED  BY <1>8, <2>1 DEF Files!TypeOK
<1>1. ASSUME UNCHANGED row, ServerTyped', page' \in Files!Pages,
             {loaded', failed', invalid'} \subseteq [Files!Pages -> BOOLEAN],
             {total', counted'} \subseteq [Files!Pages -> 0..MaxDocs],
             fetch' \in [Files!Pages -> {"idle", "sent", "counted", "listed"}],
             DOMAIN items' = Files!Pages, DOMAIN listed' = Files!Pages,
             \A r \in Files!Pages : Files!Listing(items'[r]) /\ Files!Listing(listed'[r])
      PROVE  Files!TypeOK'
  <2>1. \A r \in Files!Pages : Files!Listing(items[r])' /\ Files!Listing(listed[r])'
    BY <1>1 DEF Files!Listing
  <2> QED  BY <1>1, <2>1 DEF Files!TypeOK, Files!Pages
<1>9. UNCHANGED Files!server => ServerTyped'
  BY <1>0
<1>10. ASSUME NEW d \in Files!Docs,
  Files!Drop(d) \/ Files!AcceptUpload(d) \/ Files!UploadFails(d) \/ Files!Ingest(d)
       PROVE  Files!TypeOK'
  <2>1. row' \in [Files!Docs -> Files!Settling \cup {"none", "settled", "deleted"}] /\ Grows
    BY <1>0, <1>10
       DEF Files!Drop, Files!AcceptUpload, Files!UploadFails, Files!Ingest, Files!Settling
  <2>2. upload' \in [Files!Docs -> {"unused", "sent", "accepted", "failed", "over", "over early"}]
    BY <1>0, <1>10 DEF Files!Drop, Files!AcceptUpload, Files!UploadFails, Files!Ingest
  <2>3. UNCHANGED <<deletion, target, latest, page, Files!query>>
    BY <1>10 DEF Files!Drop, Files!AcceptUpload, Files!UploadFails, Files!Ingest
  <2> QED  BY <1>0, <1>8, <2>1, <2>2, <2>3
<1>11. ASSUME NEW q \in Files!Deletes, NEW d \in Files!Docs, Files!HandleDelete(q, d)
       PROVE Files!TypeOK'
  <2>1. d \in 0..MaxDocs /\ q \in 0..MaxDeletes
    BY DocumentsPageAssumption DEF Files!Docs, Files!Deletes
  <2>2. ServerTyped' /\ Grows
    BY <1>0, <1>11, <2>1 DEF Files!HandleDelete
  <2> QED  BY <1>8, <1>11, <2>2 DEF Files!HandleDelete
<1>12. ASSUME NEW q \in Files!Deletes, Files!DeleteDocument(q) \/ Files!DeleteFails(q)
       PROVE Files!TypeOK'
  <2>1. ServerTyped' /\ Grows
    BY <1>0, <1>12 DEF Files!DeleteDocument, Files!DeleteFails
  <2> QED  BY <1>8, <1>12, <2>1 DEF Files!DeleteDocument, Files!DeleteFails
<1> HIDE DEF ServerTyped
<1>2. ASSUME NEW p \in Files!Pages, Files!CountDocuments(p) PROVE Files!TypeOK'
  BY <1>1, <1>2, <1>9, ActiveIsFinite, DocumentsCount DEF Files!CountDocuments, Files!TypeOK
<1>3. ASSUME NEW p \in Files!Pages, Files!ListDocuments(p) PROVE Files!TypeOK'
  <2> DEFINE new == [d \in Files!OnPage(p) |-> row[d]]
  <2>1. Files!Listing(new)
    <3>1. DOMAIN new = Files!OnPage(p) /\ p \in Nat
      BY DEF Files!Pages
    <3>2. \A d \in Files!OnPage(p) : d \in Files!Docs /\
      row[d] \in Files!Settling \cup {"settled"}
      BY <3>1, PageFits DEF Files!Active
    <3>3. \A d \in Files!OnPage(p) : row[d] # "none"
      BY <3>2 DEF Files!Settling
    <3>4. \A d \in DOMAIN new : new[d] = row[d]
      BY <3>1
    <3> HIDE DEF new
    <3> QED  BY <3>1, <3>2, <3>3, <3>4, PageFits, DocumentsCount DEF Files!Listing
  <2>2. listed' = [listed EXCEPT ![p] = new]
    BY <1>3 DEF Files!ListDocuments
  <2> HIDE DEF new
  <2>3. DOMAIN listed' = Files!Pages /\ \A r \in Files!Pages : Files!Listing(listed'[r])
    BY <2>1, <2>2, ListingSet DEF Files!TypeOK
  <2> QED  BY <1>1, <1>3, <1>9, <2>3 DEF Files!ListDocuments, Files!TypeOK
<1>4. ASSUME NEW p \in Files!Pages, Files!ShowList(p) \/ Files!FetchFails(p) PROVE Files!TypeOK'
  <2>1. DOMAIN listed' = Files!Pages /\ \A r \in Files!Pages : Files!Listing(listed'[r])
    BY <1>4, NothingIsListing, ListingSet DEF Files!ShowList, Files!FetchFails, Files!TypeOK
  <2>2. DOMAIN items' = Files!Pages /\ \A r \in Files!Pages : Files!Listing(items'[r])
    <3>1. Files!Listing(listed[p])
      BY DEF Files!TypeOK
    <3> QED  BY <1>4, <3>1, ListingSet DEF Files!ShowList, Files!FetchFails, Files!TypeOK
  <2>3. {loaded', failed', invalid'} \subseteq [Files!Pages -> BOOLEAN]
    <3>1. {loaded, failed, invalid} \subseteq [Files!Pages -> BOOLEAN]
      BY DEF Files!TypeOK
    <3>2. loaded' \in [Files!Pages -> BOOLEAN]
      BY <1>4, <3>1 DEF Files!ShowList, Files!FetchFails
    <3>3. failed' \in [Files!Pages -> BOOLEAN]
      BY <1>4, <3>1 DEF Files!ShowList, Files!FetchFails
    <3>4. invalid' \in [Files!Pages -> BOOLEAN]
      BY <1>4, <3>1 DEF Files!ShowList, Files!FetchFails
    <3> QED  BY <3>2, <3>3, <3>4
  <2>4. /\ {total', counted'} \subseteq [Files!Pages -> 0..MaxDocs]
        /\ fetch' \in [Files!Pages -> {"idle", "sent", "counted", "listed"}]
    <3>1. total \in [Files!Pages -> 0..MaxDocs] /\ counted \in [Files!Pages -> 0..MaxDocs]
      BY DEF Files!TypeOK
    <3>5. 0 \in 0..MaxDocs
      BY DocumentsPageAssumption
    <3>2. total' \in [Files!Pages -> 0..MaxDocs]
      BY <1>4, <3>1 DEF Files!ShowList, Files!FetchFails
    <3>3. counted' \in [Files!Pages -> 0..MaxDocs]
      BY <1>4, <3>1, <3>5 DEF Files!ShowList, Files!FetchFails
    <3>4. fetch' \in [Files!Pages -> {"idle", "sent", "counted", "listed"}]
      BY <1>4 DEF Files!ShowList, Files!FetchFails, Files!TypeOK
    <3> QED  BY <3>2, <3>3, <3>4
  <2>5. UNCHANGED Files!server /\ page' \in Files!Pages
    BY <1>4 DEF Files!ShowList, Files!FetchFails, Files!TypeOK
  <2> QED  BY <1>1, <1>9, <2>1, <2>2, <2>3, <2>4, <2>5
\* A fetch that begins, or does not.
<1>5. ASSUME NEW p \in Files!Pages, Files!StartFetch(p) \/ UNCHANGED <<fetch, failed, counted,
  listed>>,
             page' \in Files!Pages, invalid' \in [Files!Pages -> BOOLEAN], ServerTyped',
             UNCHANGED <<row, loaded, items, total>>
      PROVE  Files!TypeOK'
  <2>1. /\ fetch' \in [Files!Pages -> {"idle", "sent", "counted", "listed"}]
        /\ failed' \in [Files!Pages -> BOOLEAN] /\ counted' \in [Files!Pages -> 0..MaxDocs]
        /\ DOMAIN listed' = Files!Pages /\ \A r \in Files!Pages : Files!Listing(listed'[r])
    BY <1>5, ListStartsTyped DEF Files!TypeOK
  <2> QED  BY <1>1, <1>5, <2>1 DEF Files!TypeOK
<1>6. CASE Files!Poll \/ Files!Refetch
  BY <1>5, <1>6, <1>9 DEF Files!Poll, Files!Refetch, Files!TypeOK
<1>7. ASSUME NEW stale \in BOOLEAN, Files!Previous(stale) \/ Files!NextPage(stale)
      PROVE Files!TypeOK'
  <2>1. PICK p \in Files!Pages : Files!Open(p, stale)
    <3>1. /\ page \in 0..LastOfList /\ LastOfList \in Nat
          /\ PAGE_SIZE \in Nat \ {0} /\ MaxDocs \in Nat
          /\ total[page] \in 0..MaxDocs /\ MaxDocs <= PAGE_SIZE * (LastOfList + 1)
      BY DocumentsPageAssumption DEF Files!TypeOK, Files!Pages
    <3>2. CASE Files!Previous(stale)
      BY <3>1, <3>2 DEF Files!Previous, Files!Pages
    <3>3. CASE Files!NextPage(stale)
      <4>1. (page + 1) * PAGE_SIZE < PAGE_SIZE * (LastOfList + 1)
        BY <3>1, <3>3 DEF Files!NextPage
      <4>2. page + 1 < LastOfList + 1
        BY <3>1, <4>1
      <4> QED  BY <3>1, <3>3, <4>2 DEF Files!NextPage, Files!Pages
    <3> QED  BY <1>7, <3>2, <3>3
  <2> QED  BY <1>5, <1>9, <2>1 DEF Files!Open, Files!TypeOK
<1>13. ASSUME Files!Invalidate, ServerTyped', UNCHANGED <<row, page>>
       PROVE  Files!TypeOK'
  BY <1>5, <1>13 DEF Files!Invalidate, Files!TypeOK
<1>14. ASSUME NEW d \in Files!Docs, Files!Uploaded(d) PROVE Files!TypeOK'
  BY <1>0, <1>13, <1>14 DEF Files!Uploaded, ServerTyped
<1>15. ASSUME NEW q \in Files!Deletes, Files!Deleted(q) PROVE Files!TypeOK'
  BY <1>0, <1>13, <1>15 DEF Files!Deleted, ServerTyped
<1>16. CASE UNCHANGED Files!vars
  BY <1>16 DEF Files!vars, Files!TypeOK, Files!Listing, Files!Pages
<1> QED  BY <1>2, <1>3, <1>4, <1>6, <1>7, <1>10, <1>11, <1>12, <1>14, <1>15, <1>16
            DEF Files!Next, Files!Fetching

-----------------------------------------------------------------------------
\* The steps that leave the list and its fetches alone.
ServerStep ==
  \/ \E d \in Files!Docs :
       Files!Drop(d) \/ Files!AcceptUpload(d) \/ Files!UploadFails(d) \/ Files!Ingest(d)
  \/ \E q \in Files!Deletes : \/ \E d \in Files!Docs : Files!HandleDelete(q, d)
                              \/ Files!DeleteDocument(q) \/ Files!DeleteFails(q)

LEMMA ServerStepKeepsList == ServerStep => UNCHANGED <<page, Files!query>>
BY DEF ServerStep, Files!Drop, Files!AcceptUpload, Files!UploadFails, Files!Ingest,
       Files!HandleDelete, Files!DeleteDocument, Files!DeleteFails

\* The steps that do not touch the server leave the calls alone but for the answers.
LEMMA OtherSteps ==
  ASSUME Files!Next \/ UNCHANGED Files!vars, ~ServerStep
  PROVE  \/ UNCHANGED Files!server
         \/ \E d \in Files!Docs : Files!Uploaded(d)
         \/ \E q \in Files!Deletes : Files!Deleted(q)
BY DEF Files!Next, Files!vars, Files!server, ServerStep, Files!Fetching, Files!CountDocuments,
       Files!ListDocuments, Files!ShowList, Files!FetchFails, Files!Poll, Files!Refetch,
       Files!Previous, Files!NextPage, Files!Open

LEMMA RowsMoveOn ==
  ASSUME Files!TypeOK, UploadedFirst, TargetsAreKnown, Files!Next \/ UNCHANGED Files!vars
  PROVE  UploadedFirst' /\ TargetsAreKnown'
<1>1. CASE UNCHANGED Files!server
  BY <1>1 DEF Files!server, UploadedFirst, TargetsAreKnown
<1>2. ASSUME NEW d \in Files!Docs, Files!Uploaded(d) PROVE UploadedFirst' /\ TargetsAreKnown'
  BY <1>2 DEF Files!Uploaded, UploadedFirst, TargetsAreKnown, Files!TypeOK
<1>3. ASSUME NEW q \in Files!Deletes, Files!Deleted(q) PROVE UploadedFirst' /\ TargetsAreKnown'
  BY <1>3 DEF Files!Deleted, UploadedFirst, TargetsAreKnown, Files!TypeOK
<1>4. ASSUME NEW d \in Files!Docs,
  Files!Drop(d) \/ Files!AcceptUpload(d) \/ Files!UploadFails(d) \/ Files!Ingest(d)
      PROVE  UploadedFirst' /\ TargetsAreKnown'
  <2>1. UploadedFirst'
    BY <1>4
       DEF Files!Drop, Files!AcceptUpload, Files!UploadFails, Files!Ingest, UploadedFirst,
           Files!TypeOK, Files!Settling
  <2>2. \A e \in Files!Docs : row[e] = "deleted" => row'[e] = "deleted"
    BY <1>4
       DEF Files!Drop, Files!AcceptUpload, Files!UploadFails, Files!Ingest, UploadedFirst,
           Files!TypeOK, Files!Settling
  <2>3. UNCHANGED <<deletion, target>>
    BY <1>4 DEF Files!Drop, Files!AcceptUpload, Files!UploadFails, Files!Ingest
  <2>4. TargetsAreKnown'
    BY <2>2, <2>3 DEF TargetsAreKnown
  <2> QED  BY <2>1, <2>4
<1>5. ASSUME NEW q \in Files!Deletes, NEW d \in Files!Docs, Files!HandleDelete(q, d)
      PROVE  UploadedFirst' /\ TargetsAreKnown'
  BY <1>5 DEF Files!HandleDelete, UploadedFirst, TargetsAreKnown, Files!TypeOK
<1>6. ASSUME NEW q \in Files!Deletes, Files!DeleteDocument(q)
      PROVE UploadedFirst' /\ TargetsAreKnown'
  <2>1. UploadedFirst'
    BY <1>6 DEF Files!DeleteDocument, UploadedFirst, Files!TypeOK, Files!Active, Files!Settling
  <2>2. \A e \in Files!Docs : row[e] = "deleted" => row'[e] = "deleted"
    BY <1>6 DEF Files!DeleteDocument, Files!TypeOK
  <2>3. deletion'[q] = "gone" => row'[target[q]] = "deleted"
    BY <1>6 DEF Files!DeleteDocument, Files!TypeOK, Files!Active
  <2>4. UNCHANGED target /\ \A r \in Files!Deletes : r # q => deletion'[r] = deletion[r]
    BY <1>6 DEF Files!DeleteDocument, Files!TypeOK
  <2>5. deletion[q] = "sent" /\ deletion'[q] \in {"gone", "missing"}
    BY <1>6 DEF Files!DeleteDocument, Files!TypeOK
  <2>6. TargetsAreKnown'
    BY <2>2, <2>3, <2>4, <2>5 DEF TargetsAreKnown
  <2> QED  BY <2>1, <2>6
<1>7. ASSUME NEW q \in Files!Deletes, Files!DeleteFails(q)
      PROVE UploadedFirst' /\ TargetsAreKnown'
  BY <1>7 DEF Files!DeleteFails, UploadedFirst, TargetsAreKnown, Files!TypeOK
<1>8. CASE ServerStep
  BY <1>4, <1>5, <1>6, <1>7, <1>8 DEF ServerStep
<1> QED  BY <1>1, <1>2, <1>3, <1>8, OtherSteps

-----------------------------------------------------------------------------
\* How the query of a page moves: nothing, a new fetch, or one that goes on.
Rests(p) == /\ loaded'[p] = loaded[p] /\ failed'[p] = failed[p] /\ fetch'[p] = fetch[p]
            /\ items'[p] = items[p] /\ listed'[p] = listed[p]
Starts(p) == fetch'[p] = "sent" /\ loaded'[p] = loaded[p]
Moves(p) == \/ fetch'[p] = "counted" /\ loaded'[p] = loaded[p]
            \/ fetch'[p] = "listed" /\ loaded'[p] = loaded[p]
               /\ listed'[p] = [d \in Files!OnPage(p) |-> row[d]]
            \/ fetch[p] = "listed" /\ fetch'[p] = "idle" /\ loaded'[p] /\ items'[p] = listed[p]
            \/ fetch'[p] = "idle" /\ failed'[p] /\ loaded'[p] = loaded[p]

LEMMA StartFetchStarts ==
  ASSUME Files!TypeOK, NEW p \in Files!Pages, Files!StartFetch(p), UNCHANGED <<loaded, items>>
  PROVE  Starts(p) /\ \A r \in Files!Pages \ {p} : Rests(r)
BY DEF Files!StartFetch, Starts, Rests, Files!TypeOK

LEMMA FetchMoves ==
  ASSUME Files!TypeOK, NEW p \in Files!Pages, Files!Fetching(p)
  PROVE  Moves(p) /\ \A r \in Files!Pages \ {p} : Rests(r)
<1> USE DEF Files!TypeOK, Moves, Rests
<1>1. CASE Files!CountDocuments(p)
  BY <1>1 DEF Files!CountDocuments
<1>2. CASE Files!ListDocuments(p)
  BY <1>2 DEF Files!ListDocuments
<1>3. CASE Files!ShowList(p)
  BY <1>3 DEF Files!ShowList
<1>4. CASE Files!FetchFails(p)
  BY <1>4 DEF Files!FetchFails
<1> QED  BY <1>1, <1>2, <1>3, <1>4 DEF Files!Fetching

\* The list under any step: at rest, one page's fetch going on, the open page's
\* fetch starting, or another page being opened.
ListRests == page' = page /\ \A p \in Files!Pages : Rests(p)
ListMoves == /\ page' = page /\ UNCHANGED Files!server
             /\ \E p \in Files!Pages : Moves(p) /\ \A r \in Files!Pages \ {p} : Rests(r)
ListStarts == /\ page' = page /\ Starts(page) /\ \A r \in Files!Pages \ {page} : Rests(r)
ListTurns == /\ UNCHANGED Files!server /\ page' \in Files!Pages \ {page}
             /\ Starts(page') \/ (Rests(page') /\ (loaded[page'] \/ fetch[page'] # "idle"))
             /\ \A r \in Files!Pages \ {page'} : Rests(r)

LEMMA InvalidateSteps ==
  ASSUME Files!TypeOK, Files!Invalidate, UNCHANGED page
  PROVE  IF Files!Loading THEN ListRests ELSE ListStarts
<1>1. CASE Files!Loading
  BY <1>1 DEF Files!Invalidate, ListRests, Rests
<1>2. CASE ~Files!Loading
  <2>1. Files!StartFetch(page) /\ UNCHANGED <<loaded, items>> /\ page \in Files!Pages
    BY <1>2 DEF Files!Invalidate, Files!TypeOK
  <2> QED  BY <1>2, <2>1, StartFetchStarts DEF ListStarts
<1> QED  BY <1>1, <1>2

LEMMA ListSteps ==
  ASSUME DocumentsInv, Files!Next \/ UNCHANGED Files!vars
  PROVE  ListRests \/ ListMoves \/ ListStarts \/ ListTurns
<1>0. Files!TypeOK /\ page \in Files!Pages
  BY DEF DocumentsInv, Files!TypeOK
<1>1. CASE ServerStep
  BY <1>1, ServerStepKeepsList DEF Files!query, ListRests, Rests
<1>2. CASE UNCHANGED Files!vars
  BY <1>2 DEF Files!vars, ListRests, Rests
<1>3. ASSUME NEW p \in Files!Pages, Files!Fetching(p) PROVE ListMoves
  BY <1>0, <1>3, FetchMoves
     DEF ListMoves, Files!Fetching, Files!CountDocuments, Files!ListDocuments, Files!ShowList,
         Files!FetchFails
<1>4. CASE Files!Poll \/ Files!Refetch
  <2>1. Files!StartFetch(page) /\ UNCHANGED <<loaded, items, page>>
    BY <1>4 DEF Files!Poll, Files!Refetch
  <2> QED  BY <1>0, <2>1, StartFetchStarts DEF ListStarts
<1>5. ASSUME NEW p \in Files!Pages, NEW stale \in BOOLEAN, Files!Open(p, stale), p # page
      PROVE ListTurns
  <2>1. page' = p /\ UNCHANGED <<Files!server, loaded, items>>
    BY <1>5 DEF Files!Open
  <2>2. CASE Files!StartFetch(p)
    BY <1>0, <1>5, <2>1, <2>2, StartFetchStarts DEF ListTurns
  <2>3. CASE UNCHANGED <<fetch, failed, counted, listed>> /\ (loaded[p] \/ fetch[p] # "idle")
    BY <1>5, <2>1, <2>3 DEF ListTurns, Rests
  <2> QED  BY <1>5, <2>2, <2>3 DEF Files!Open
<1>6. ASSUME NEW stale \in BOOLEAN, Files!Previous(stale) \/ Files!NextPage(stale) PROVE ListTurns
  <2>1. Files!TypeOK'
    BY DocumentsTypes DEF DocumentsInv
  <2>2. page' \in Files!Pages /\ page' # page
    <3>1. page' \in Files!Pages
      BY <2>1, DocumentsPageAssumption DEF Files!TypeOK, Files!Pages
    <3>2. page \in Int /\ (page' = page - 1 \/ page' = page + 1)
      BY <1>0, <1>6 DEF Files!Previous, Files!NextPage, Files!Open, Files!Pages
    <3> QED  BY <3>1, <3>2
  <2>3. Files!Open(page', stale)
    BY <1>6 DEF Files!Previous, Files!NextPage, Files!Open
  <2> QED  BY <1>5, <2>2, <2>3
<1>7. ASSUME NEW d \in Files!Docs, Files!Uploaded(d) PROVE ListRests \/ ListStarts
  BY <1>0, <1>7, InvalidateSteps DEF Files!Uploaded
<1>8. ASSUME NEW q \in Files!Deletes, Files!Deleted(q) PROVE ListRests \/ ListStarts
  BY <1>0, <1>8, InvalidateSteps DEF Files!Deleted
<1> QED  BY <1>1, <1>2, <1>3, <1>4, <1>6, <1>7, <1>8 DEF Files!Next, ServerStep

\* Once a page was turned, it stays so; and until then the first page is open.
LEMMA FirstPageOnly ==
  ASSUME DocumentsInv, Files!Next \/ UNCHANGED Files!vars, Files!NeverTurned'
  PROVE  Files!NeverTurned /\ page = 0 /\ page' = 0 /\ 0 \in Files!Pages
<1>0. 0 \in Files!Pages /\ page \in Files!Pages /\ OpenIsFetched
  <2>1. 0 \in Files!Pages
    BY DocumentsPageAssumption DEF Files!Pages
  <2> QED  BY <2>1 DEF DocumentsInv, Files!TypeOK
<1>1. \A p \in Files!Pages \ {0} : ~loaded'[p] /\ ~failed'[p] /\ fetch'[p] = "idle"
  BY DEF Files!NeverTurned, Files!Pages
<1>2. ASSUME NEW p \in Files!Pages \ {0} PROVE ~Starts(p) /\ ~Moves(p)
  BY <1>1 DEF Starts, Moves
<1>3. \A p \in Files!Pages \ {0} : Rests(p)
  <2>1. \A p \in Files!Pages : Rests(p) \/ Starts(p) \/ Moves(p)
    BY ListSteps DEF ListRests, ListMoves, ListStarts, ListTurns
  <2> QED  BY <1>2, <2>1
<1>4. Files!NeverTurned
  BY <1>1, <1>3 DEF Rests, Files!NeverTurned
<1>5. page = 0
  BY <1>0, <1>4 DEF OpenIsFetched, Files!NeverTurned
<1>6. page' = 0
  <2>1. CASE ListTurns
    <3>1. page' \in Files!Pages \ {0}
      BY <1>5, <2>1 DEF ListTurns
    <3>2. Rests(page') /\ (loaded[page'] \/ fetch[page'] # "idle")
      BY <1>2, <2>1, <3>1 DEF ListTurns
    <3> QED  BY <1>4, <3>1, <3>2 DEF Files!NeverTurned
  <2> QED  BY <1>5, <2>1, ListSteps DEF ListRests, ListMoves, ListStarts
<1> QED  BY <1>0, <1>4, <1>5, <1>6

LEMMA OpenStaysFetched ==
  ASSUME DocumentsInv, Files!Next \/ UNCHANGED Files!vars
  PROVE  OpenIsFetched'
<1>0. OpenIsFetched /\ page \in Files!Pages
  BY DEF DocumentsInv, Files!TypeOK
<1>1. CASE ListRests
  BY <1>0, <1>1 DEF ListRests, Rests, OpenIsFetched
<1>2. CASE ListMoves
  BY <1>0, <1>2 DEF ListMoves, Moves, Rests, OpenIsFetched
<1>3. CASE ListStarts
  BY <1>3 DEF ListStarts, Starts, OpenIsFetched
<1>4. CASE ListTurns
  BY <1>4 DEF ListTurns, Starts, Rests, OpenIsFetched
<1> QED  BY <1>1, <1>2, <1>3, <1>4, ListSteps

LEMMA LoadedStays ==
  ASSUME DocumentsInv, Files!Next \/ UNCHANGED Files!vars
  PROVE  \A p \in Files!Pages : loaded[p] => loaded'[p]
BY ListSteps DEF ListRests, ListMoves, ListStarts, ListTurns, Rests, Moves, Starts

LEMMA DeletesAreFromList ==
  ASSUME DocumentsInv, Files!Next \/ UNCHANGED Files!vars
  PROVE  DeletedFromList'
<1> SUFFICES ASSUME Files!NeverTurned', NEW q \in Files!Deletes, deletion'[q] # "unused"
             PROVE  loaded'[0]
  BY DEF DeletedFromList
<1>1. Files!NeverTurned /\ page = 0 /\ 0 \in Files!Pages
  BY FirstPageOnly
<1>2. CASE deletion[q] # "unused"
  BY <1>1, <1>2, LoadedStays DEF DocumentsInv, DeletedFromList
<1>3. CASE deletion[q] = "unused"
  <2>1. deletion \in [Files!Deletes -> {"unused", "sent", "gone", "missing", "failed", "over"}]
    BY DEF DocumentsInv, Files!TypeOK
  <2>2. \E r \in Files!Deletes, d \in Files!Docs : Files!HandleDelete(r, d)
    BY <1>3, <2>1, OtherSteps
       DEF ServerStep, Files!server, Files!Uploaded, Files!Deleted, Files!Drop,
           Files!AcceptUpload, Files!UploadFails, Files!Ingest, Files!DeleteDocument,
           Files!DeleteFails
  <2>3. loaded[0]
    BY <1>1, <2>2 DEF Files!HandleDelete, Files!TableShown
  <2> QED  BY <1>1, <2>3, LoadedStays
<1> QED  BY <1>2, <1>3

-----------------------------------------------------------------------------
\* What was read when nothing is left to tell has it all.
LEMMA FreshListTells ==
  ASSUME DocumentsInv
  PROVE  HasTold([d \in Files!OnPage(0) |-> row[d]])
<1> DEFINE list == [d \in Files!OnPage(0) |-> row[d]]
<1>1. DOMAIN list = Files!OnPage(0)
  OBVIOUS
<1> HIDE DEF list
<1>2. \A d \in Files!Active : d \in DOMAIN list \/ Cardinality(Before(DOMAIN list, d)) = PAGE_SIZE
  BY <1>1, FirstPageIsFull
<1>3. ASSUME NEW q \in Files!Deletes, deletion[q] = "over" PROVE target[q] \notin DOMAIN list
  <2>1. target[q] \notin Files!Active
    BY <1>3 DEF DocumentsInv, TargetsAreKnown, Files!Active, Files!Settling
  <2> QED  BY <1>1, <2>1, PageFits
<1> QED  BY <1>2, <1>3 DEF HasTold, list

\* As long as the user is told nothing more, a list that had it all still does.
LEMMA NothingMoreToTell ==
  ASSUME DocumentsInv, Files!Next \/ UNCHANGED Files!vars,
         ~ \E d \in Files!Docs : Files!Uploaded(d) /\ ~Files!Loading,
           ~ \E q \in Files!Deletes : Files!Deleted(q)
  PROVE  \A list : HasTold(list) => HasTold(list)'
<1>0. /\ row \in [Files!Docs -> Files!Settling \cup {"none", "settled", "deleted"}]
      /\ upload \in [Files!Docs -> {"unused", "sent", "accepted", "failed", "over", "over early"}]
      /\ deletion \in [Files!Deletes -> {"unused", "sent", "gone", "missing", "failed", "over"}]
      /\ target \in [Files!Deletes -> 0..MaxDocs]
  BY DEF DocumentsInv, Files!TypeOK
<1>1. \A d \in Files!Docs :
        upload'[d] = "over" /\ d \in Files!Active' => upload[d] = "over" /\ d \in Files!Active
  <2>1. CASE UNCHANGED Files!server
    BY <2>1 DEF Files!server, Files!Active
  <2>2. ASSUME NEW e \in Files!Docs, Files!Uploaded(e), Files!Loading
        PROVE  UNCHANGED row /\ \A d \in Files!Docs : upload'[d] = "over" => upload[d] = "over"
    BY <1>0, <2>2 DEF Files!Uploaded
  <2>3. ASSUME NEW e \in Files!Docs,
    Files!Drop(e) \/ Files!AcceptUpload(e) \/ Files!UploadFails(e)
        PROVE  \A d \in Files!Docs : upload'[d] = "over" => upload[d] = "over" /\ row'[d] = row[d]
    BY <1>0, <2>3 DEF Files!Drop, Files!AcceptUpload, Files!UploadFails
  <2>4. ASSUME NEW e \in Files!Docs, Files!Ingest(e)
        PROVE  UNCHANGED upload /\ \A d \in Files!Docs : d \in Files!Active' => d \in Files!Active
    BY <1>0, <2>4 DEF Files!Ingest, Files!Active, Files!Settling
  <2>5. ASSUME NEW q \in Files!Deletes,
               (\E d \in Files!Docs : Files!HandleDelete(q, d)) \/ Files!DeleteFails(q)
        PROVE  UNCHANGED <<row, upload>>
    BY <2>5 DEF Files!HandleDelete, Files!DeleteFails
  <2>6. ASSUME NEW q \in Files!Deletes, Files!DeleteDocument(q)
        PROVE  UNCHANGED upload /\ \A d \in Files!Docs : d \in Files!Active' => d \in Files!Active
    BY <1>0, <2>6 DEF Files!DeleteDocument, Files!Active, Files!Settling
  <2>7. \/ ServerStep \/ UNCHANGED Files!server
        \/ \E e \in Files!Docs : Files!Uploaded(e) /\ Files!Loading
    BY OtherSteps
  <2> QED  BY <2>1, <2>2, <2>3, <2>4, <2>5, <2>6, <2>7 DEF ServerStep, Files!Active
<1>2. \A q \in Files!Deletes :
        deletion'[q] = "over" => deletion[q] = "over" /\ target'[q] = target[q]
  <2>1. CASE UNCHANGED <<deletion, target>>
    BY <2>1
  <2>2. ASSUME NEW q \in Files!Deletes, NEW d \in Files!Docs, Files!HandleDelete(q, d)
        PROVE  \A r \in Files!Deletes :
                 deletion'[r] = "over" => deletion[r] = "over" /\ target'[r] = target[r]
    BY <1>0, <2>2 DEF Files!HandleDelete
  <2>3. ASSUME NEW q \in Files!Deletes, Files!DeleteDocument(q) \/ Files!DeleteFails(q)
        PROVE  \A r \in Files!Deletes :
                 deletion'[r] = "over" => deletion[r] = "over" /\ target'[r] = target[r]
    BY <1>0, <2>3 DEF Files!DeleteDocument, Files!DeleteFails
  <2>4. \/ \E q \in Files!Deletes : \/ \E d \in Files!Docs : Files!HandleDelete(q, d)
                                    \/ Files!DeleteDocument(q) \/ Files!DeleteFails(q)
        \/ UNCHANGED <<deletion, target>>
    BY OtherSteps
       DEF ServerStep, Files!server, Files!Drop, Files!AcceptUpload, Files!UploadFails,
           Files!Ingest, Files!Uploaded
  <2> QED  BY <2>1, <2>2, <2>3, <2>4
<1> SUFFICES ASSUME NEW list, HasTold(list) PROVE HasTold(list)'
  OBVIOUS
<1>3. \A d \in Files!Active' : upload'[d] = "over" =>
        d \in DOMAIN list \/ Cardinality(Before(DOMAIN list, d)) = PAGE_SIZE
  BY <1>1 DEF HasTold, Files!Active
<1>4. \A q \in Files!Deletes : deletion'[q] = "over" => target'[q] \notin DOMAIN list
  BY <1>2 DEF HasTold
<1> QED  BY <1>3, <1>4 DEF HasTold, Before

LEMMA ToldStaysRead ==
  ASSUME DocumentsInv, Files!Next \/ UNCHANGED Files!vars
  PROVE  ToldIsRead'
<1> SUFFICES ASSUME Files!NeverTurned'
             PROVE  /\ fetch'[0] = "listed" => HasTold(listed[0])'
                    /\ loaded'[0] /\ fetch'[0] = "idle" /\ ~failed'[0] => HasTold(items[0])'
  BY DEF ToldIsRead
<1>1. Files!NeverTurned /\ page = 0 /\ page' = 0 /\ 0 \in Files!Pages /\ Files!TypeOK
  BY FirstPageOnly DEF DocumentsInv
<1>2. /\ fetch[0] = "listed" => HasTold(listed[0])
      /\ loaded[0] /\ fetch[0] = "idle" /\ ~failed[0] => HasTold(items[0])
  BY <1>1 DEF DocumentsInv, ToldIsRead
<1>3. CASE ListStarts
  BY <1>1, <1>3 DEF ListStarts, Starts
<1>4. CASE ListMoves
  <2>1. \A list : HasTold(list) => HasTold(list)'
    BY <1>4 DEF ListMoves, Files!server, HasTold, Files!Active
  <2>2. CASE Rests(0)
    BY <1>2, <2>1, <2>2 DEF Rests, HasTold
  <2>3. CASE Moves(0)
    <3>1. HasTold([d \in Files!OnPage(0) |-> row[d]])
      BY FreshListTells
    <3> QED  BY <1>2, <2>1, <2>3, <3>1 DEF Moves, HasTold
  <2> QED  BY <1>1, <1>4, <2>2, <2>3 DEF ListMoves
<1>5. CASE \/ \E d \in Files!Docs : Files!Uploaded(d) /\ ~Files!Loading
           \/ \E q \in Files!Deletes : Files!Deleted(q)
  <2>1. ~Files!Loading
    <3>1. ASSUME NEW q \in Files!Deletes, Files!Deleted(q) PROVE loaded[0]
      BY <1>1, <3>1 DEF Files!Deleted, DocumentsInv, DeletedFromList
    <3> QED  BY <1>1, <1>5, <3>1 DEF Files!Loading
  <2>2. Files!Invalidate /\ UNCHANGED page
    BY <1>5 DEF Files!Uploaded, Files!Deleted
  <2> QED  BY <1>1, <1>3, <2>1, <2>2, InvalidateSteps
<1>6. CASE /\ ListRests
           /\ ~(\/ \E d \in Files!Docs : Files!Uploaded(d) /\ ~Files!Loading
               \/ \E q \in Files!Deletes : Files!Deleted(q))
  <2>1. \A list : HasTold(list) => HasTold(list)'
    BY <1>6, NothingMoreToTell
  <2> QED  BY <1>1, <1>2, <1>6, <2>1 DEF ListRests, Rests, HasTold
<1>7. ~ListTurns
  BY <1>1 DEF ListTurns
<1> QED  BY <1>3, <1>4, <1>5, <1>6, <1>7, ListSteps

LEMMA DocumentsNext == DocumentsInv /\ (Files!Next \/ UNCHANGED Files!vars) => DocumentsInv'
BY DocumentsTypes, RowsMoveOn, OpenStaysFetched, DeletesAreFromList, ToldStaysRead
   DEF DocumentsInv

LEMMA ToldIsShownHolds == DocumentsInv => Files!ToldIsShown
<1> SUFFICES ASSUME DocumentsInv, Files!NeverTurned, loaded[0], ~failed[0], fetch[0] = "idle"
             PROVE  /\ \A d \in Files!Active : upload[d] = "over" =>
                         \/ d \in DOMAIN items[0]
                         \/ Cardinality({e \in DOMAIN items[0] : e > d}) = PAGE_SIZE
                    /\ \A q \in Files!Deletes : deletion[q] = "over" =>
                       target[q] \notin DOMAIN items[0]
  BY DocumentsCount DEF Files!ToldIsShown
<1> QED  BY DEF DocumentsInv, ToldIsRead, HasTold, Before

-----------------------------------------------------------------------------
(* The pages together *)

IInv ==
  /\ visiting \in {"detail", "queue", "users", "audit", "chat", "documents"}
  /\ visiting = "detail" => DetailInv
  /\ visiting = "queue" => QueueInv
  /\ visiting = "users" => UsersInv
  /\ visiting = "audit" => AuditInv
  /\ visiting = "chat" => ChatInv
  /\ visiting = "documents" => DocumentsInv

LEMMA InitIInv == Init => IInv
BY VisitsAssumption, DetailInit, QueueInit, UsersInit, AuditInit, ChatInit, DocumentsInit
   DEF Init, InitOf, IInv

\* A step is one of the page that is open, and leaves it open.
LEMMA NextIInv == IInv /\ [Next]_vars => IInv'
<1> SUFFICES ASSUME IInv, [Next]_vars PROVE IInv'
  OBVIOUS
<1> USE DEF detailOnly, usersOnly, auditOnly, chatOnly, documentsOnly
<1>1. visiting' = visiting
  BY DEF Next, Review, Choose, Manage, Browse, Ask, Upload, vars
<1>2. visiting = "detail" => DetailInv'
  <2>1. visiting = "detail" => Detail!Next \/ UNCHANGED Detail!vars
    BY DEF Next, Review, Choose, Manage, Browse, Ask, Upload, vars, Detail!vars
  <2> QED  BY <2>1, DetailNext DEF IInv
<1>3. visiting = "queue" => QueueInv'
  <2>1. visiting = "queue" => Queue!Next \/ UNCHANGED Queue!vars
    BY DEF Next, Review, Choose, Manage, Browse, Ask, Upload, vars, Queue!vars
  <2> QED  BY <2>1, QueueNext DEF IInv
<1>4. visiting = "users" => UsersInv'
  <2>1. visiting = "users" => Admin!Next \/ UNCHANGED Admin!vars
    BY DEF Next, Review, Choose, Manage, Browse, Ask, Upload, vars, Admin!vars
  <2> QED  BY <2>1, UsersNext DEF IInv
<1>5. visiting = "audit" => AuditInv'
  <2>1. visiting = "audit" => Audit!Next \/ UNCHANGED Audit!vars
    BY DEF Next, Review, Choose, Manage, Browse, Ask, Upload, vars, Audit!vars
  <2> QED  BY <2>1, AuditNext DEF IInv
<1>6. visiting = "chat" => ChatInv'
  <2>1. visiting = "chat" => Chat!Next \/ UNCHANGED Chat!vars
    BY DEF Next, Review, Choose, Manage, Browse, Ask, Upload, vars, Chat!vars
  <2> QED  BY <2>1, ChatNext DEF IInv
<1>7. visiting = "documents" => DocumentsInv'
  <2>1. visiting = "documents" => Files!Next \/ UNCHANGED Files!vars
    BY DEF Next, Review, Choose, Manage, Browse, Ask, Upload, vars, Files!vars
  <2> QED  BY <2>1, DocumentsNext DEF IInv
<1> QED  BY <1>1, <1>2, <1>3, <1>4, <1>5, <1>6, <1>7 DEF IInv

THEOREM Invariance == Spec => []IInv
BY InitIInv, NextIInv, PTL DEF Spec

\* What a page, its cache and its calls hold is of their kinds: no fetch ends on a
\* page number that does not exist, no call is without the body that it was sent
\* with.
THEOREM TypeCorrect == Spec => []TypeOK
<1>1. IInv => TypeOK
  BY DEF IInv, TypeOK, DetailInv, QueueInv, UsersInv, AuditInv, ChatInv, DocumentsInv
<1> QED  BY <1>1, Invariance, PTL

\* Whatever other reviewers do and however old the page is, a decision that it
\* offered is refused only when the answer has moved on or when form and API count
\* the comment differently: the form repeats every other check of the API.
THEOREM RefusalsAreExplained == Spec => []RefusedOnlyIfOvertaken
<1>1. IInv => RefusedOnlyIfOvertaken
  BY DEF IInv, DetailInv, RefusedOnlyIfOvertaken
<1> QED  BY <1>1, Invariance, PTL

\* Whatever fetches are under way when a decision is accepted, the tab of pending
\* answers does not show the answer again.
THEOREM DecidedIsGone == Spec => []DecidedLeavesQueue
<1>1. IInv => DecidedLeavesQueue
  BY QueueInvSuffices DEF IInv, DecidedLeavesQueue
<1> QED  BY <1>1, Invariance, PTL

\* However many changes are sent, and whichever order their answers and the fetches
\* of the list take, the list at rest shows what the administrator was told of.
THEOREM ChangesAreListed == Spec => []ListShowsOwnChanges
<1>1. IInv => ListShowsOwnChanges
  BY UsersInvSuffices DEF IInv, ListShowsOwnChanges
<1> QED  BY <1>1, Invariance, PTL

\* For a log and pages of any length: no event is missed on the way from the first
\* page to the last, and the page is never empty while something matches.
THEOREM NothingIsHidden == Spec => []AuditHidesNothing
<1>1. IInv => AuditHidesNothing
  BY WalkMissesNothingHolds, EmptyMeansNoneHolds DEF IInv, AuditHidesNothing
<1> QED  BY <1>1, Invariance, PTL

\* However many asks overlap, are dropped or are left behind: what the composer loses
\* is a question that was answered, never the draft of one that failed.
THEOREM DraftsAreKept == Spec => []FailedAskKeepsDraft
<1>1. IInv => FailedAskKeepsDraft
  BY FailedIsNotCleared DEF IInv, FailedAskKeepsDraft
<1> QED  BY <1>1, Invariance, PTL

\* For any number of documents, calls and pages of any size: the first page at rest
\* shows what the user was told of, whichever polls and fetches were under way.
THEOREM DocumentsAreListed == Spec => []ToldIsShown
<1>1. IInv => ToldIsShown
  BY ToldIsShownHolds DEF IInv, ToldIsShown
<1> QED  BY <1>1, Invariance, PTL
=============================================================================
