------------------------------ MODULE Standing ------------------------------
(***************************************************************************)
(* A companion's standing with its customers and the platform: the rating  *)
(* and review count shown for it, recomputed after every review the        *)
(* customer backend posts (internal.service.ts), the trust score and       *)
(* badges, raised by completed trust tasks (profile.service.ts) and the    *)
(* safety quiz (safety.service.ts).                                        *)
(***************************************************************************)
EXTENDS Naturals, FiniteSets, FiniteSetsExt, Functions

CONSTANTS
    Visit,          \* sessions that may be reviewed
    Stars,          \* ratings, after clamping to 1 .. 5
    TrustTask,      \* trust tasks
    Points,         \* points an app may claim for one
    Writer,         \* calls that may be in progress at once
    MaxPost,        \* bound: reviews and tasks posted
    MaxLoss         \* bound: calls that die

ASSUME StandingAssumption ==
    /\ Stars \subseteq 1 .. 5
    /\ Points \subseteq Nat
    /\ 0 \notin Points
    /\ {MaxPost, MaxLoss} \subseteq Nat
    /\ IsFiniteSet(Visit) /\ IsFiniteSet(TrustTask)
    /\ "none" \notin TrustTask

VARIABLES
    reviews,        \* companion_reviews.rating by session; 0: no review
    rating,         \* companions.rating, in tenths
    totalReviews,   \* companions.totalReviews
    tasks,          \* trust_tasks.points of the completed tasks; 0: not completed
    trustScore,     \* companions.trustScore
    badges,         \* companion_badges.badgeKey
    writer,         \* calls in progress
    posts,          \* bound
    losses,         \* bound
    behind,         \* history: the rating shown misses a review
    uncounted       \* history: points were lost, or given twice for one task

reviewVars == <<reviews, rating, totalReviews, behind>>
trustVars == <<tasks, trustScore, badges, uncounted>>
standingVars == <<reviewVars, trustVars, writer, posts, losses>>

(* aggregate, rating: a review is stored, the average is to be read, to be *)
(* written; score, award: a task was found open, the score is to be read,  *)
(* to be written.  stale: what the call has read has changed since.        *)
WriterRow ==
    [ pc : {"aggregate", "rating", "score", "award"},
      rating : 0 .. 50, total : 0 .. Cardinality(Visit),
      task : TrustTask \cup {"none"}, points : Points \cup {0}, score : 0 .. 100, stale : BOOLEAN ]

NoWriter == [ pc |-> "resting", rating |-> 0, total |-> 0, task |-> "none", points |-> 0, score |-> 0, stale |-> FALSE ]

StandingTypeOK ==
    /\ reviews \in [Visit -> Stars \cup {0}]
    /\ rating \in 0 .. 50
    /\ totalReviews \in 0 .. Cardinality(Visit)
    /\ tasks \in [TrustTask -> Points \cup {0}]
    /\ trustScore \in 0 .. 100
    /\ badges \in SUBSET {"badge_elite", "badge_safety"}
    /\ writer \in [Writer -> WriterRow \cup {NoWriter}]
    /\ posts \in 0 .. MaxPost
    /\ losses \in 0 .. MaxLoss
    /\ {behind, uncounted} \subseteq BOOLEAN

StandingInit ==
    /\ reviews = [s \in Visit |-> 0]
    /\ rating = 0
    /\ totalReviews = 0
    /\ tasks = [t \in TrustTask |-> 0]
    /\ trustScore = 0
    /\ badges = {}
    /\ writer = [w \in Writer |-> NoWriter]
    /\ posts = 0
    /\ losses = 0
    /\ behind = FALSE
    /\ uncounted = FALSE

Reviewed(r) == {s \in DOMAIN r : r[s] # 0}

(* The means, in twentieths, that a binary fraction falls short of: 1.45   *)
(* is a little less than a half above 1.4.                                 *)
LowHalves == {23, 29, 33, 39, 41, 43, 51, 53, 61, 63, 71, 73, 81, 87, 91, 97}

(* The mean to one decimal by toFixed, in tenths: a half goes up, unless   *)
(* its binary fraction falls short of it.                                  *)
Average(r) ==
    LET n == Cardinality(Reviewed(r))
        twentieths == 20 * SumFunction(r)
    IN  IF n = 0 THEN 0
        ELSE IF \E k \in LowHalves : twentieths = k * n THEN (twentieths - n) \div (2 * n)
        ELSE (twentieths + n) \div (2 * n)

(* What another call has read has changed.                                 *)
Marked(o, changed) == IF changed THEN [writer[o] EXCEPT !.stale = TRUE] ELSE writer[o]

-------------------------------------------------------------------------------
(* Reviews: createInternalReview.  The session has one review; another for *)
(* the same session replaces it.                                           *)

(* Faulty: the average is read before the review is stored.                *)
PostReviewLate(w, s, stars) ==
    /\ writer[w] = NoWriter
    /\ posts < MaxPost
    /\ posts' = posts + 1
    /\ reviews' = [reviews EXCEPT ![s] = stars]
    /\ writer' = [o \in Writer |->
                    IF o = w THEN [NoWriter EXCEPT !.pc = "rating", !.rating = Average(reviews),
                                                   !.total = Cardinality(Reviewed(reviews))]
                    ELSE Marked(o, writer[o].pc = "rating")]
    /\ UNCHANGED <<rating, totalReviews, behind, trustVars, losses>>

PostReview(w, s, stars) ==
    /\ writer[w] = NoWriter
    /\ posts < MaxPost
    /\ posts' = posts + 1
    /\ reviews' = [reviews EXCEPT ![s] = stars]
    /\ writer' = [o \in Writer |->
                    IF o = w THEN [NoWriter EXCEPT !.pc = "aggregate"]
                    ELSE Marked(o, writer[o].pc = "rating")]
    /\ UNCHANGED <<rating, totalReviews, behind, trustVars, losses>>

AggregateReviews(w) ==
    /\ writer[w].pc = "aggregate"
    /\ writer' = [writer EXCEPT ![w] = [@ EXCEPT !.pc = "rating", !.rating = Average(reviews),
                                                 !.total = Cardinality(Reviewed(reviews))]]
    /\ UNCHANGED <<reviewVars, trustVars, posts, losses>>

WriteRating(w) ==
    /\ writer[w].pc = "rating"
    /\ rating' = writer[w].rating
    /\ totalReviews' = writer[w].total
    /\ behind' = writer[w].stale
    /\ writer' = [writer EXCEPT ![w] = NoWriter]
    /\ UNCHANGED <<reviews, trustVars, posts, losses>>

-------------------------------------------------------------------------------
(* Trust tasks: completeTrustTask, a READ COMMITTED transaction.  Nothing  *)
(* it writes is seen before it commits; no unique index keeps two rows     *)
(* from being created for one task.  The branch for a row that is there    *)
(* and not completed is left out: only the seed data contain such rows.    *)

(* Faulty: a completed task is not recognised.                             *)
CompleteTrustTaskAgain(w, t, points) ==
    /\ writer[w] = NoWriter
    /\ posts < MaxPost
    /\ posts' = posts + 1
    /\ writer' = [writer EXCEPT ![w] = [NoWriter EXCEPT !.pc = "score", !.task = t, !.points = points]]
    /\ UNCHANGED <<reviewVars, trustVars, losses>>

CompleteTrustTask(w, t, points) ==
    /\ tasks[t] = 0
    /\ writer[w] = NoWriter
    /\ posts < MaxPost
    /\ posts' = posts + 1
    /\ writer' = [writer EXCEPT ![w] = [NoWriter EXCEPT !.pc = "score", !.task = t, !.points = points]]
    /\ UNCHANGED <<reviewVars, trustVars, losses>>

(* Faulty: the score is not bounded by a hundred. *)
ReadScoreUnbounded(w) ==
    /\ writer[w].pc = "score"
    /\ writer' = [writer EXCEPT ![w] = [@ EXCEPT !.pc = "award", !.score = trustScore + writer[w].points]]
    /\ UNCHANGED <<reviewVars, trustVars, posts, losses>>

ReadScore(w) ==
    /\ writer[w].pc = "score"
    /\ writer' = [writer EXCEPT ![w] = [@ EXCEPT !.pc = "award", !.score = Min({trustScore + writer[w].points, 100})]]
    /\ UNCHANGED <<reviewVars, trustVars, posts, losses>>

(* The update waits for the row's lock, so what follows it is atomic with  *)
(* the commit.                                                             *)
CommitTask(w) ==
    /\ writer[w].pc = "award"
    /\ LET row == writer[w] IN
          /\ tasks' = [tasks EXCEPT ![row.task] = row.points]
          /\ trustScore' = row.score
          /\ badges' = badges \cup (IF row.score = 100 THEN {"badge_elite"} ELSE {})
          /\ uncounted' = (uncounted \/ row.stale)
          /\ writer' = [o \in Writer |->
                          IF o = w THEN NoWriter
                          ELSE Marked(o, writer[o].pc = "award" \/ writer[o].task = row.task)]
    /\ UNCHANGED <<reviewVars, posts, losses>>

CompleteSafetyQuiz ==
    /\ badges' = badges \cup {"badge_safety"}
    /\ UNCHANGED <<reviewVars, tasks, trustScore, uncounted, writer, posts, losses>>

(* A call dies: the transaction is rolled back, the review stays.          *)
WriterDies(w) ==
    /\ writer[w] # NoWriter
    /\ losses < MaxLoss
    /\ losses' = losses + 1
    /\ behind' = (behind \/ writer[w].pc \in {"aggregate", "rating"})
    /\ writer' = [writer EXCEPT ![w] = NoWriter]
    /\ UNCHANGED <<reviews, rating, totalReviews, trustVars, posts>>

StandingNext ==
    \/ CompleteSafetyQuiz
    \/ \E w \in Writer :
          \/ \E s \in Visit, stars \in Stars : PostReview(w, s, stars)
          \/ \E t \in TrustTask, points \in Points : CompleteTrustTask(w, t, points)
          \/ AggregateReviews(w) \/ WriteRating(w) \/ ReadScore(w) \/ CommitTask(w) \/ WriterDies(w)

StandingSpec == StandingInit /\ [][StandingNext]_standingVars

-------------------------------------------------------------------------------
(* Properties *)

(* The rating and the count shown are those of the stored reviews once no  *)
(* post is in progress, unless the last rating written was read before     *)
(* another review was stored, or a post died in between: two posts may     *)
(* cross, and the next one that does not repairs it (createInternalReview).*)
RatingIsAverage ==
    \/ behind
    \/ \E w \in Writer : writer[w].pc \in {"aggregate", "rating"}
    \/ rating = Average(reviews) /\ totalReviews = Cardinality(Reviewed(reviews))

(* The trust score is the sum of the points of the completed tasks, at     *)
(* most a hundred, and a hundred makes an elite companion, unless one      *)
(* transaction committed after another had read the score, or had found    *)
(* the same task open (completeTrustTask).                                 *)
TrustFollowsTasks ==
    uncounted \/
        /\ trustScore = Min({SumFunction(tasks), 100})
        /\ "badge_elite" \in badges <=> trustScore = 100
=============================================================================
