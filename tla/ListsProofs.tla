---------------------------- MODULE ListsProofs ----------------------------
(***************************************************************************)
(* What the files of Lists promise, for any number of jobs, servers and     *)
(* commands: at rest they say what memory says.                             *)
(*                                                                          *)
(* The invariant reads what a job still has to do: a section that changes a *)
(* list is followed by a save of it which nothing on the way can cancel, so *)
(* a file that is behind has a job that owes it.  That any save will do,    *)
(* whoever's it is, comes from its writing what is in memory then.          *)
(***************************************************************************)
EXTENDS Lists, SequenceTheorems, TLAPS

Steps ==
  {"push", "pushSub", "lookFree", "lookUp", "fetch", "giveBack", "merge", "dropSub", "dropNodes",
   "dropNode", "replace", "pin", "sort", "sortSubs", "reflow", "pick", "resolve", "show",
   "saveNodes", "saveSubs", "saveUi"}

(* Sections after which a job may drop the rest.                           *)
Aborting == {"lookFree", "lookUp", "fetch", "replace", "pick"}

NodeChanges == {"push", "merge", "dropNodes", "dropNode", "replace", "sort", "reflow"}
SubChanges == {"pushSub", "giveBack", "dropSub", "sortSubs"}
PinChanges == {"pin", "pick"}

(* A save that will come whatever happens.                                 *)
Owes(todo, save) ==
  \E m \in 1..Len(todo) : todo[m] = save /\ \A k \in 1..(m - 1) : todo[k] \notin Aborting

(* A change has its save behind it.  What is behind a fetch is replaced     *)
(* when the fetch ends, whichever way.                                      *)
Covered(todo, changes, save) ==
  \A n \in 1..Len(todo) :
    todo[n] \in changes =>
      \/ \E k \in 1..(n - 1) : todo[k] = "fetch"
      \/ \E m \in (n + 1)..Len(todo) :
           todo[m] = save /\ \A k \in (n + 1)..(m - 1) : todo[k] \notin Aborting

Careful(todo) ==
  /\ todo \in Seq(Steps)
  /\ Covered(todo, NodeChanges, "saveNodes")
  /\ Covered(todo, SubChanges, "saveSubs")
  /\ Covered(todo, PinChanges, "saveUi")

IsJob(job) == job = [todo |-> job.todo, sub |-> job.sub, arg |-> job.arg] /\ Careful(job.todo)

Owed(save) == \E j \in Jobs : Owes(jobs[j].todo, save)

DiskInv ==
  /\ jobs = [j \in Jobs |-> jobs[j]] /\ \A j \in Jobs : IsJob(jobs[j])
  /\ disk = [servers |-> disk.servers, subs |-> disk.subs, ui |-> disk.ui]
  /\ disk.servers = nodes \/ Owed("saveNodes")
  /\ disk.subs = subs \/ Owed("saveSubs")
  /\ disk.ui = active \/ Owed("saveUi")

-----------------------------------------------------------------------------
(* Owes and Covered along a list of sections.                              *)
LEMMA OwesLater ==
  ASSUME NEW todo \in Seq(Steps), NEW save, todo # << >>, Owes(todo, save), Head(todo) # save
  PROVE  Owes(Tail(todo), save) /\ Head(todo) \notin Aborting
<1>1. PICK m \in 1..Len(todo) : todo[m] = save /\ \A k \in 1..(m - 1) : todo[k] \notin Aborting
  BY DEF Owes
<1>2. m # 1 /\ Head(todo) = todo[1] /\ Len(Tail(todo)) = Len(todo) - 1
      /\ \A k \in 1..Len(Tail(todo)) : Tail(todo)[k] = todo[k + 1]
  BY <1>1
<1>3. m - 1 \in 1..Len(Tail(todo)) /\ Tail(todo)[m - 1] = save
  BY <1>1, <1>2
<1>4. ASSUME NEW k \in 1..((m - 1) - 1)
      PROVE  Tail(todo)[k] \notin Aborting
  BY <1>1, <1>2, k + 1 \in 1..(m - 1), k \in 1..Len(Tail(todo))
<1>5. Head(todo) \notin Aborting
  BY <1>1, <1>2, 1 \in 1..(m - 1)
<1> QED
  BY <1>3, <1>4, <1>5 DEF Owes

LEMMA CoveredLater ==
  ASSUME NEW todo \in Seq(Steps), NEW changes, NEW save, todo # << >>,
         Covered(todo, changes, save)
  PROVE  /\ Head(todo) # "fetch" => Covered(Tail(todo), changes, save)
         /\ Head(todo) \in changes => Owes(Tail(todo), save)
<1>1. Head(todo) = todo[1] /\ Len(Tail(todo)) = Len(todo) - 1 /\ Len(todo) \in Nat
      /\ Len(todo) > 0 /\ \A k \in 1..Len(Tail(todo)) : Tail(todo)[k] = todo[k + 1]
  OBVIOUS
<1>2. ASSUME Head(todo) \in changes
      PROVE  Owes(Tail(todo), save)
  <2>1. PICK m \in 2..Len(todo) :
          todo[m] = save /\ \A k \in 2..(m - 1) : todo[k] \notin Aborting
    BY <1>1, <1>2 DEF Covered
  <2>2. m - 1 \in 1..Len(Tail(todo)) /\ Tail(todo)[m - 1] = save
    BY <1>1, <2>1
  <2>3. ASSUME NEW k \in 1..((m - 1) - 1)
        PROVE  Tail(todo)[k] \notin Aborting
    BY <1>1, <2>1, k + 1 \in 2..(m - 1), k \in 1..Len(Tail(todo))
  <2> QED
    BY <2>2, <2>3 DEF Owes
<1>3. ASSUME Head(todo) # "fetch", NEW n \in 1..Len(Tail(todo)), Tail(todo)[n] \in changes
      PROVE  \/ \E k \in 1..(n - 1) : Tail(todo)[k] = "fetch"
             \/ \E m \in (n + 1)..Len(Tail(todo)) :
                  Tail(todo)[m] = save /\ \A k \in (n + 1)..(m - 1) : Tail(todo)[k] \notin Aborting
  <2>1. n + 1 \in 1..Len(todo) /\ todo[n + 1] \in changes
    BY <1>1, <1>3
  <2>2. CASE \E k \in 1..n : todo[k] = "fetch"
    <3>1. PICK k \in 1..n : todo[k] = "fetch"
      BY <2>2
    <3>2. k # 1 /\ k - 1 \in 1..(n - 1) /\ k - 1 \in 1..Len(Tail(todo))
      BY <1>1, <1>3, <3>1
    <3> QED
      BY <1>1, <3>1, <3>2
  <2>3. CASE \E m \in (n + 2)..Len(todo) :
               todo[m] = save /\ \A k \in (n + 2)..(m - 1) : todo[k] \notin Aborting
    <3>1. PICK m \in (n + 2)..Len(todo) :
            todo[m] = save /\ \A k \in (n + 2)..(m - 1) : todo[k] \notin Aborting
      BY <2>3
    <3>2. m - 1 \in (n + 1)..Len(Tail(todo)) /\ Tail(todo)[m - 1] = save
      BY <1>1, <3>1
    <3>3. ASSUME NEW k \in (n + 1)..((m - 1) - 1)
          PROVE  Tail(todo)[k] \notin Aborting
      BY <1>1, <3>1, k + 1 \in (n + 2)..(m - 1), k \in 1..Len(Tail(todo))
    <3> QED
      BY <3>2, <3>3
  <2> QED
    BY <2>1, <2>2, <2>3, (n + 1) + 1 = n + 2, (n + 1) - 1 = n DEF Covered
<1> QED
  BY <1>2, <1>3 DEF Covered

LEMMA CoveredCat ==
  ASSUME NEW s \in Seq(Steps), NEW t \in Seq(Steps), NEW changes, NEW save,
         Covered(s, changes, save),
         Covered(t, changes, save) \/ \E k \in 1..Len(s) : s[k] = "fetch"
  PROVE  Covered(s \o t, changes, save)
<1> DEFINE u == s \o t
<1>1. /\ u \in Seq(Steps) /\ Len(u) = Len(s) + Len(t) /\ Len(s) \in Nat /\ Len(t) \in Nat
      /\ \A k \in 1..Len(s) : u[k] = s[k]
      /\ \A k \in 1..Len(t) : u[Len(s) + k] = t[k]
  BY ConcatProperties
<1> HIDE DEF u
<1>2. ASSUME NEW n \in 1..Len(u), u[n] \in changes
      PROVE  \/ \E k \in 1..(n - 1) : u[k] = "fetch"
             \/ \E m \in (n + 1)..Len(u) :
                  u[m] = save /\ \A k \in (n + 1)..(m - 1) : u[k] \notin Aborting
  <2>1. CASE n \in 1..Len(s)
    <3>1. s[n] \in changes
      BY <1>1, <1>2, <2>1
    <3>2. \/ \E k \in 1..(n - 1) : s[k] = "fetch"
          \/ \E m \in (n + 1)..Len(s) :
               s[m] = save /\ \A k \in (n + 1)..(m - 1) : s[k] \notin Aborting
      BY <2>1, <3>1 DEF Covered
    <3>3. (1..(n - 1)) \subseteq 1..Len(s)
      BY <1>1, <2>1
    <3>4. ASSUME NEW m \in (n + 1)..Len(s)
          PROVE  /\ m \in (n + 1)..Len(u) /\ u[m] = s[m]
                 /\ \A k \in (n + 1)..(m - 1) : u[k] = s[k]
      <4>1. m \in 1..Len(s) /\ m \in (n + 1)..Len(u) /\ (n + 1)..(m - 1) \subseteq 1..Len(s)
        BY <1>1, <2>1
      <4> QED
        BY <1>1, <4>1
    <3>5. CASE \E k \in 1..(n - 1) : s[k] = "fetch"
      BY <1>1, <3>3, <3>5
    <3>6. CASE \E m \in (n + 1)..Len(s) :
                 s[m] = save /\ \A k \in (n + 1)..(m - 1) : s[k] \notin Aborting
      BY <3>4, <3>6
    <3> QED
      BY <3>2, <3>5, <3>6
  <2>2. CASE n \notin 1..Len(s) /\ \E k \in 1..Len(s) : s[k] = "fetch"
    <3>1. PICK k \in 1..Len(s) : s[k] = "fetch"
      BY <2>2
    <3>2. k \in 1..(n - 1) /\ u[k] = "fetch"
      BY <1>1, <2>2, <3>1
    <3> QED
      BY <3>2
  <2>3. CASE n \notin 1..Len(s) /\ Covered(t, changes, save)
    <3> DEFINE d == n - Len(s)
    <3>1. d \in 1..Len(t) /\ n = Len(s) + d /\ d \in Nat
      BY <1>1, <2>3
    <3> HIDE DEF d
    <3>2. t[d] \in changes
      BY <1>1, <1>2, <3>1
    <3>3. CASE \E k \in 1..(d - 1) : t[k] = "fetch"
      <4>1. PICK k \in 1..(d - 1) : t[k] = "fetch"
        BY <3>3
      <4>2. k \in 1..Len(t) /\ Len(s) + k \in 1..(n - 1)
        BY <1>1, <3>1, <4>1
      <4> QED
        BY <1>1, <4>1, <4>2
    <3>4. CASE \E m \in (d + 1)..Len(t) :
                 t[m] = save /\ \A k \in (d + 1)..(m - 1) : t[k] \notin Aborting
      <4>1. PICK m \in (d + 1)..Len(t) :
              t[m] = save /\ \A k \in (d + 1)..(m - 1) : t[k] \notin Aborting
        BY <3>4
      <4>2. m \in 1..Len(t) /\ Len(s) + m \in (n + 1)..Len(u) /\ u[Len(s) + m] = save
        BY <1>1, <3>1, <4>1
      <4>3. ASSUME NEW k \in (n + 1)..((Len(s) + m) - 1)
            PROVE  u[k] \notin Aborting
        <5>1. k - Len(s) \in (d + 1)..(m - 1) /\ k - Len(s) \in 1..Len(t)
              /\ k = Len(s) + (k - Len(s))
          BY <1>1, <3>1, <4>1
        <5> QED
          BY <1>1, <4>1, <5>1
      <4> QED
        BY <4>2, <4>3
    <3> QED
      BY <3>1, <3>2, <3>3, <3>4, <2>3 DEF Covered
  <2> QED
    BY <2>1, <2>2, <2>3
<1> QED
  BY <1>2 DEF Covered, u

LEMMA CarefulCat ==
  ASSUME NEW s, NEW t, Careful(s), Careful(t)
  PROVE  Careful(s \o t)
  BY CoveredCat, ConcatProperties DEF Careful

LEMMA CarefulMarked ==
  ASSUME NEW s, Careful(s), NEW t \in Seq(Steps), \E k \in 1..Len(s) : s[k] = "fetch"
  PROVE  Careful(s \o t)
  BY CoveredCat, ConcatProperties DEF Careful

LEMMA TupleInSeq ==
  ASSUME NEW S
  PROVE  /\ << >> \in Seq(S)
         /\ \A a \in S : <<a>> \in Seq(S)
         /\ \A a, b \in S : <<a, b>> \in Seq(S)
         /\ \A a, b, c \in S : <<a, b, c>> \in Seq(S)
         /\ \A a, b, c, d \in S : <<a, b, c, d>> \in Seq(S)
         /\ \A a, b, c, d, e, f \in S : <<a, b, c, d, e, f>> \in Seq(S)
  OBVIOUS

LEMMA StepNames ==
  /\ "push" \in Steps /\ "pushSub" \in Steps /\ "lookFree" \in Steps
  /\ "lookUp" \in Steps /\ "fetch" \in Steps /\ "giveBack" \in Steps
  /\ "merge" \in Steps /\ "dropSub" \in Steps /\ "dropNodes" \in Steps
  /\ "dropNode" \in Steps /\ "replace" \in Steps /\ "pin" \in Steps
  /\ "sort" \in Steps /\ "sortSubs" \in Steps /\ "reflow" \in Steps
  /\ "pick" \in Steps /\ "resolve" \in Steps /\ "show" \in Steps
  /\ "saveNodes" \in Steps /\ "saveSubs" \in Steps /\ "saveUi" \in Steps
  BY DEF Steps

(* What every command sets out to do.                                      *)
LEMMA CarefulPieces ==
  /\ Careful(<< >>)
  /\ Careful(<<"resolve", "show">>)
  /\ Careful(<<"merge", "saveNodes", "saveSubs">>)
  /\ Careful(<<"lookUp", "fetch">>)
  /\ Careful(<<"push", "saveNodes">>)
  /\ Careful(<<"pushSub", "saveSubs">>)
  /\ Careful(<<"lookFree", "pushSub", "saveSubs">>)
  /\ Careful(<<"dropSub", "dropNodes", "saveSubs", "saveNodes">>)
  /\ Careful(<<"dropNode", "saveNodes", "saveUi">>)
  /\ Careful(<<"replace", "saveNodes">>)
  /\ Careful(<<"pin", "saveUi", "sort", "saveNodes">>)
  /\ Careful(<<"pin", "saveUi", "sortSubs", "reflow", "saveSubs", "saveNodes">>)
  /\ Careful(<<"pick", "saveUi", "show">>)
  /\ Careful(<<"saveSubs">>)
  /\ Careful(<<"saveSubs", "giveBack", "saveSubs">>)
  /\ Careful(<<"giveBack", "saveSubs">>)
<1>1. Careful(<< >>)
  <2>1. << >> \in Seq(Steps)
    BY StepNames, TupleInSeq
  <2> QED
    BY <2>1 DEF Careful, Covered, Aborting, NodeChanges, SubChanges, PinChanges
<1>2. Careful(<<"resolve", "show">>)
  <2>1. <<"resolve", "show">> \in Seq(Steps)
    BY StepNames, TupleInSeq
  <2> QED
    BY <2>1 DEF Careful, Covered, Aborting, NodeChanges, SubChanges, PinChanges
<1>3. Careful(<<"merge", "saveNodes", "saveSubs">>)
  <2>1. <<"merge", "saveNodes", "saveSubs">> \in Seq(Steps)
    BY StepNames, TupleInSeq
  <2> QED
    BY <2>1 DEF Careful, Covered, Aborting, NodeChanges, SubChanges, PinChanges
<1>4. Careful(<<"lookUp", "fetch">>)
  <2>1. <<"lookUp", "fetch">> \in Seq(Steps)
    BY StepNames, TupleInSeq
  <2> QED
    BY <2>1 DEF Careful, Covered, Aborting, NodeChanges, SubChanges, PinChanges
<1>5. Careful(<<"push", "saveNodes">>)
  <2>1. <<"push", "saveNodes">> \in Seq(Steps)
    BY StepNames, TupleInSeq
  <2> QED
    BY <2>1 DEF Careful, Covered, Aborting, NodeChanges, SubChanges, PinChanges
<1>6. Careful(<<"pushSub", "saveSubs">>)
  <2>1. <<"pushSub", "saveSubs">> \in Seq(Steps)
    BY StepNames, TupleInSeq
  <2> QED
    BY <2>1 DEF Careful, Covered, Aborting, NodeChanges, SubChanges, PinChanges
<1>7. Careful(<<"lookFree", "pushSub", "saveSubs">>)
  <2>1. <<"lookFree", "pushSub", "saveSubs">> \in Seq(Steps)
    BY StepNames, TupleInSeq
  <2> QED
    BY <2>1 DEF Careful, Covered, Aborting, NodeChanges, SubChanges, PinChanges
<1>8. Careful(<<"dropSub", "dropNodes", "saveSubs", "saveNodes">>)
  <2>1. <<"dropSub", "dropNodes", "saveSubs", "saveNodes">> \in Seq(Steps)
    BY StepNames, TupleInSeq
  <2> QED
    BY <2>1 DEF Careful, Covered, Aborting, NodeChanges, SubChanges, PinChanges
<1>9. Careful(<<"dropNode", "saveNodes", "saveUi">>)
  <2>1. <<"dropNode", "saveNodes", "saveUi">> \in Seq(Steps)
    BY StepNames, TupleInSeq
  <2> QED
    BY <2>1 DEF Careful, Covered, Aborting, NodeChanges, SubChanges, PinChanges
<1>10. Careful(<<"replace", "saveNodes">>)
  <2>1. <<"replace", "saveNodes">> \in Seq(Steps)
    BY StepNames, TupleInSeq
  <2> QED
    BY <2>1 DEF Careful, Covered, Aborting, NodeChanges, SubChanges, PinChanges
<1>11. Careful(<<"pin", "saveUi", "sort", "saveNodes">>)
  <2>1. <<"pin", "saveUi", "sort", "saveNodes">> \in Seq(Steps)
    BY StepNames, TupleInSeq
  <2> QED
    BY <2>1 DEF Careful, Covered, Aborting, NodeChanges, SubChanges, PinChanges
<1>12. Careful(<<"pin", "saveUi", "sortSubs", "reflow", "saveSubs", "saveNodes">>)
  <2>1. <<"pin", "saveUi", "sortSubs", "reflow", "saveSubs", "saveNodes">> \in Seq(Steps)
    BY StepNames, TupleInSeq
  <2> QED
    BY <2>1 DEF Careful, Covered, Aborting, NodeChanges, SubChanges, PinChanges
<1>13. Careful(<<"pick", "saveUi", "show">>)
  <2>1. <<"pick", "saveUi", "show">> \in Seq(Steps)
    BY StepNames, TupleInSeq
  <2> QED
    BY <2>1 DEF Careful, Covered, Aborting, NodeChanges, SubChanges, PinChanges
<1>14. Careful(<<"saveSubs">>)
  <2>1. <<"saveSubs">> \in Seq(Steps)
    BY StepNames, TupleInSeq
  <2> QED
    BY <2>1 DEF Careful, Covered, Aborting, NodeChanges, SubChanges, PinChanges
<1>15. Careful(<<"saveSubs", "giveBack", "saveSubs">>)
  <2>1. <<"saveSubs", "giveBack", "saveSubs">> \in Seq(Steps)
    BY StepNames, TupleInSeq
  <2> QED
    BY <2>1 DEF Careful, Covered, Aborting, NodeChanges, SubChanges, PinChanges
<1>16. Careful(<<"giveBack", "saveSubs">>)
  <2>1. <<"giveBack", "saveSubs">> \in Seq(Steps)
    BY StepNames, TupleInSeq
  <2> QED
    BY <2>1 DEF Careful, Covered, Aborting, NodeChanges, SubChanges, PinChanges
<1> QED
  BY <1>1, <1>2, <1>3, <1>4, <1>5, <1>6, <1>7, <1>8, <1>9, <1>10, <1>11, <1>12,
     <1>13, <1>14, <1>15, <1>16

-----------------------------------------------------------------------------
LEMMA Moves ==
  ASSUME DiskInv, NEW j \in Jobs, NEW job, IsJob(job), Goto(j, job)
  PROVE  /\ jobs' = [i \in Jobs |-> jobs'[i]] /\ \A i \in Jobs : IsJob(jobs'[i])
         /\ jobs'[j].todo = job.todo /\ \A i \in Jobs : i # j => jobs'[i] = jobs[i]
<1>1. IsJob(NoJob) /\ NoJob.todo = << >>
  BY CarefulPieces DEF IsJob, NoJob
<1> DEFINE to == IF job.todo = << >> THEN NoJob ELSE job
<1>2. IsJob(to) /\ to.todo = job.todo
  BY <1>1
<1>3. jobs' = [i \in Jobs |-> IF i = j THEN to ELSE jobs[i]]
  BY DEF Goto, DiskInv
<1> HIDE DEF to
<1> QED
  BY <1>2, <1>3 DEF DiskInv

LEMMA CarefulLater ==
  ASSUME NEW todo, Careful(todo), todo # << >>, Head(todo) # "fetch"
  PROVE  Careful(Tail(todo))
  BY CoveredLater DEF Careful

(* A section takes a save off only by doing it, and what it changes the     *)
(* rest of its job saves.                                                  *)
LEMMA OwedStays ==
  ASSUME DiskInv, NEW j \in Jobs, NEW job, IsJob(job), Goto(j, job),
         NEW section, Now(j, section),
         section \notin Aborting => job.todo = Tail(jobs[j].todo),
         NEW save, Owed(save), section # save
  PROVE  Owed(save)'
<1>1. jobs'[j].todo = job.todo /\ \A i \in Jobs : i # j => jobs'[i] = jobs[i]
  BY Moves
<1>2. jobs[j].todo \in Seq(Steps) /\ jobs[j].todo # << >> /\ Head(jobs[j].todo) = section
  BY DEF DiskInv, IsJob, Careful, Now
<1>3. PICK i \in Jobs : Owes(jobs[i].todo, save)
  BY DEF Owed
<1>4. CASE i # j
  BY <1>1, <1>3, <1>4 DEF Owed, Owes
<1>5. CASE i = j
  <2>1. Owes(Tail(jobs[j].todo), save) /\ section \notin Aborting
    BY <1>2, <1>3, <1>5, OwesLater
  <2>2. Owes(jobs'[j].todo, save)
    BY <1>1, <2>1
  <2> QED
    BY <2>2 DEF Owed, Owes
<1> QED
  BY <1>4, <1>5

LEMMA ChangeIsOwed ==
  ASSUME DiskInv, NEW j \in Jobs, NEW job, IsJob(job), Goto(j, job),
         jobs[j].todo # << >>, job.todo = Tail(jobs[j].todo),
         NEW changes, Head(jobs[j].todo) \in changes,
         NEW save, Covered(jobs[j].todo, changes, save)
  PROVE  Owed(save)'
<1>1. jobs'[j].todo = job.todo
  BY Moves
<1>2. Owes(Tail(jobs[j].todo), save)
  BY CoveredLater DEF DiskInv, IsJob, Careful
<1>3. Owes(jobs'[j].todo, save)
  BY <1>1, <1>2
<1> QED
  BY <1>3 DEF Owed, Owes

LEMMA SectionKeepsDisk ==
  ASSUME DiskInv, NEW j \in Jobs, NEW job, IsJob(job), Goto(j, job),
         NEW section, Now(j, section),
         section \notin Aborting => job.todo = Tail(jobs[j].todo),
         disk' = [servers |-> disk'.servers, subs |-> disk'.subs, ui |-> disk'.ui],
         \/ section = "saveNodes" /\ disk'.servers = nodes'
         \/ section # "saveNodes" /\ disk'.servers = disk.servers /\ nodes' = nodes
         \/ /\ section \in NodeChanges /\ job.todo = Tail(jobs[j].todo)
            /\ disk'.servers = disk.servers,
         \/ section = "saveSubs" /\ disk'.subs = subs'
         \/ section # "saveSubs" /\ disk'.subs = disk.subs /\ subs' = subs
         \/ /\ section \in SubChanges /\ job.todo = Tail(jobs[j].todo)
            /\ disk'.subs = disk.subs,
         \/ section = "saveUi" /\ disk'.ui = active'
         \/ section # "saveUi" /\ disk'.ui = disk.ui /\ active' = active
         \/ /\ section \in PinChanges /\ job.todo = Tail(jobs[j].todo)
            /\ disk'.ui = disk.ui
  PROVE  DiskInv'
<1>1. "saveNodes" \notin NodeChanges /\ "saveSubs" \notin SubChanges /\ "saveUi" \notin PinChanges
  BY DEF NodeChanges, SubChanges, PinChanges
<1>2. Careful(jobs[j].todo)
  BY DEF DiskInv, IsJob
<1>3. jobs[j].todo # << >> /\ Head(jobs[j].todo) = section
  BY DEF Now
<1>4. disk'.servers = nodes' \/ Owed("saveNodes")'
  <2>1. section \in NodeChanges /\ job.todo = Tail(jobs[j].todo) => Owed("saveNodes")'
    BY <1>2, <1>3, ChangeIsOwed DEF Careful
  <2>2. section # "saveNodes" /\ Owed("saveNodes") => Owed("saveNodes")'
    BY OwedStays
  <2> QED
    BY <1>1, <2>1, <2>2 DEF DiskInv
<1>5. disk'.subs = subs' \/ Owed("saveSubs")'
  <2>1. section \in SubChanges /\ job.todo = Tail(jobs[j].todo) => Owed("saveSubs")'
    BY <1>2, <1>3, ChangeIsOwed DEF Careful
  <2>2. section # "saveSubs" /\ Owed("saveSubs") => Owed("saveSubs")'
    BY OwedStays
  <2> QED
    BY <1>1, <2>1, <2>2 DEF DiskInv
<1>6. disk'.ui = active' \/ Owed("saveUi")'
  <2>1. section \in PinChanges /\ job.todo = Tail(jobs[j].todo) => Owed("saveUi")'
    BY <1>2, <1>3, ChangeIsOwed DEF Careful
  <2>2. section # "saveUi" /\ Owed("saveUi") => Owed("saveUi")'
    BY OwedStays
  <2> QED
    BY <1>1, <2>1, <2>2 DEF DiskInv
<1> QED
  BY <1>4, <1>5, <1>6, Moves DEF DiskInv

LEMMA Failings ==
  ASSUME NEW j
  PROVE  Careful(Failing(j)) /\ Careful(Tail(Failing(j)))
<1>1. Tail(<<"saveSubs", "giveBack", "saveSubs">>) = <<"giveBack", "saveSubs">>
      /\ Tail(<<"saveSubs">>) = << >>
  OBVIOUS
<1> QED
  BY <1>1, CarefulPieces DEF Failing

LEMMA CarefulPlans ==
  Careful(EmitNodes) /\ Careful(MergeSections) /\ Careful(RefreshSections)
  /\ Careful(DeleteSections)
  BY CarefulPieces, CarefulCat DEF EmitNodes, MergeSections, RefreshSections, DeleteSections

LEMMA SectionDisk ==
  ASSUME DiskInv, NEW j \in Jobs, Section(j)
  PROVE  DiskInv'
<1> DEFINE todo == jobs[j].todo
           section == Head(todo)
           job(t, a) == [todo |-> t, sub |-> jobs[j].sub, arg |-> a]
<1> SUFFICES ASSUME Now(j, section), todo # << >> PROVE DiskInv'
  BY DEF Section, PushNodes, LookFree, PushSub, LookUp, Fetch, GiveBack, Merge, DropSub, DropNodes,
         DropNode, Replace, PinActive, SortNodes, SortSubs, Reflow, Pick, ResolveShown, Show,
         SaveNodes, SaveSubs, SaveUi, Now
<1>1. disk = [servers |-> disk.servers, subs |-> disk.subs, ui |-> disk.ui]
  BY DEF DiskInv
<1>2. \A t, a : Careful(t) => IsJob(job(t, a)) /\ job(t, a).todo = t
  BY DEF IsJob
<1>3. section # "fetch" => Careful(Tail(todo))
  BY CarefulLater DEF DiskInv, IsJob
<1>4. IsJob(NoJob)
  BY CarefulPieces DEF IsJob, NoJob
<1> USE DEF Now
<1>5. CASE PushNodes(j)
  <2> DEFINE next == job(Tail(todo), jobs[j].arg)
  <2>1. section = "push" /\ Goto(j, next)
    BY <1>5 DEF PushNodes, Advance, AdvanceWith, GoOn
  <2>2. IsJob(next) /\ next.todo = Tail(todo)
    BY <1>2, <1>3, <2>1
  <2> HIDE DEF next
  <2> QED
    BY <1>1, <1>5, <2>1, <2>2, SectionKeepsDisk
    DEF PushNodes, lists, bounds, NodeChanges, SubChanges, PinChanges, Aborting
<1>6. CASE PushSub(j)
  <2> DEFINE next == job(Tail(todo), jobs[j].arg)
  <2>1. section = "pushSub" /\ Goto(j, next)
    BY <1>6 DEF PushSub, Advance, AdvanceWith, GoOn
  <2>2. IsJob(next) /\ next.todo = Tail(todo)
    BY <1>2, <1>3, <2>1
  <2> HIDE DEF next
  <2> QED
    BY <1>1, <1>6, <2>1, <2>2, SectionKeepsDisk
    DEF PushSub, lists, bounds, NodeChanges, SubChanges, PinChanges, Aborting
<1>7. CASE GiveBack(j)
  <2> DEFINE next == job(Tail(todo), jobs[j].arg)
  <2>1. section = "giveBack" /\ Goto(j, next)
    BY <1>7 DEF GiveBack, Advance, AdvanceWith, GoOn
  <2>2. IsJob(next) /\ next.todo = Tail(todo)
    BY <1>2, <1>3, <2>1
  <2> HIDE DEF next
  <2> QED
    BY <1>1, <1>7, <2>1, <2>2, SectionKeepsDisk
    DEF GiveBack, lists, bounds, NodeChanges, SubChanges, PinChanges, Aborting
<1>8. CASE Merge(j)
  <2> DEFINE next == job(Tail(todo), jobs[j].arg)
  <2>1. section = "merge" /\ Goto(j, next)
    BY <1>8 DEF Merge, Advance, AdvanceWith, GoOn
  <2>2. IsJob(next) /\ next.todo = Tail(todo)
    BY <1>2, <1>3, <2>1
  <2> HIDE DEF next
  <2> QED
    BY <1>1, <1>8, <2>1, <2>2, SectionKeepsDisk
    DEF Merge, lists, bounds, NodeChanges, SubChanges, PinChanges, Aborting
<1>9. CASE DropSub(j)
  <2> DEFINE next == job(Tail(todo), jobs[j].arg)
  <2>1. section = "dropSub" /\ Goto(j, next)
    BY <1>9 DEF DropSub, Advance, AdvanceWith, GoOn
  <2>2. IsJob(next) /\ next.todo = Tail(todo)
    BY <1>2, <1>3, <2>1
  <2> HIDE DEF next
  <2> QED
    BY <1>1, <1>9, <2>1, <2>2, SectionKeepsDisk
    DEF DropSub, lists, bounds, NodeChanges, SubChanges, PinChanges, Aborting
<1>10. CASE DropNodes(j)
  <2> DEFINE next == job(Tail(todo), jobs[j].arg)
  <2>1. section = "dropNodes" /\ Goto(j, next)
    BY <1>10 DEF DropNodes, Advance, AdvanceWith, GoOn
  <2>2. IsJob(next) /\ next.todo = Tail(todo)
    BY <1>2, <1>3, <2>1
  <2> HIDE DEF next
  <2> QED
    BY <1>1, <1>10, <2>1, <2>2, SectionKeepsDisk
    DEF DropNodes, lists, bounds, NodeChanges, SubChanges, PinChanges, Aborting
<1>11. CASE DropNode(j)
  <2> DEFINE next == job(Tail(todo), jobs[j].arg)
  <2>1. section = "dropNode" /\ Goto(j, next)
    BY <1>11 DEF DropNode, Advance, AdvanceWith, GoOn
  <2>2. IsJob(next) /\ next.todo = Tail(todo)
    BY <1>2, <1>3, <2>1
  <2> HIDE DEF next
  <2> QED
    BY <1>1, <1>11, <2>1, <2>2, SectionKeepsDisk
    DEF DropNode, lists, bounds, NodeChanges, SubChanges, PinChanges, Aborting
<1>12. CASE PinActive(j)
  <2> DEFINE next == job(Tail(todo), jobs[j].arg)
  <2>1. section = "pin" /\ Goto(j, next)
    BY <1>12 DEF PinActive, Advance, AdvanceWith, GoOn
  <2>2. IsJob(next) /\ next.todo = Tail(todo)
    BY <1>2, <1>3, <2>1
  <2> HIDE DEF next
  <2> QED
    BY <1>1, <1>12, <2>1, <2>2, SectionKeepsDisk
    DEF PinActive, lists, bounds, NodeChanges, SubChanges, PinChanges, Aborting
<1>13. CASE SortNodes(j)
  <2> DEFINE next == job(Tail(todo), jobs[j].arg)
  <2>1. section = "sort" /\ Goto(j, next)
    BY <1>13 DEF SortNodes, Advance, AdvanceWith, GoOn
  <2>2. IsJob(next) /\ next.todo = Tail(todo)
    BY <1>2, <1>3, <2>1
  <2> HIDE DEF next
  <2> QED
    BY <1>1, <1>13, <2>1, <2>2, SectionKeepsDisk
    DEF SortNodes, lists, bounds, NodeChanges, SubChanges, PinChanges, Aborting
<1>14. CASE SortSubs(j)
  <2> DEFINE next == job(Tail(todo), subs')
  <2>1. section = "sortSubs" /\ Goto(j, next)
    BY <1>14 DEF SortSubs, Advance, AdvanceWith, GoOn
  <2>2. IsJob(next) /\ next.todo = Tail(todo)
    BY <1>2, <1>3, <2>1
  <2> HIDE DEF next
  <2> QED
    BY <1>1, <1>14, <2>1, <2>2, SectionKeepsDisk
    DEF SortSubs, lists, bounds, NodeChanges, SubChanges, PinChanges, Aborting
<1>15. CASE Reflow(j)
  <2> DEFINE next == job(Tail(todo), jobs[j].arg)
  <2>1. section = "reflow" /\ Goto(j, next)
    BY <1>15 DEF Reflow, Advance, AdvanceWith, GoOn
  <2>2. IsJob(next) /\ next.todo = Tail(todo)
    BY <1>2, <1>3, <2>1
  <2> HIDE DEF next
  <2> QED
    BY <1>1, <1>15, <2>1, <2>2, SectionKeepsDisk
    DEF Reflow, lists, bounds, NodeChanges, SubChanges, PinChanges, Aborting
<1>16. CASE ResolveShown(j)
  <2> DEFINE next == job(Tail(todo), <<Resolve>>)
  <2>1. section = "resolve" /\ Goto(j, next)
    BY <1>16 DEF ResolveShown, Advance, AdvanceWith, GoOn
  <2>2. IsJob(next) /\ next.todo = Tail(todo)
    BY <1>2, <1>3, <2>1
  <2> HIDE DEF next
  <2> QED
    BY <1>1, <1>16, <2>1, <2>2, SectionKeepsDisk
    DEF ResolveShown, lists, bounds, NodeChanges, SubChanges, PinChanges, Aborting
<1>17. CASE Show(j)
  <2> DEFINE next == job(Tail(todo), jobs[j].arg)
  <2>1. section = "show" /\ Goto(j, next)
    BY <1>17 DEF Show, Advance, AdvanceWith, GoOn
  <2>2. IsJob(next) /\ next.todo = Tail(todo)
    BY <1>2, <1>3, <2>1
  <2> HIDE DEF next
  <2> QED
    BY <1>1, <1>17, <2>1, <2>2, SectionKeepsDisk
    DEF Show, lists, bounds, NodeChanges, SubChanges, PinChanges, Aborting
<1>18. CASE SaveNodes(j)
  <2> DEFINE next == job(Tail(todo), jobs[j].arg)
  <2>1. section = "saveNodes" /\ Goto(j, next)
    BY <1>18 DEF SaveNodes, Advance, AdvanceWith, GoOn
  <2>2. IsJob(next) /\ next.todo = Tail(todo)
    BY <1>2, <1>3, <2>1
  <2> HIDE DEF next
  <2> QED
    BY <1>1, <1>18, <2>1, <2>2, SectionKeepsDisk
    DEF SaveNodes, lists, bounds, NodeChanges, SubChanges, PinChanges, Aborting
<1>19. CASE SaveSubs(j)
  <2> DEFINE next == job(Tail(todo), jobs[j].arg)
  <2>1. section = "saveSubs" /\ Goto(j, next)
    BY <1>19 DEF SaveSubs, Advance, AdvanceWith, GoOn
  <2>2. IsJob(next) /\ next.todo = Tail(todo)
    BY <1>2, <1>3, <2>1
  <2> HIDE DEF next
  <2> QED
    BY <1>1, <1>19, <2>1, <2>2, SectionKeepsDisk
    DEF SaveSubs, lists, bounds, NodeChanges, SubChanges, PinChanges, Aborting
<1>20. CASE SaveUi(j)
  <2> DEFINE next == job(Tail(todo), jobs[j].arg)
  <2>1. section = "saveUi" /\ Goto(j, next)
    BY <1>20 DEF SaveUi, Advance, AdvanceWith, GoOn
  <2>2. IsJob(next) /\ next.todo = Tail(todo)
    BY <1>2, <1>3, <2>1
  <2> HIDE DEF next
  <2> QED
    BY <1>1, <1>20, <2>1, <2>2, SectionKeepsDisk
    DEF SaveUi, lists, bounds, NodeChanges, SubChanges, PinChanges, Aborting
<1>21. CASE LookFree(j)
  <2>0. section = "lookFree" /\ UNCHANGED <<nodes, subs, active, disk>>
    BY <1>21 DEF LookFree, lists
  <2>1. CASE Advance(j)
    <3> DEFINE next == job(Tail(todo), jobs[j].arg)
    <3>1. Goto(j, next) /\ IsJob(next) /\ next.todo = Tail(todo)
      BY <1>2, <1>3, <2>0, <2>1 DEF Advance, AdvanceWith, GoOn
    <3> HIDE DEF next
    <3> QED
      BY <1>1, <2>0, <3>1, SectionKeepsDisk DEF Aborting, NodeChanges, PinChanges
  <2>2. ASSUME NEW s, Goto(j, [todo |-> RefreshSections, sub |-> s, arg |-> << >>])
        PROVE  DiskInv'
    <3>1. IsJob([todo |-> RefreshSections, sub |-> s, arg |-> << >>])
      BY CarefulPlans DEF IsJob
    <3> QED
      BY <1>1, <2>0, <2>2, <3>1, SectionKeepsDisk DEF Aborting
  <2> QED
    BY <1>21, <2>1, <2>2 DEF LookFree
<1>22. CASE LookUp(j)
  <2>0. section = "lookUp" /\ UNCHANGED <<nodes, subs, active, disk>>
    BY <1>22 DEF LookUp, lists
  <2>1. CASE Advance(j)
    <3> DEFINE next == job(Tail(todo), jobs[j].arg)
    <3>1. Goto(j, next) /\ IsJob(next) /\ next.todo = Tail(todo)
      BY <1>2, <1>3, <2>0, <2>1 DEF Advance, AdvanceWith, GoOn
    <3> HIDE DEF next
    <3> QED
      BY <1>1, <2>0, <3>1, SectionKeepsDisk DEF Aborting, NodeChanges, PinChanges
  <2>2. CASE GoOn(j, Tail(Failing(j)), << >>)
    <3> DEFINE next == job(Tail(Failing(j)), << >>)
    <3>1. Goto(j, next) /\ IsJob(next)
      BY <1>2, Failings, <2>0, <2>2 DEF GoOn
    <3> HIDE DEF next
    <3> QED
      BY <1>1, <2>0, <3>1, SectionKeepsDisk DEF Aborting, NodeChanges, PinChanges
  <2> QED
    BY <1>22, <2>1, <2>2 DEF LookUp
<1>23. CASE Fetch(j)
  <2>0. section = "fetch" /\ UNCHANGED <<nodes, subs, active, disk>>
    BY <1>23 DEF Fetch, lists
  <2>1. ASSUME NEW served, GoOn(j, MergeSections, served)
        PROVE  DiskInv'
    <3> DEFINE next == job(MergeSections, served)
    <3>1. Goto(j, next) /\ IsJob(next)
      BY <1>2, <2>1, CarefulPlans DEF GoOn
    <3> HIDE DEF next
    <3> QED
      BY <1>1, <2>0, <3>1, SectionKeepsDisk DEF Aborting
  <2>2. CASE GoOn(j, Failing(j), << >>)
    <3> DEFINE next == job(Failing(j), << >>)
    <3>1. Goto(j, next) /\ IsJob(next)
      BY <1>2, Failings, <2>0, <2>2 DEF GoOn
    <3> HIDE DEF next
    <3> QED
      BY <1>1, <2>0, <3>1, SectionKeepsDisk DEF Aborting, NodeChanges, PinChanges
  <2> QED
    BY <1>23, <2>1, <2>2 DEF Fetch
<1>24. CASE Replace(j)
  <2>0. section = "replace" /\ UNCHANGED <<subs, active, disk>>
    BY <1>24 DEF Replace, lists
  <2>1. CASE Advance(j)
    <3> DEFINE next == job(Tail(todo), jobs[j].arg)
    <3>1. Goto(j, next) /\ IsJob(next) /\ next.todo = Tail(todo)
      BY <1>2, <1>3, <2>0, <2>1 DEF Advance, AdvanceWith, GoOn
    <3> HIDE DEF next
    <3> QED
      BY <1>1, <2>0, <3>1, SectionKeepsDisk DEF Aborting, NodeChanges, PinChanges
  <2>2. CASE UNCHANGED nodes /\ Goto(j, NoJob)
    BY <1>1, <1>4, <2>0, <2>2, SectionKeepsDisk DEF Aborting
  <2> QED
    BY <1>24, <2>1, <2>2 DEF Replace
<1>25. CASE Pick(j)
  <2>0. section = "pick" /\ UNCHANGED <<nodes, subs, disk>>
    BY <1>25 DEF Pick, lists
  <2>1. CASE Advance(j)
    <3> DEFINE next == job(Tail(todo), jobs[j].arg)
    <3>1. Goto(j, next) /\ IsJob(next) /\ next.todo = Tail(todo)
      BY <1>2, <1>3, <2>0, <2>1 DEF Advance, AdvanceWith, GoOn
    <3> HIDE DEF next
    <3> QED
      BY <1>1, <2>0, <3>1, SectionKeepsDisk DEF Aborting, NodeChanges, PinChanges
  <2>2. CASE UNCHANGED active /\ Goto(j, NoJob)
    BY <1>1, <1>4, <2>0, <2>2, SectionKeepsDisk DEF Aborting
  <2> QED
    BY <1>25, <2>1, <2>2 DEF Pick
<1> QED
  BY <1>5, <1>6, <1>7, <1>8, <1>9, <1>10, <1>11, <1>12, <1>13, <1>14,
     <1>15, <1>16, <1>17, <1>18, <1>19, <1>20, <1>21, <1>22, <1>23, <1>24, <1>25
  DEF Section

(* A command that begins owes nothing yet and takes nothing from the others.*)
LEMMA StartDisk ==
  ASSUME DiskInv, NEW j \in Jobs, NEW todo, Careful(todo), NEW sub, NEW arg,
         Start(j, todo, sub, arg)
  PROVE  DiskInv'
<1> DEFINE job == [todo |-> todo, sub |-> sub, arg |-> arg]
<1>1. IsJob(job)
  BY DEF IsJob
<1> HIDE DEF job
<1>2. jobs' = [i \in Jobs |-> IF i = j THEN job ELSE jobs[i]]
  BY DEF job, Start, DiskInv
<1>3. jobs' = [i \in Jobs |-> jobs'[i]] /\ \A i \in Jobs : IsJob(jobs'[i])
  BY <1>1, <1>2 DEF DiskInv
<1>4. \A i \in Jobs : jobs'[i] # jobs[i] => jobs[i].todo = << >>
  BY <1>2 DEF Start, NoJob
<1>5. ASSUME NEW save, Owed(save)
      PROVE  Owed(save)'
  <2>1. PICK i \in Jobs : Owes(jobs[i].todo, save)
    BY <1>5 DEF Owed
  <2>2. jobs'[i] = jobs[i]
    <3>1. ASSUME jobs[i].todo = << >> PROVE FALSE
      BY <2>1, <3>1 DEF Owes
    <3> QED
      BY <1>4, <3>1
  <2>3. Owes(jobs'[i].todo, save)
    BY <2>1, <2>2
  <2> QED
    BY <2>3 DEF Owed, Owes
<1>6. /\ Owed("saveNodes") => Owed("saveNodes")'
      /\ Owed("saveSubs") => Owed("saveSubs")'
      /\ Owed("saveUi") => Owed("saveUi")'
  BY <1>5
<1> QED
  BY <1>3, <1>6 DEF Start, lists, DiskInv

LEMMA CommandDisk ==
  ASSUME DiskInv, NEW j \in Jobs, Command(j)
  PROVE  DiskInv'
<1>1. /\ Careful(<<"push", "saveNodes">> \o EmitNodes)
      /\ Careful(<<"pushSub", "saveSubs">> \o RefreshSections)
      /\ Careful(<<"dropNode", "saveNodes", "saveUi">> \o EmitNodes)
      /\ Careful(<<"replace", "saveNodes">> \o EmitNodes)
      /\ Careful(<<"pin", "saveUi", "sort", "saveNodes">> \o EmitNodes)
      /\ Careful(<<"pin", "saveUi", "sortSubs", "reflow", "saveSubs", "saveNodes">> \o EmitNodes)
  BY CarefulPieces, CarefulPlans, CarefulCat
<1>2. Careful(<<"lookFree", "pushSub", "saveSubs">> \o RefreshSections \o <<"giveBack">>)
  <2> DEFINE first == <<"lookFree", "pushSub", "saveSubs">>
             s == first \o RefreshSections
  <2>1. Careful(s) /\ Careful(first)
    BY CarefulPieces, CarefulPlans, CarefulCat
  <2>2. Careful(MergeSections) /\ Careful(<<"lookUp", "fetch">>) /\ <<"giveBack">> \in Seq(Steps)
    BY CarefulPieces, CarefulPlans, StepNames, TupleInSeq
  <2>3. /\ RefreshSections \in Seq(Steps) /\ RefreshSections[2] = "fetch"
        /\ 2 \in 1..Len(RefreshSections)
    BY <2>2, ConcatProperties DEF RefreshSections, Careful
  <2>4. Len(first) = 3
    OBVIOUS
  <2> HIDE DEF first
  <2>5. s[5] = "fetch" /\ 5 \in 1..Len(s)
    <3>1. /\ first \in Seq(Steps) /\ s \in Seq(Steps) /\ Len(s) = 3 + Len(RefreshSections)
          /\ \A k \in 1..Len(RefreshSections) : s[3 + k] = RefreshSections[k]
      <4>1. first \in Seq(Steps)
        BY <2>1 DEF Careful
      <4>2. /\ s \in Seq(Steps) /\ Len(s) = Len(first) + Len(RefreshSections)
            /\ \A k \in 1..Len(RefreshSections) : s[Len(first) + k] = RefreshSections[k]
        BY <2>3, <4>1, ConcatProperties
      <4> QED
        BY <2>4, <4>1, <4>2
    <3> HIDE DEF s
    <3>2. Len(RefreshSections) \in Nat /\ Len(RefreshSections) > 1
      BY <2>3
    <3>3. 5 \in 1..Len(s)
      BY <3>1, <3>2
    <3>4. s[3 + 2] = "fetch"
      BY <2>3, <3>1
    <3>5. s[5] = "fetch"
      BY <3>4
    <3> QED
      BY <3>3, <3>5
  <2> QED
    BY <2>1, <2>2, <2>5, CarefulMarked DEF first
<1>3. CASE AddLinks(j)
  BY <1>3, <1>1, StartDisk DEF AddLinks
<1>4. CASE AddSubscription(j)
  BY <1>4, <1>1, StartDisk DEF AddSubscription
<1>5. CASE AddFreePool(j)
  BY <1>5, <1>2, StartDisk DEF AddFreePool
<1>6. CASE Refresh(j)
  BY <1>6, CarefulPlans, StartDisk DEF Refresh
<1>7. CASE DeleteSubscription(j)
  BY <1>7, CarefulPlans, StartDisk DEF DeleteSubscription
<1>8. CASE DeleteServer(j)
  BY <1>8, <1>1, StartDisk DEF DeleteServer
<1>9. CASE UpdateServer(j)
  BY <1>9, <1>1, StartDisk DEF UpdateServer
<1>10. CASE ReorderServers(j)
  BY <1>10, <1>1, StartDisk DEF ReorderServers
<1>11. CASE ReorderSubscriptions(j)
  BY <1>11, <1>1, StartDisk DEF ReorderSubscriptions
<1>12. CASE SetActiveServer(j)
  BY <1>12, CarefulPieces, StartDisk DEF SetActiveServer
<1> QED
  BY <1>3, <1>4, <1>5, <1>6, <1>7, <1>8, <1>9, <1>10, <1>11, <1>12 DEF Command

LEMMA InitiallyOnDisk == ListsInit => DiskInv
<1> SUFFICES ASSUME ListsInit PROVE DiskInv
  OBVIOUS
<1>1. disk \in [servers : Seq([id : Ids, sub : SubIds \cup {Own}, print : Prints]),
                subs : Seq(SubIds), ui : Ids \cup {NoId}]
  BY ListsAssumption DEF ListsInit
<1>2. IsJob(NoJob)
  BY CarefulPieces DEF IsJob, NoJob
<1> QED
  BY <1>1, <1>2 DEF ListsInit, DiskInv

LEMMA RestartDisk == DiskInv /\ Restart => DiskInv'
<1>1. IsJob(NoJob)
  BY CarefulPieces DEF IsJob, NoJob
<1> QED
  BY <1>1 DEF Restart, DiskInv

LEMMA DiskStep == DiskInv /\ [ListsNext]_listsVars => DiskInv'
<1>1. ASSUME DiskInv, UNCHANGED listsVars PROVE DiskInv'
  BY <1>1 DEF DiskInv, Owed, listsVars, lists
<1> QED
  BY <1>1, RestartDisk, SectionDisk, CommandDisk DEF ListsNext

LEMMA DiskAtRest == DiskInv => DiskCatchesUp
<1> SUFFICES ASSUME DiskInv, Quiet PROVE disk = [servers |-> nodes, subs |-> subs, ui |-> active]
  BY DEF DiskCatchesUp
<1>1. ASSUME NEW save PROVE ~Owed(save)
  BY DEF Owed, Owes, Quiet, NoJob
<1> QED
  BY <1>1 DEF DiskInv

(* At rest the files say what memory says, whatever commands overlapped and *)
(* whichever failed on the way, and after a kill besides.                  *)
THEOREM FilesCatchUp == ListsSpec => []DiskCatchesUp
<1>1. ListsInit => DiskInv
  BY InitiallyOnDisk
<1>2. DiskInv /\ [ListsNext]_listsVars => DiskInv'
  BY DiskStep
<1>3. DiskInv => DiskCatchesUp
  BY DiskAtRest
<1> QED
  BY <1>1, <1>2, <1>3, PTL DEF ListsSpec
=============================================================================
