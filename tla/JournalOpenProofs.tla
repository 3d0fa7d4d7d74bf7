-------------------------- MODULE JournalOpenProofs --------------------------
(* Theorems about the opening of the audit journal, whatever the settings   *)
(* hold and whoever changes its place between the system calls.             *)
EXTENDS JournalOpen, SequenceTheorems, TLAPS

-----------------------------------------------------------------------------
(* The candidates.                                                          *)

(* There are one or two, and /tmp is the last unless the operator chose.    *)
LEMMA CandidateList ==
  /\ Candidates \in Seq(Places) /\ Len(Candidates) \in {1, 2}
  /\ Explicit => Len(Candidates) = 1 /\ Candidates[1] = "explicit"
  /\ ~Explicit =>
       /\ Candidates[Len(Candidates)] = "tmp"
       /\ Len(Candidates) = 2 => Candidates[1] \in {"xdg", "home"}
       /\ "absolute" \in {config.xdg, config.home} => Len(Candidates) = 2
<1>1. CASE Explicit
  BY <1>1 DEF Candidates, Places
<1>2. CASE ~Explicit
  <2>1. Candidates = StatePath \o <<"tmp">>
    BY <1>2 DEF Candidates
  <2>2. CASE "absolute" \in {config.xdg, config.home}
    <3>1. PICK p \in {"xdg", "home"} : StatePath = <<p>>
      BY <2>2 DEF StatePath
    <3>2. /\ <<p>> \in Seq(Places) /\ Len(<<p>>) = 1 /\ <<p>>[1] = p
          /\ <<"tmp">> \in Seq(Places) /\ Len(<<"tmp">>) = 1 /\ <<"tmp">>[1] = "tmp"
      BY DEF Places
    <3>3. /\ Len(Candidates) = 2 /\ Candidates[1] = p /\ Candidates[2] = "tmp"
          /\ Candidates \in Seq(Places)
      BY <2>1, <3>1, <3>2, ConcatProperties
    <3> QED BY <1>2, <2>2, <3>3
  <2>3. CASE "absolute" \notin {config.xdg, config.home}
    <3>1. StatePath = <<>>
      BY <2>3 DEF StatePath
    <3>2. Candidates = <<"tmp">>
      BY <2>1, <3>1
    <3>3. /\ Len(Candidates) = 1 /\ Candidates[1] = "tmp"
          /\ Candidates \in Seq(Places)
      BY <3>2 DEF Places
    <3> QED BY <1>2, <2>3, <3>3
  <2> QED BY <2>2, <2>3
<1> QED BY <1>1, <1>2

(* They depend on the environment alone.                                    *)
LEMMA CandidatesStay == UNCHANGED config => Candidates' = Candidates
BY DEF Candidates, Explicit, StatePath

-----------------------------------------------------------------------------
(* Types.                                                                   *)

LEMMA Constants ==
  /\ Private \in Dirs /\ Fresh \in Files /\ NoDir \notin Dirs /\ NoFile \notin Files
  /\ NoDir.kind = "absent" /\ NoFile.kind = "absent"
  /\ Usable \in BOOLEAN
BY DEF Private, Dirs, Fresh, Files, NoDir, NoFile, Usable

(* An error leads to the next candidate or to degraded mode.                *)
LEMMA FailKeepsTypes ==
  ASSUME TypeOK, NEW why, NEW unsafe \in BOOLEAN, NEW denied \in BOOLEAN,
         Fail(why, unsafe, denied)
  PROVE  TypeOK'
<1>1. Candidates' = Candidates /\ Len(Candidates) \in Nat
  BY CandidatesStay, CandidateList DEF Fail
<1>2. logged' \in Seq(Entries)
  <2>1. [level |-> Level(why), unsafe |-> unsafe, denied |-> denied, usable |-> usable] \in Entries
    BY DEF TypeOK, Entries, Level
  <2> QED BY <2>1, AppendProperties DEF Fail, TypeOK
<1>3. CASE turn < Len(Candidates)
  <2>1. turn' \in 1..Len(Candidates) /\ step' = "prepare"
    BY <1>1, <1>3 DEF Fail, TypeOK
  <2>2. /\ access' \in Access /\ dir' \in Dirs \cup {NoDir}
        /\ file' \in Files \cup {NoFile} /\ usable' \in BOOLEAN
    <3>1. turn # Len(Candidates)
      BY <1>1, <1>3 DEF TypeOK
    <3> QED BY <3>1 DEF Fail, Usable
  <2> QED BY <1>1, <1>2, <2>1, <2>2 DEF Fail, TypeOK, Steps, Calls
<1>4. CASE turn = Len(Candidates)
  <2>1. step' = "degraded" /\ UNCHANGED <<turn, access, dir, file, usable>>
    BY <1>4 DEF Fail, world
  <2> QED BY <1>1, <1>2, <2>1 DEF Fail, TypeOK, Steps
<1> QED BY <1>1, <1>3, <1>4 DEF TypeOK

(* A call that succeeds leaves an entry behind that is one.                 *)
LEMMA ProceedKeepsTypes ==
  ASSUME TypeOK, NEW s \in Steps, Proceed(s), dir' \in Dirs \cup {NoDir},
         file' \in Files \cup {NoFile}, fd' \in Files \cup {NoFile}, same' \in BOOLEAN
  PROVE  TypeOK'
<1>1. Candidates' = Candidates
  BY CandidatesStay DEF Proceed
<1>2. usable' \in BOOLEAN
  BY DEF Proceed, TypeOK, Usable
<1> QED BY <1>1, <1>2 DEF Proceed, TypeOK

(* What the others do.                                                      *)
LEMMA OthersKeepTypes ==
  ASSUME TypeOK, OthersChangeDir \/ OthersChangeFile \/ SiblingCreates
  PROVE  TypeOK'
<1>1. Candidates' = Candidates /\ usable' \in BOOLEAN
      /\ UNCHANGED <<config, turn, step, access, fd, logged>>
  BY CandidatesStay DEF OthersChangeDir, OthersChangeFile, SiblingCreates, Changes, TypeOK, Usable
<1>2. /\ dir' \in Dirs \cup {NoDir} /\ file' \in Files \cup {NoFile}
      /\ same' \in BOOLEAN
  BY Constants DEF OthersChangeDir, OthersChangeFile, SiblingCreates, TypeOK
<1> QED BY <1>1, <1>2 DEF TypeOK
(* Every step keeps the types.                                              *)
LEMMA TypeStep == TypeOK /\ [Next]_vars => TypeOK'
<1> SUFFICES ASSUME TypeOK, [Next]_vars PROVE TypeOK'
  OBVIOUS
<1> USE Constants
<1>1. ASSUME NEW why, NEW unsafe \in BOOLEAN, NEW denied \in BOOLEAN, Fail(why, unsafe, denied)
      PROVE  TypeOK'
  BY <1>1, FailKeepsTypes
<1>2. CASE Unavailable
  BY <1>1, <1>2 DEF Unavailable
<1>3. ASSUME NEW s \in Steps, Proceed(s), UNCHANGED <<dir, file, fd, same>>
      PROVE  TypeOK'
  BY <1>3, ProceedKeepsTypes DEF TypeOK
<1>4. ASSUME NEW s \in Steps, Proceed(s), dir' = Private, UNCHANGED <<file, fd, same>>
      PROVE  TypeOK'
  BY <1>4, ProceedKeepsTypes DEF TypeOK
<1>5. ASSUME NEW f \in Files, Returns(f) PROVE TypeOK'
  BY <1>5, ProceedKeepsTypes DEF Returns, TypeOK, Steps, Calls
<1> USE DEF Steps, Calls
<1>6. CASE MakeStrict
  BY <1>2, <1>3, <1>4, <1>6 DEF MakeStrict
<1>7. CASE CheckDir
  BY <1>1, <1>2, <1>3, <1>7 DEF CheckDir
<1>8. CASE LookUp
  BY <1>2, <1>3, <1>8 DEF LookUp
<1>9. CASE MakeAll
  BY <1>2, <1>3, <1>4, <1>9 DEF MakeAll
<1>10. CASE OpenNothing
  BY <1>2, <1>5, <1>10 DEF OpenNothing
<1>11. CASE OpenRegular \/ OpenSpecial
  <2>1. file \in Files
    BY <1>11 DEF OpenRegular, OpenSpecial, TypeOK
  <2>2. Unsafe(file) \in BOOLEAN
    BY DEF Unsafe
  <2> QED BY <1>1, <1>5, <1>11, <2>1, <2>2 DEF OpenRegular, OpenSpecial
<1>12. CASE OpenOther
  BY <1>1, <1>12 DEF OpenOther
<1>13. CASE Fstat
  BY <1>1, <1>3, <1>13 DEF Fstat
<1>14. CASE Chmod
  BY <1>2, <1>3, <1>14 DEF Chmod
<1>15. CASE UNCHANGED vars
  BY <1>15, CandidatesStay DEF vars, TypeOK
<1> QED BY <1>6, <1>7, <1>8, <1>9, <1>10, <1>11, <1>12, <1>13, <1>14, <1>15, OthersKeepTypes
        DEF Next, Server

LEMMA TypeInit == Init => TypeOK
<1> SUFFICES ASSUME Init PROVE TypeOK
  OBVIOUS
<1>1. turn \in 1..Len(Candidates)
  BY CandidateList DEF Init
<1>2. usable \in BOOLEAN /\ same \in BOOLEAN
  BY DEF Init, Usable
<1>3. logged \in Seq(Entries)
  BY EmptySeq DEF Init
<1> QED BY <1>1, <1>2, <1>3 DEF Init, TypeOK, Steps, Calls
-----------------------------------------------------------------------------
(* What is opened.                                                          *)

(* The descriptor was found safe before it is narrowed, and in /tmp the     *)
(* directory was found private before anything is opened in it; from then   *)
(* on it is nobody else's to change.                                        *)
OpenInv ==
  /\ step \in {"chmod", "opened"} => ~Unsafe(fd)
  /\ step = "check_dir" => Strict
  /\ Strict =>
       /\ step # "mkdir_p"
       /\ step \in {"open", "fstat", "chmod", "opened"} => dir = Private
       /\ step \in {"fstat", "chmod", "opened"} => same

LEMMA OpenStep == TypeOK /\ OpenInv /\ [Next]_vars => OpenInv'
<1> SUFFICES ASSUME TypeOK, OpenInv, [Next]_vars PROVE OpenInv'
  OBVIOUS
<1> USE DEF OpenInv
<1>1. UNCHANGED <<config, turn>> => Strict' = Strict
  BY CandidatesStay DEF Strict, Place
<1>2. ASSUME NEW why, NEW unsafe, NEW denied, Fail(why, unsafe, denied) PROVE OpenInv'
  <2>1. step' \in {"prepare", "degraded"}
    BY <1>2 DEF Fail
  <2> QED BY <2>1
<1>3. CASE Unavailable
  BY <1>2, <1>3 DEF Unavailable
<1>4. CASE MakeStrict
  BY <1>1, <1>3, <1>4 DEF MakeStrict, Proceed
<1>5. CASE CheckDir
  BY <1>1, <1>2, <1>3, <1>5 DEF CheckDir, Proceed
<1>6. CASE LookUp
  BY <1>1, <1>3, <1>6 DEF LookUp, Proceed
<1>7. CASE MakeAll
  BY <1>1, <1>3, <1>7 DEF MakeAll, Proceed
<1>8. ASSUME NEW f, step = "open", Returns(f) PROVE OpenInv'
  BY <1>1, <1>8 DEF Returns, Proceed
<1>9. CASE OpenNothing \/ OpenRegular
  BY <1>2, <1>3, <1>8, <1>9 DEF OpenNothing, OpenRegular
<1>10. CASE OpenSpecial \/ OpenOther
  BY <1>2, <1>8, <1>10 DEF OpenSpecial, OpenOther
<1>11. CASE Fstat
  <2>1. CASE ~Unsafe(fd)
    <3>1. /\ step = "fstat" /\ step' = "chmod"
          /\ UNCHANGED <<config, turn, dir, file, fd, same>>
      BY <1>11, <2>1 DEF Fstat, Proceed, Fail
    <3> QED BY <1>1, <2>1, <3>1 DEF Unsafe
  <2>2. CASE Unsafe(fd)
    BY <1>2, <1>11, <2>2 DEF Fstat
  <2> QED BY <2>1, <2>2
<1>12. CASE Chmod
  BY <1>1, <1>3, <1>12 DEF Chmod, Proceed, Unsafe
<1>13. ASSUME OthersChangeDir \/ OthersChangeFile \/ SiblingCreates
       PROVE  OpenInv'
  <2>1. UNCHANGED <<config, turn, step, fd>>
    BY <1>13 DEF OthersChangeDir, OthersChangeFile, SiblingCreates, Changes
  <2>2. dir = Private => dir' = Private /\ same' = same
    BY <1>13 DEF OthersChangeDir, OthersChangeFile, SiblingCreates, Private, NoDir
  <2> QED BY <1>1, <2>1, <2>2 DEF Unsafe
<1>14. CASE UNCHANGED vars
  BY <1>1, <1>14 DEF vars, Unsafe
<1> QED BY <1>4, <1>5, <1>6, <1>7, <1>9, <1>10, <1>11, <1>12, <1>13, <1>14
        DEF Next, Server

LEMMA OpenAlways == Spec => [](TypeOK /\ OpenInv)
<1>1. Init => OpenInv
  BY DEF Init, OpenInv
<1> QED BY <1>1, TypeInit, TypeStep, OpenStep, PTL DEF Spec

(* Whoever changes the place in the meantime, only a regular file of this   *)
(* user is written to (JournalWriter::open).                                *)
THEOREM JournalIsOurs == Spec => []OpenedIsOurs
<1>1. OpenInv => OpenedIsOurs
  BY DEF OpenInv, OpenedIsOurs, Unsafe
<1> QED BY <1>1, OpenAlways, PTL

(* In /tmp nobody can move the journal away once the directory passed its   *)
(* check (prepare_parent).                                                  *)
THEOREM FallbackIsPrivate == Spec => []FallbackStays
<1>1. OpenInv => FallbackStays
  BY DEF OpenInv, FallbackStays
<1> QED BY <1>1, OpenAlways, PTL

-----------------------------------------------------------------------------
(* What is reported.                                                        *)

ReportInv ==
  /\ Len(logged) = IF step = "degraded" THEN turn ELSE turn - 1
  /\ step = "degraded" => logged[turn].level = "error"
  /\ \A i \in DOMAIN logged :
       logged[i].unsafe /\ ~logged[i].denied => logged[i].level = "error"

(* The server gives a candidate up, as refused if what it met is unsafe and *)
(* the kernel had nothing against it, or it goes on.                        *)
LEMMA ServerCases ==
  ASSUME TypeOK, Server
  PROVE  /\ step \in Calls
         /\ \/ \E why \in {"refused", "unavailable"}, unsafe \in BOOLEAN, denied \in BOOLEAN :
                 Fail(why, unsafe, denied) /\ (unsafe /\ ~denied => why = "refused")
            \/ \E s \in Steps \ {"degraded"} : Proceed(s)
<1> DEFINE GivesUp ==
             \E why \in {"refused", "unavailable"}, unsafe \in BOOLEAN, denied \in BOOLEAN :
               Fail(why, unsafe, denied) /\ (unsafe /\ ~denied => why = "refused")
           GoesOn == \E s \in Steps \ {"degraded"} : Proceed(s)
<1> USE DEF Steps, Calls
<1>1. Fail("refused", TRUE, FALSE) => GivesUp
  OBVIOUS
<1>2. \A b \in BOOLEAN : Fail("unavailable", b, TRUE) => GivesUp
  OBVIOUS
<1>3. Unavailable => GivesUp
  BY DEF Unavailable
<1>4. \A s \in {"check_dir", "mkdir_p", "open", "fstat", "chmod", "opened"} : Proceed(s) => GoesOn
  OBVIOUS
<1>5. \A f : Returns(f) => GoesOn
  BY <1>4 DEF Returns
<1>6. Unsafe(file) \in BOOLEAN
  BY DEF Unsafe
<1> HIDE DEF GivesUp, GoesOn
<1>7. CASE MakeStrict \/ CheckDir \/ LookUp \/ MakeAll
  BY <1>1, <1>3, <1>4, <1>7 DEF MakeStrict, CheckDir, LookUp, MakeAll, GivesUp, GoesOn
<1>8. CASE OpenNothing \/ OpenRegular \/ OpenSpecial \/ OpenOther
  BY <1>1, <1>2, <1>3, <1>5, <1>6, <1>8
     DEF OpenNothing, OpenRegular, OpenSpecial, OpenOther, GivesUp, GoesOn
<1>9. CASE Fstat \/ Chmod
  BY <1>1, <1>3, <1>4, <1>9 DEF Fstat, Chmod, GivesUp, GoesOn
<1> QED BY <1>7, <1>8, <1>9 DEF Server
LEMMA ReportStep == TypeOK /\ ReportInv /\ [Next]_vars => ReportInv'
<1> SUFFICES ASSUME TypeOK, ReportInv, [Next]_vars PROVE ReportInv'
  OBVIOUS
<1>0. turn \in Nat \ {0} /\ logged \in Seq(Entries)
  BY CandidateList DEF TypeOK
<1>1. ASSUME NEW why, NEW unsafe \in BOOLEAN, NEW denied \in BOOLEAN, step \in Calls,
             Fail(why, unsafe, denied), unsafe /\ ~denied => why = "refused"
      PROVE  ReportInv'
  <2> DEFINE e == [level |-> Level(why), unsafe |-> unsafe, denied |-> denied, usable |-> usable]
  <2>1. e \in Entries /\ (unsafe /\ ~denied => e.level = "error")
    BY <1>1 DEF Entries, Level, TypeOK
  <2>2. e.unsafe = unsafe /\ e.denied = denied
        /\ (turn = Len(Candidates) => e.level = "error")
    BY DEF Level
  <2>3. logged' = Append(logged, e)
    BY <1>1 DEF Fail
  <2> HIDE DEF e
  <2>4. Len(logged) = turn - 1
    BY <1>1 DEF ReportInv, Calls
  <2>5. /\ Len(logged') = turn /\ DOMAIN logged' = 1..turn /\ DOMAIN logged = 1..turn - 1
        /\ logged'[turn] = e
        /\ \A i \in 1..turn - 1 : logged'[i] = logged[i]
    BY <1>0, <2>1, <2>3, <2>4, AppendProperties, LenProperties
  <2>6. \A i \in DOMAIN logged' :
          logged'[i].unsafe /\ ~logged'[i].denied => logged'[i].level = "error"
    <3> SUFFICES ASSUME NEW i \in 1..turn, logged'[i].unsafe, ~logged'[i].denied
                 PROVE  logged'[i].level = "error"
      BY <2>5
    <3>1. i \in 1..turn - 1 \/ i = turn
      BY <1>0
    <3> QED BY <2>1, <2>2, <2>5, <3>1 DEF ReportInv
  <2>7. \/ step' = "prepare" /\ turn' = turn + 1
        \/ step' = "degraded" /\ turn' = turn /\ turn = Len(Candidates)
    BY <1>1 DEF Fail
  <2> QED BY <1>0, <2>2, <2>5, <2>6, <2>7 DEF ReportInv
<1>2. ASSUME NEW s \in Steps \ {"degraded"}, step \in Calls, Proceed(s) PROVE ReportInv'
  BY <1>2 DEF Proceed, ReportInv, Calls
<1>3. CASE OthersChangeDir \/ OthersChangeFile \/ SiblingCreates \/ UNCHANGED vars
  <2>1. UNCHANGED <<turn, step, logged>>
    BY <1>3 DEF OthersChangeDir, OthersChangeFile, SiblingCreates, Changes, vars
  <2> QED BY <2>1 DEF ReportInv
<1> QED BY <1>1, <1>2, <1>3, ServerCases DEF Next

LEMMA ReportAlways == Spec => [](TypeOK /\ ReportInv)
<1>1. Init => ReportInv
  BY LenProperties, EmptySeq DEF Init, ReportInv
<1> QED BY <1>1, TypeInit, TypeStep, ReportStep, PTL DEF Spec

(* No candidate is given up silently, going without a journal is an error,  *)
(* and so is meeting what the kernel let pass but this user must not write  *)
(* to (try_open_first, is_refusal).                                         *)
THEOREM RefusalsAreReported == Spec => []GivingUpIsReported
<1>1. ReportInv => GivingUpIsReported
  BY DEF ReportInv, GivingUpIsReported
<1> QED BY <1>1, ReportAlways, PTL

(* The journal is where the operator put it or nowhere; without a choice of *)
(* theirs it is in /tmp only after the state directory was given up         *)
(* (resolve_journal_paths, try_open_first).                                 *)
THEOREM JournalIsWhereItBelongs == Spec => []Whereabouts
<1>1. ASSUME TypeOK, ReportInv PROVE Whereabouts
  <2> SUFFICES ASSUME step = "opened" PROVE Whereabouts
    BY DEF Whereabouts
  <2>1. turn \in {1, 2} /\ turn <= Len(Candidates) /\ Len(logged) = turn - 1
    BY <1>1, CandidateList DEF TypeOK, ReportInv
  <2>2. CASE Explicit
    <3>1. Place = "explicit"
      <4>1. Len(Candidates) = 1 /\ Candidates[1] = "explicit"
        BY <2>2, CandidateList
      <4>2. turn = 1
        BY <2>1, <4>1
      <4> QED BY <4>1, <4>2 DEF Place
    <3> QED BY <2>2, <3>1 DEF Whereabouts
  <2>3. CASE ~Explicit
    <3>1. Place \in {"xdg", "home", "tmp"}
      BY <2>1, <2>3, CandidateList DEF Place
    <3>2. ASSUME Place = "tmp", "absolute" \in {config.xdg, config.home} PROVE logged # <<>>
      <4>1. turn = 2
        BY <2>1, <2>3, <3>2, CandidateList DEF Place
      <4> QED BY <2>1, <4>1, LenProperties, EmptySeq
    <3> QED BY <2>3, <3>1, <3>2 DEF Whereabouts
  <2> QED BY <2>2, <2>3
<1> QED BY <1>1, ReportAlways, PTL
-----------------------------------------------------------------------------
(* What is given up.                                                        *)

(* As long as a private journal is possible the directory, once seen, stays *)
(* this user's, and what open() returned is safe.                           *)
VainInv ==
  /\ usable => Usable
  /\ usable /\ step \notin {"prepare", "mkdir_p"} => dir # NoDir
  /\ usable /\ step = "fstat" => ~Unsafe(fd)

(* Where a private journal is possible no call fails.                       *)
LEMMA FailsForAReason ==
  ASSUME TypeOK, OpenInv, VainInv, usable, Server
  PROVE  \E s \in Steps \ {"degraded"} : Proceed(s)
<1> USE DEF VainInv, Steps, Calls
<1>1. /\ access = "rw"
      /\ \/ dir = NoDir
         \/ dir.owner = "us" /\ (IF Strict THEN dir = Private ELSE Enters(dir))
      /\ file = NoFile \/ (file.kind = "regular" /\ file.owner = "us" /\ file.grants)
  BY DEF Usable
<1>2. ASSUME NEW f, Returns(f) PROVE \E s \in Steps \ {"degraded"} : Proceed(s)
  BY <1>2 DEF Returns
<1>3. CASE MakeStrict \/ LookUp
  BY <1>1, <1>3 DEF MakeStrict, LookUp
<1>4. CASE CheckDir
  <2>1. dir = Private
    BY <1>1, <1>4 DEF CheckDir, OpenInv
  <2> QED BY <1>4, <2>1 DEF CheckDir, Private, NoDir
<1>5. CASE MakeAll
  BY <1>1, <1>5 DEF MakeAll, Enters, NoDir, Private
<1>6. CASE OpenNothing
  <2>1. Admits(dir)
    BY <1>1, <1>6 DEF OpenNothing, Admits, Enters, Private
  <2> QED BY <1>1, <1>2, <1>6, <2>1 DEF OpenNothing
<1>7. CASE OpenRegular \/ OpenSpecial \/ OpenOther
  <2>1. /\ file.kind \in {"regular", "special", "symlink", "directory"}
        /\ NoFile.kind = "absent"
    BY <1>7 DEF OpenRegular, OpenSpecial, OpenOther, NoFile
  <2>2. file.kind = "regular" /\ file.grants
    BY <1>1, <2>1
  <2>3. OpenRegular
    BY <1>7, <2>2 DEF OpenSpecial, OpenOther
  <2>4. Returns(file)
    BY <1>1, <2>2, <2>3 DEF OpenRegular
  <2> QED BY <1>2, <2>4
<1>8. CASE Fstat
  BY <1>8 DEF Fstat
<1>9. CASE Chmod
  BY <1>1, <1>9 DEF Chmod, MayChmod, OpenInv, Unsafe
<1> QED BY <1>3, <1>4, <1>5, <1>6, <1>7, <1>8, <1>9 DEF Server
LEMMA VainStep == TypeOK /\ OpenInv /\ VainInv /\ [Next]_vars => VainInv'
<1> SUFFICES ASSUME TypeOK, OpenInv, VainInv, [Next]_vars PROVE VainInv'
  OBVIOUS
<1> USE DEF VainInv
<1>1. ASSUME NEW why, NEW unsafe, NEW denied, Fail(why, unsafe, denied), step \in Calls, ~usable
      PROVE  VainInv'
  <2>1. CASE step' = "prepare" /\ usable' = Usable'
    BY <2>1
  <2>2. CASE usable' = usable
    BY <1>1, <2>2
  <2> QED BY <1>1, <2>1, <2>2 DEF Fail
<1>2. ASSUME NEW s, Proceed(s),
             usable /\ Usable' /\ s \notin {"prepare", "mkdir_p"} => dir' # NoDir,
             usable /\ Usable' /\ s = "fstat" => ~Unsafe(fd')
      PROVE  VainInv'
  <2>1. Unsafe(fd)' = Unsafe(fd')
    BY DEF Unsafe
  <2> QED BY <1>2, <2>1 DEF Proceed
<1>3. CASE Server /\ ~usable
  <2>1. CASE \E why, unsafe, denied : Fail(why, unsafe, denied)
    BY <1>1, <1>3, <2>1, ServerCases
  <2>2. CASE \E s : Proceed(s)
    BY <1>2, <1>3, <2>2
  <2> QED BY <1>3, <2>1, <2>2, ServerCases
<1>4. CASE Server /\ usable
  <2>1. PICK s \in Steps \ {"degraded"} : Proceed(s)
    BY <1>4, FailsForAReason
  <2>2. \A why, unsafe, denied : ~Fail(why, unsafe, denied)
    <3>1. logged' = logged /\ logged \in Seq(Entries)
      BY <2>1 DEF Proceed, TypeOK
    <3>2. \A e : Append(logged, e) # logged
      BY <3>1, LenProperties
    <3> QED BY <3>1, <3>2 DEF Fail
  <2> HIDE DEF VainInv
  <2>3. CASE MakeStrict \/ LookUp \/ MakeAll
    <3>1. Private # NoDir /\ ~Enters(NoDir)
      BY DEF Private, NoDir, Enters
    <3>2. CASE MakeStrict
      <4>1. dir' # NoDir /\ Proceed("check_dir")
        BY <2>2, <3>1, <3>2 DEF MakeStrict, Unavailable
      <4> QED BY <1>2, <4>1
    <3>3. CASE LookUp
      <4>1. PICK t \in {"mkdir_p", "open"} : Proceed(t) /\ (t = "open" => dir' # NoDir)
        BY <2>2, <3>3 DEF LookUp, Unavailable
      <4> QED BY <1>2, <4>1
    <3>4. CASE MakeAll
      <4>1. dir' # NoDir /\ Proceed("open")
        BY <2>2, <3>1, <3>4 DEF MakeAll, Unavailable
      <4> QED BY <1>2, <4>1
    <3> QED BY <2>3, <3>2, <3>3, <3>4
  <2>4. CASE CheckDir \/ Fstat \/ Chmod
    BY <1>2, <1>4, <2>2, <2>4 DEF CheckDir, Fstat, Chmod, Unavailable, NoDir, Private, VainInv
  <2>5. ASSUME NEW f, step = "open", Returns(f), f.kind # "absent"
        PROVE  VainInv'
    <3>1. Usable' => ~Unsafe(fd')
      BY <2>5 DEF Returns, Usable, Unsafe, NoFile
    <3>2. dir' # NoDir
      BY <1>4, <2>5 DEF VainInv, Returns
    <3> QED BY <1>2, <2>5, <3>1, <3>2 DEF Returns
  <2>6. CASE OpenNothing
    BY <2>2, <2>5, <2>6 DEF OpenNothing, Unavailable, Fresh
  <2>7. CASE OpenRegular \/ OpenSpecial \/ OpenOther
    BY <2>2, <2>5, <2>7 DEF OpenRegular, OpenSpecial, OpenOther
  <2> QED BY <1>4, <2>3, <2>4, <2>6, <2>7 DEF Server
<1>5. ASSUME OthersChangeDir \/ OthersChangeFile \/ SiblingCreates
      PROVE  VainInv'
  <2>1. UNCHANGED <<step, fd>> /\ usable' = (usable /\ Usable')
    BY <1>5 DEF OthersChangeDir, OthersChangeFile, SiblingCreates, Changes
  <2>2. usable /\ dir # NoDir => dir' # NoDir
    BY <1>5 DEF OthersChangeDir, OthersChangeFile, SiblingCreates, Usable
  <2> QED BY <2>1, <2>2 DEF Unsafe
<1>6. CASE UNCHANGED vars
  <2>1. Strict' = Strict
    BY <1>6, CandidatesStay DEF vars, Strict, Place
  <2> QED BY <1>6, <2>1 DEF vars, Usable, Unsafe
<1> QED BY <1>3, <1>4, <1>5, <1>6 DEF Next

(* Whatever races the server loses, it gives a candidate up only if for     *)
(* some moment a private journal could not be had there (prepare_parent,    *)
(* try_open_first).                                                         *)
THEOREM NothingGivenUpInVain == Spec => []NeverGivenUpInVain
<1>1. Init => VainInv /\ NeverGivenUpInVain
  BY LenProperties, EmptySeq DEF Init, VainInv, NeverGivenUpInVain
<1>2. ASSUME TypeOK, OpenInv, VainInv, NeverGivenUpInVain, [Next]_vars
      PROVE  NeverGivenUpInVain'
  <2>1. CASE logged' = logged
    BY <1>2, <2>1 DEF NeverGivenUpInVain
  <2>2. ASSUME NEW why, NEW unsafe \in BOOLEAN, NEW denied \in BOOLEAN,
               Fail(why, unsafe, denied), ~usable
        PROVE  NeverGivenUpInVain'
    <3> DEFINE e == [level |-> Level(why), unsafe |-> unsafe, denied |-> denied, usable |-> usable]
    <3>1. e \in Entries /\ ~e.usable
      BY <1>2, <2>2 DEF Entries, Level, TypeOK
    <3>2. logged' = Append(logged, e) /\ logged \in Seq(Entries)
      BY <1>2, <2>2 DEF Fail, TypeOK
    <3> HIDE DEF e
    <3>3. /\ DOMAIN logged' = 1..Len(logged) + 1 /\ DOMAIN logged = 1..Len(logged)
          /\ Len(logged) \in Nat
          /\ logged'[Len(logged) + 1] = e
          /\ \A i \in 1..Len(logged) : logged'[i] = logged[i]
      BY <3>1, <3>2, AppendProperties, LenProperties
    <3> SUFFICES ASSUME NEW i \in DOMAIN logged' PROVE ~logged'[i].usable
      BY DEF NeverGivenUpInVain
    <3>4. i \in 1..Len(logged) \/ i = Len(logged) + 1
      BY <3>3
    <3> QED BY <1>2, <3>1, <3>3, <3>4 DEF NeverGivenUpInVain
  <2>3. CASE Server /\ usable
    BY <1>2, <2>1, <2>3, FailsForAReason DEF Proceed
  <2>4. CASE Server /\ ~usable
    BY <1>2, <2>1, <2>2, <2>4, ServerCases DEF Proceed
  <2>5. CASE OthersChangeDir \/ OthersChangeFile \/ SiblingCreates \/ UNCHANGED vars
    BY <2>1, <2>5 DEF OthersChangeDir, OthersChangeFile, SiblingCreates, Changes, vars
  <2> QED BY <1>2, <2>3, <2>4, <2>5 DEF Next
<1> QED BY <1>1, <1>2, OpenAlways, VainStep, PTL DEF Spec
=============================================================================
