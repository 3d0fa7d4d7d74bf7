----------------------------- MODULE JournalOpen -----------------------------
(* Startup of the audit journal: resolve_journal_paths of src/config.rs     *)
(* lists the candidate paths, try_open_first of src/mcp/journal.rs tries    *)
(* them in order, one system call at a time, while other users (and other   *)
(* servers of this user) change the same places between the calls.          *)
(*                                                                          *)
(* Only the place of the current candidate is represented: it is chosen     *)
(* when its turn comes, since no candidate's calls touch another's place.   *)
EXTENDS Naturals, Sequences

CONSTANTS
  JournalSettings,  \* what NETDIAG_JOURNAL may hold: "fallback" is a path whose
                    \* parent is the per-user directory under /tmp
  StateSettings     \* what XDG_STATE_HOME and HOME may hold

VARIABLES
  config,   \* the environment, and whether the effective user is root
  turn,     \* index of the candidate being tried
  step,     \* the next system call for it
  access,   \* what the file system of the place allows us
  dir,      \* entry of the journal's parent directory
  file,     \* entry of the journal itself
  fd,       \* the file that open() returned
  same,     \* the path still names that file (history)
  usable,   \* a private journal was possible throughout this turn (history)
  logged    \* one entry per candidate given up

vars   == <<config, turn, step, access, dir, file, fd, same, usable, logged>>
world  == <<access, dir, file>>

Configs == [journal : JournalSettings, xdg : StateSettings, home : StateSettings,
            root : BOOLEAN]
Places  == {"explicit", "xdg", "home", "tmp", "cwd"}
Access  == {"rw", "no_chmod", "ro", "none"}

NoDir  == [kind |-> "absent", owner |-> "nobody", open |-> FALSE]
Dirs   == [kind : {"dir", "linked"}, owner : {"us", "them"}, open : BOOLEAN]
          \cup [kind : {"other"}, owner : {"us", "them"}, open : {FALSE}]
Private == [kind |-> "dir", owner |-> "us", open |-> FALSE]

NoFile == [kind |-> "absent", owner |-> "nobody", grants |-> FALSE]
Files  == [kind : {"regular", "special"}, owner : {"us", "them"}, grants : BOOLEAN]
          \cup [kind : {"symlink", "directory"}, owner : {"us", "them"}, grants : {FALSE}]
Fresh  == [kind |-> "regular", owner |-> "us", grants |-> TRUE]

Calls  == {"prepare", "check_dir", "mkdir_p", "open", "fstat", "chmod"}
Steps  == Calls \cup {"opened", "degraded"}
Entries == [level : {"warn", "error"}, unsafe : BOOLEAN, denied : BOOLEAN,
            usable : BOOLEAN]

-----------------------------------------------------------------------------
(* resolve_journal_paths.                                                   *)

\* Mutant of StatePath: a relative directory is taken, under the CWD.
StatePathRelative ==
  IF config.xdg = "absolute" THEN <<"xdg">>
  ELSE IF config.xdg = "relative" THEN <<"cwd">>
  ELSE IF config.home = "absolute" THEN <<"home">> ELSE <<>>

\* XDG_STATE_HOME, else HOME; only absolute values count.
StatePath ==
  IF config.xdg = "absolute" THEN <<"xdg">>
  ELSE IF config.home = "absolute" THEN <<"home">> ELSE <<>>

\* A non-empty NETDIAG_JOURNAL is the only candidate.
Explicit == config.journal \in {"absolute", "relative", "fallback"}

Candidates ==
  IF Explicit THEN <<"explicit">>
  ELSE StatePath \o <<"tmp">>

Place == Candidates[turn]

\* strict_dir: the journal's parent is this user's directory under /tmp.
Strict == Place = "tmp" \/ (Place = "explicit" /\ config.journal = "fallback")

TypeOK ==
  /\ config \in Configs
  /\ turn \in 1..Len(Candidates)
  /\ step \in Steps
  /\ access \in Access
  /\ dir \in Dirs \cup {NoDir}
  /\ file \in Files \cup {NoFile}
  /\ fd \in Files \cup {NoFile}
  /\ same \in BOOLEAN /\ usable \in BOOLEAN
  /\ logged \in Seq(Entries)

-----------------------------------------------------------------------------
(* The place of a candidate.                                                *)

Enters(d) == d.kind \in {"dir", "linked"}
Admits(d) == Enters(d) /\ (d.owner = "us" \/ d.open)

\* Without its directory there is no file.
Consistent(d, f) == Enters(d) \/ f = NoFile

\* A private journal is there or can be made.
Usable ==
  /\ access = "rw"
  /\ \/ dir = NoDir
     \/ dir.owner = "us" /\ (IF Strict THEN dir = Private ELSE Enters(dir))
  /\ file = NoFile \/ (file.kind = "regular" /\ file.owner = "us" /\ file.grants)

Init ==
  /\ config \in Configs
  /\ turn = 1 /\ step = "prepare"
  /\ access \in Access /\ dir \in Dirs \cup {NoDir} /\ file \in Files \cup {NoFile}
  /\ Consistent(dir, file)
  /\ usable = Usable
  /\ fd = NoFile /\ same = FALSE /\ logged = <<>>

-----------------------------------------------------------------------------
(* try_open_first: what an error of the current call leads to.              *)

\* Mutant of Level: only the checks on the opened file count as a refusal.
LevelIgnoresErrno(why) ==
  IF turn = Len(Candidates) \/ (why = "refused" /\ step = "fstat")
  THEN "error" ELSE "warn"

Level(why) ==
  IF turn = Len(Candidates) \/ why = "refused" THEN "error" ELSE "warn"

\* why is is_refusal's verdict; unsafe, whether what was met is a symlink, not
\* a regular file, or another user's; denied, whether the kernel said no first.
Fail(why, unsafe, denied) ==
  /\ UNCHANGED config
  /\ logged' = Append(logged, [level |-> Level(why), unsafe |-> unsafe,
                               denied |-> denied, usable |-> usable])
  /\ fd' = NoFile /\ same' = FALSE
  /\ \/ /\ turn < Len(Candidates)
        /\ turn' = turn + 1 /\ step' = "prepare"
        /\ access' \in Access
        /\ dir' \in Dirs \cup {NoDir} /\ file' \in Files \cup {NoFile}
        /\ Consistent(dir', file')
        /\ usable' = Usable'
     \/ /\ turn = Len(Candidates)
        /\ step' = "degraded"
        /\ UNCHANGED <<turn, world, usable>>

Unavailable == Fail("unavailable", FALSE, FALSE)

\* The call succeeded: on to the next one, s.
Proceed(s) ==
  /\ step' = s
  /\ UNCHANGED <<config, turn, access, logged>>
  /\ usable' = (usable /\ Usable')

-----------------------------------------------------------------------------
(* prepare_parent.                                                          *)

\* Mutant of MakeStrict: that directory is looked up first, then created like any
\* other directory.
MakeStrictLax ==
  /\ step = "prepare" /\ Strict
  /\ UNCHANGED <<dir, file, fd, same>>
  /\ Proceed(IF dir = NoDir THEN "mkdir_p" ELSE "check_dir")

\* The directory under /tmp: a plain mkdir, where AlreadyExists will do.
MakeStrict ==
  /\ step = "prepare" /\ Strict
  /\ \/ /\ dir = NoDir /\ access \in {"rw", "no_chmod"}
        /\ dir' = Private
        /\ UNCHANGED <<file, fd, same>>
        /\ Proceed("check_dir")
     \/ /\ dir # NoDir /\ access # "none"
        /\ UNCHANGED <<dir, file, fd, same>>
        /\ Proceed("check_dir")
     \/ /\ access = "none" \/ (dir = NoDir /\ access = "ro")
        /\ Unavailable

\* lstat: whatever is there must be a private directory of this user.
CheckDir ==
  /\ step = "check_dir"
  /\ \/ /\ dir = Private
        /\ UNCHANGED <<dir, file, fd, same>>
        /\ Proceed("open")
     \/ /\ dir = NoDir /\ Unavailable
     \/ /\ dir \notin {NoDir, Private} /\ Fail("refused", TRUE, FALSE)

\* Any other directory: only its absence matters.
LookUp ==
  /\ step = "prepare" /\ ~Strict
  /\ \/ /\ access = "none" /\ Unavailable
     \/ /\ access # "none"
        /\ UNCHANGED <<dir, file, fd, same>>
        /\ Proceed(IF dir = NoDir THEN "mkdir_p" ELSE "open")

\* Mutant of MakeAll: a directory that appeared meanwhile is an error.
MakeAllAlone ==
  /\ step = "mkdir_p"
  /\ \/ /\ dir = NoDir /\ access \in {"rw", "no_chmod"}
        /\ dir' = Private
        /\ UNCHANGED <<file, fd, same>>
        /\ Proceed("open")
     \/ dir # NoDir /\ Unavailable

\* Recursive create, content with a directory that appeared meanwhile.
MakeAll ==
  /\ step = "mkdir_p"
  /\ \/ /\ dir = NoDir /\ access \in {"rw", "no_chmod"}
        /\ dir' = Private
        /\ UNCHANGED <<file, fd, same>>
        /\ Proceed("open")
     \/ /\ Enters(dir)
        /\ UNCHANGED <<dir, file, fd, same>>
        /\ Proceed("open")
     \/ /\ \/ dir.kind = "other"
           \/ dir = NoDir /\ access \in {"ro", "none"}
        /\ Unavailable

-----------------------------------------------------------------------------
(* JournalWriter::open after prepare_parent.                                *)

Unsafe(f) == f.kind # "regular" \/ f.owner # "us"

\* open() returns f, which is now what the path names.
Returns(f) ==
  /\ file' = f /\ fd' = f /\ same' = TRUE
  /\ UNCHANGED dir
  /\ Proceed("fstat")

\* What open() with O_CREAT, O_NOFOLLOW and O_NONBLOCK does with each kind.
OpenNothing ==
  /\ step = "open" /\ file = NoFile
  /\ \/ /\ Admits(dir) /\ access \in {"rw", "no_chmod"}
        /\ Returns(Fresh)
     \/ /\ ~(Admits(dir) /\ access \in {"rw", "no_chmod"})
        /\ Unavailable

OpenRegular ==
  /\ step = "open" /\ file.kind = "regular"
  /\ \/ /\ file.grants /\ access \in {"rw", "no_chmod"}
        /\ Returns(file)
     \/ /\ ~(file.grants /\ access \in {"rw", "no_chmod"})
        /\ Fail("unavailable", Unsafe(file), TRUE)

\* Mutant of OpenSpecial: without O_NONBLOCK a FIFO waits for its reader.
OpenSpecialWaits ==
  /\ step = "open" /\ file.kind = "special"
  /\ file.grants /\ Returns(file)

\* A FIFO or a device: ENXIO without a reader, EACCES, or it opens.
OpenSpecial ==
  /\ step = "open" /\ file.kind = "special"
  /\ \/ file.grants  /\ Returns(file)
     \/ ~file.grants /\ Fail("refused", TRUE, FALSE)
     \/ ~file.grants /\ Fail("unavailable", TRUE, TRUE)

OpenOther ==
  /\ step = "open"
  /\ \/ file.kind = "symlink"   /\ Fail("refused", TRUE, FALSE)
     \/ file.kind = "directory" /\ Fail("unavailable", TRUE, TRUE)

\* Mutant of Fstat: the path is examined, not the descriptor.
FstatPath ==
  /\ step = "fstat"
  /\ \/ Unsafe(file) /\ Fail("refused", TRUE, FALSE)
     \/ ~Unsafe(file) /\ UNCHANGED <<dir, file, fd, same>> /\ Proceed("chmod")

Fstat ==
  /\ step = "fstat"
  /\ \/ Unsafe(fd) /\ Fail("refused", TRUE, FALSE)
     \/ ~Unsafe(fd) /\ UNCHANGED <<dir, file, fd, same>> /\ Proceed("chmod")

MayChmod == access # "no_chmod" /\ (fd.owner = "us" \/ config.root)

\* set_permissions(0600) on the descriptor.
Chmod ==
  /\ step = "chmod"
  /\ \/ /\ MayChmod
        /\ UNCHANGED <<dir, file, fd, same>>
        /\ Proceed("opened")
     \/ ~MayChmod /\ Unavailable

-----------------------------------------------------------------------------
(* Everybody else.                                                          *)

Changes ==
  /\ Consistent(dir', file')
  /\ UNCHANGED <<config, turn, step, access, fd, logged>>
  /\ usable' = (usable /\ Usable')

\* Another user replaces the directory: it was missing or theirs, as in a
\* sticky directory.  Behind a symlink of theirs may be anybody's files.
OthersChangeDir ==
  /\ dir = NoDir \/ dir.owner = "them"
  /\ dir' \in {d \in Dirs : d.owner = "them"} \cup {NoDir}
  /\ file' \in {f \in Files : f.owner = "them" \/ dir'.kind = "linked"} \cup {NoFile}
  /\ same' = FALSE
  /\ Changes

\* Another user replaces the journal in a directory they may write to.
OthersChangeFile ==
  /\ Enters(dir) /\ (dir.owner = "them" \/ dir.open)
  /\ file' \in {f \in Files : f.owner = "them"} \cup {NoFile}
  /\ same' = FALSE
  /\ UNCHANGED dir
  /\ Changes

\* Another server of this user starts up in the same place.
SiblingCreates ==
  /\ access \in {"rw", "no_chmod"}
  /\ \/ dir = NoDir /\ dir' = Private /\ UNCHANGED file
     \/ Admits(dir) /\ file = NoFile /\ file' = Fresh /\ UNCHANGED dir
  /\ UNCHANGED same
  /\ Changes

Server == MakeStrict \/ CheckDir \/ LookUp \/ MakeAll \/ OpenNothing \/ OpenRegular
          \/ OpenSpecial \/ OpenOther \/ Fstat \/ Chmod

Next == Server \/ OthersChangeDir \/ OthersChangeFile \/ SiblingCreates

Spec == Init /\ [][Next]_vars

\* System calls on the journal's place return.
FairSpec == Spec /\ WF_vars(Server)

-----------------------------------------------------------------------------
(* Properties.                                                              *)

\* Whoever changes the place between the calls, the journal that is written to
\* is a regular file of this user, narrowed to mode 0600 (JournalWriter::open).
OpenedIsOurs ==
  step = "opened" => fd.kind = "regular" /\ fd.owner = "us"

\* Once past the checks of the directory under /tmp nobody else can move the
\* journal away or put another file in its place, whether the path was the
\* fallback or the operator's (prepare_parent's strict branch).
FallbackStays ==
  Strict /\ step \in {"fstat", "chmod", "opened"} => same /\ dir = Private

\* A candidate is given up only if at some moment of its turn a private journal
\* could not be had there: losing a race to another server of this user, or
\* to nobody, costs no audit trail (prepare_parent, try_open_first).
NeverGivenUpInVain == \A i \in DOMAIN logged : ~logged[i].usable

\* The journal is where the operator put it or nowhere; otherwise under an
\* absolute state directory or in /tmp, and in /tmp only after the state
\* directory was given up (resolve_journal_paths, try_open_first).
Whereabouts ==
  step = "opened" =>
    /\ Explicit <=> Place = "explicit"
    /\ Place # "cwd"
    /\ Place = "tmp" /\ "absolute" \in {config.xdg, config.home} => logged # <<>>

\* No candidate is passed over silently, going without a journal is an error, and
\* so is meeting a symlink, a special or a foreign file unless the kernel
\* itself refused it, also when the next candidate opens (is_refusal).
GivingUpIsReported ==
  /\ Len(logged) = IF step = "degraded" THEN turn ELSE turn - 1
  /\ step = "degraded" => logged[turn].level = "error"
  /\ \A i \in DOMAIN logged :
       logged[i].unsafe /\ ~logged[i].denied => logged[i].level = "error"

\* Startup ends with a journal or without one, whatever was planted (open with
\* O_NONBLOCK, try_open_first).
OpeningEnds == <>(step \in {"opened", "degraded"})

\* Documented: a path refused as unsafe (symlink, wrong owner or type) is
\* logged at error even when a fallback takes over.
UnsafeIsAnError ==
  \A i \in DOMAIN logged : logged[i].unsafe => logged[i].level = "error"
=============================================================================
