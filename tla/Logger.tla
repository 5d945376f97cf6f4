------------------------------- MODULE Logger -------------------------------
(***************************************************************************)
(* src/common/logger.c, as the server (log_init, messages) and the client  *)
(* (log_init("client"), log_update_name after the login, log_close) use    *)
(* it: one file a day for a name, in the directory "log".                  *)
(*                                                                         *)
(* Within a process every function runs under log_mutex and is a step, but *)
(* for log_update_name, whose two changes to the directory other processes *)
(* and a crash may come between.  A call reads the clock once.             *)
(***************************************************************************)
EXTENDS Integers, Sequences, Functions

CONSTANTS
  Processes,    \* programs started in the same directory
  FirstName,    \* the name given to log_init
  Users,        \* the names given to log_update_name
  MaxDay,       \* bound: days
  MaxSessions,  \* bound: starts of a program, all together
  MaxLines      \* bound: messages of a session

ASSUME LoggerConstants ==
  /\ FirstName \notin Users /\ MaxDay \in Nat /\ MaxSessions \in Nat
  /\ MaxLines \in Nat

NoFile == 0

Names == Users \cup {FirstName}
Days == 0..MaxDay

VARIABLES
  fs,        \* the directory (which file a name and a date stand for), and
             \* the contents of the files, removed ones too
  today,
  log,       \* the static variables of each process, and where it is in
             \* log_update_name
  sessions,  \* how many there have been
  written    \* the lines written to a file, without those of a file that
             \* log_update_name removed without having copied it

vars == <<fs, today, log, sessions, written>>

NotRunning == [pc |-> "off", session |-> 0, lines |-> 0, log_basename |-> FirstName,
               current_log_date |-> 0, log_file |-> NoFile, new_basename |-> FirstName]

Init ==
  /\ fs = [dir |-> [f \in Names \X Days |-> NoFile], data |-> <<>>]
  /\ today = 0
  /\ log = [p \in Processes |-> NotRunning]
  /\ sessions = 0
  /\ written = {}

-----------------------------------------------------------------------------
(* The file system                                                         *)

exists(f) == fs.dir[f] # NoFile

lines_of(f) == IF exists(f) THEN fs.data[fs.dir[f]] ELSE <<>>

(* fopen may fail: a full disk, a file of another user.                    *)
opens == BOOLEAN

(* fopen(.., "a"): the file, created if it is not there.                   *)
opened(s, f) ==
  IF s.dir[f] # NoFile THEN s
  ELSE [dir |-> [s.dir EXCEPT ![f] = Len(s.data) + 1], data |-> Append(s.data, <<>>)]

removed(s, f) == [s EXCEPT !.dir[f] = NoFile]

added(s, file, lines) == [s EXCEPT !.data[file] = @ \o lines]

-----------------------------------------------------------------------------
(* Mutant: an open file stays open.                                        *)
OpenedOnce(l) == l.log_file # NoFile

still_current(l) == l.log_file # NoFile /\ l.current_log_date = today

(* The process and the file system after open_log_file.                    *)
open_log_file(l, s, ok) ==
  LET f == <<l.log_basename, today>>
  IN  IF still_current(l) THEN [log |-> l, fs |-> s]
      ELSE IF ok
        THEN [log |-> [l EXCEPT !.current_log_date = today,
                                !.log_file = opened(s, f).dir[f]],
              fs |-> opened(s, f)]
        ELSE [log |-> [l EXCEPT !.current_log_date = today, !.log_file = NoFile], fs |-> s]

log_init(p) ==
  /\ log[p].pc = "off"
  /\ sessions < MaxSessions
  /\ sessions' = sessions + 1
  /\ \E ok \in opens :
       LET after == open_log_file([NotRunning EXCEPT !.pc = "on", !.session = sessions + 1],
                                  fs, ok)
       IN  fs' = after.fs /\ log' = [log EXCEPT ![p] = after.log]
  /\ UNCHANGED <<today, written>>

(* Without a file the message goes to stdout or stderr.                    *)
log_message(p) ==
  /\ log[p].pc = "on"
  /\ log[p].lines < MaxLines
  /\ \E ok \in opens :
       LET after == open_log_file(log[p], fs, ok)
           line == [session |-> log[p].session, number |-> log[p].lines + 1, day |-> today]
       IN  /\ log' = [log EXCEPT ![p] = [after.log EXCEPT !.lines = @ + 1]]
           /\ IF after.log.log_file = NoFile
                THEN fs' = after.fs /\ UNCHANGED written
                ELSE /\ fs' = added(after.fs, after.log.log_file, <<line>>)
                     /\ written' = written \cup {line}
  /\ UNCHANGED <<today, sessions>>

-----------------------------------------------------------------------------
(* log_update_name: copy, remove, open                                     *)

old_filepath(p) == <<log[p].log_basename, log[p].current_log_date>>
new_filepath(p, name) == <<name, log[p].current_log_date>>

(* Mutants: the new file is opened with "wb"; its lines go last.           *)
Overwritten(s, file, lines) == [s EXCEPT !.data[file] = lines]
PutBefore(s, file, lines) == [s EXCEPT !.data[file] = lines \o @]

appended(s, file, lines) == added(s, file, lines)

(* Both files are open, or nothing is copied.                              *)
copied(old, new, old_ok, new_ok) ==
  LET s == IF new_ok THEN opened(fs, new) ELSE fs
  IN  IF new_ok /\ old_ok /\ exists(old)
        THEN appended(s, s.dir[new], s.data[s.dir[old]])
        ELSE s

log_update_name(p, name) ==
  /\ log[p].pc = "on"
  /\ \E old_ok \in opens, new_ok \in opens :
       /\ fs' = copied(old_filepath(p), new_filepath(p, name), old_ok, new_ok)
       /\ written' = IF old_ok /\ new_ok THEN written
                     ELSE written \ Range(lines_of(old_filepath(p)))
  /\ log' = [log EXCEPT ![p].pc = "copied", ![p].log_file = NoFile, ![p].new_basename = name]
  /\ UNCHANGED <<today, sessions>>

renamed(p) ==
  /\ log[p].pc = "copied"
  /\ \E ok \in opens :
       LET after == open_log_file([log[p] EXCEPT !.pc = "on",
                                                 !.log_basename = log[p].new_basename],
                                  removed(fs, old_filepath(p)), ok)
       IN  fs' = after.fs /\ log' = [log EXCEPT ![p] = after.log]
  /\ UNCHANGED <<today, sessions, written>>

(* log_close at the end, or a crash anywhere: every message is flushed.    *)
Ends(p) ==
  /\ log[p].pc # "off"
  /\ log' = [log EXCEPT ![p] = NotRunning]
  /\ UNCHANGED <<fs, today, sessions, written>>

Midnight ==
  /\ today < MaxDay
  /\ today' = today + 1
  /\ UNCHANGED <<fs, log, sessions, written>>

(* A client logs in once.                                                  *)
LoggerStep(p) ==
  \/ log_init(p) \/ log_message(p) \/ renamed(p) \/ Ends(p)
  \/ \E name \in Users : log[p].log_basename = FirstName /\ log_update_name(p, name)

Next == Midnight \/ \E p \in Processes : LoggerStep(p)

Spec == Init /\ [][Next]_vars

-----------------------------------------------------------------------------
(* Properties                                                              *)

(* README.md:24, "Robust Logging"; logger.c:73, "Move Content: Read from   *)
(* Old, Append to New": a line written is in some file of the directory,   *)
(* whatever midnights, renames and crashes there were, unless one of the   *)
(* two files of a rename could not be opened.                              *)
LinesKept ==
  \A line \in written :
    \E f \in DOMAIN fs.dir : \E i \in DOMAIN lines_of(f) : lines_of(f)[i] = line

(* README.md:24, "Rotated daily logs": a line is in a file of its day,     *)
(* even when the name changes after midnight.                              *)
LinesInFileOfDay ==
  \A f \in DOMAIN fs.dir : \A i \in DOMAIN lines_of(f) : lines_of(f)[i].day = f[2]

Before(a, b) ==
  a.session < b.session \/ (a.session = b.session /\ a.number < b.number)

(* One program at a time: a file reads in the order its lines were         *)
(* written.  Moving the lines to the user's file keeps them in order, and  *)
(* a crash before the old file is removed only has them moved a second     *)
(* time: the first copies are in order.                                    *)
LinesInOrder ==
  \A f \in DOMAIN fs.dir : \A i, j \in DOMAIN lines_of(f) :
    Before(lines_of(f)[i], lines_of(f)[j]) =>
      \E first \in 1..(j - 1) : lines_of(f)[first] = lines_of(f)[i]
=============================================================================
