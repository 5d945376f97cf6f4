---------------------------- MODULE LoggerProofs ----------------------------
(***************************************************************************)
(* src/common/logger.c: whatever the midnights, the renames, the failures  *)
(* of fopen and the crashes.  With any number of programs in a directory a *)
(* line is in a file of its day; with one program no line is lost and      *)
(* every file reads in order.                                              *)
(***************************************************************************)
EXTENDS Logger, TLAPS, SequenceTheorems

-----------------------------------------------------------------------------
(* The file system                                                         *)

Files == Names \X Days

Line == [session : Nat, number : Nat, day : Days]

Directory == [dir : [Files -> Nat], data : Seq(Seq(Line))]

(* Names stand for files that are there.                                   *)
Sound(s) == s \in Directory /\ \A f \in Files : s.dir[f] <= Len(s.data)

content(s, f) == IF s.dir[f] # NoFile THEN s.data[s.dir[f]] ELSE <<>>

NoHardLinks(s) == \A f, g \in Files : s.dir[f] # NoFile /\ s.dir[f] = s.dir[g] => f = g

LEMMA Elements ==
  ASSUME NEW S, NEW s \in Seq(S)
  PROVE  /\ Len(s) \in Nat /\ DOMAIN s = 1..Len(s)
         /\ \A i \in 1..Len(s) : s[i] \in S
         /\ s = <<>> <=> Len(s) = 0
BY EmptySeq

LEMMA Replaced ==
  ASSUME NEW S, NEW s \in Seq(S), NEW i \in 1..Len(s), NEW x \in S
  PROVE  /\ [s EXCEPT ![i] = x] \in Seq(S)
         /\ Len([s EXCEPT ![i] = x]) = Len(s)
         /\ [s EXCEPT ![i] = x][i] = x
         /\ \A j \in 1..Len(s) : j # i => [s EXCEPT ![i] = x][j] = s[j]
<1> DEFINE n == Len(s)
           t == [s EXCEPT ![i] = x]
<1>1. n \in Nat /\ s \in [1..n -> S] /\ DOMAIN s = 1..n
  OBVIOUS
<1>2. t \in [1..n -> S] /\ DOMAIN t = 1..n /\ t[i] = x
      /\ \A j \in 1..n : j # i => t[j] = s[j]
  BY <1>1
<1> HIDE DEF n, t
<1>3. t \in Seq(S) /\ Len(t) = n
  BY <1>1, <1>2
<1> QED BY <1>2, <1>3 DEF n, t

LEMMA Joined ==
  ASSUME NEW S, NEW s \in Seq(S), NEW t \in Seq(S)
  PROVE  /\ s \o t \in Seq(S) /\ Len(s \o t) = Len(s) + Len(t)
         /\ \A i \in 1..Len(s) : (s \o t)[i] = s[i]
         /\ \A i \in 1..Len(t) : (s \o t)[Len(s) + i] = t[i]
         /\ \A k \in 1..(Len(s) + Len(t)) :
              k \in 1..Len(s) \/ \E i \in 1..Len(t) : k = Len(s) + i
<1>1. /\ s \o t \in Seq(S) /\ Len(s \o t) = Len(s) + Len(t)
      /\ \A i \in 1..(Len(s) + Len(t)) :
           (s \o t)[i] = IF i <= Len(s) THEN s[i] ELSE t[i - Len(s)]
  BY ConcatProperties
<1>2. Len(s) \in Nat /\ Len(t) \in Nat
  OBVIOUS
<1>3. ASSUME NEW i \in 1..Len(t)
      PROVE  (s \o t)[Len(s) + i] = t[i]
  <2>1. Len(s) + i \in 1..(Len(s) + Len(t)) /\ ~(Len(s) + i <= Len(s))
    BY <1>2
  <2>2. (Len(s) + i) - Len(s) = i
    BY <1>2
  <2> QED BY <1>1, <2>1, <2>2
<1>4. ASSUME NEW k \in 1..(Len(s) + Len(t)), k \notin 1..Len(s)
      PROVE  \E i \in 1..Len(t) : k = Len(s) + i
  <2>1. k - Len(s) \in 1..Len(t) /\ k = Len(s) + (k - Len(s))
    BY <1>2, <1>4
  <2> QED BY <2>1
<1> QED BY <1>1, <1>2, <1>3, <1>4

(* What a name reads as.                                                   *)
LEMMA Contents ==
  ASSUME NEW s, Sound(s), NEW f \in Files
  PROVE  /\ s.dir \in [Files -> Nat] /\ s.data \in Seq(Seq(Line))
         /\ s.dir[f] \in Nat /\ s.dir[f] <= Len(s.data)
         /\ s.dir[f] # NoFile => s.dir[f] \in 1..Len(s.data)
         /\ content(s, f) \in Seq(Line)
         /\ Len(content(s, f)) \in Nat
         /\ DOMAIN content(s, f) = 1..Len(content(s, f))
<1>1. /\ s.dir \in [Files -> Nat] /\ s.data \in Seq(Seq(Line))
      /\ s.dir[f] \in Nat /\ s.dir[f] <= Len(s.data)
  BY DEF Sound, Directory
<1>2. s.dir[f] # NoFile => s.dir[f] \in 1..Len(s.data)
  BY <1>1 DEF NoFile
<1>3. content(s, f) \in Seq(Line)
  <2>1. s.dir[f] # NoFile => s.data[s.dir[f]] \in Seq(Line)
    BY <1>1, <1>2
  <2> QED BY <2>1 DEF content
<1> QED BY <1>1, <1>2, <1>3, Elements

LEMMA Opened ==
  ASSUME NEW s, Sound(s), NEW f \in Files
  PROVE  /\ Sound(opened(s, f))
         /\ opened(s, f).dir[f] # NoFile
         /\ \A g \in Files : /\ g # f => opened(s, f).dir[g] = s.dir[g]
                             /\ content(opened(s, f), g) = content(s, g)
         /\ NoHardLinks(s) => NoHardLinks(opened(s, f))
         /\ Len(s.data) <= Len(opened(s, f).data)
<1> DEFINE n == Len(s.data)
           t == opened(s, f)
<1>1. /\ s.dir \in [Files -> Nat] /\ s.data \in Seq(Seq(Line)) /\ n \in Nat
      /\ \A g \in Files : s.dir[g] \in Nat /\ s.dir[g] <= n
  <2>1. s.dir \in [Files -> Nat] /\ s.data \in Seq(Seq(Line))
    BY DEF Sound, Directory
  <2>2. Len(s.data) \in Nat
    BY <2>1
  <2> QED BY <2>1, <2>2 DEF Sound
<1>2. CASE s.dir[f] # NoFile
  <2>1. t = s
    BY <1>2 DEF opened
  <2> HIDE DEF t
  <2>2. n <= n
    BY <1>1
  <2> QED BY <1>2, <2>1, <2>2 DEF t
<1>3. CASE s.dir[f] = NoFile
  <2>1. t = [dir |-> [s.dir EXCEPT ![f] = n + 1], data |-> Append(s.data, <<>>)]
    BY <1>3 DEF opened
  <2> HIDE DEF t
  <2>2. /\ t.dir = [s.dir EXCEPT ![f] = n + 1] /\ t.data = Append(s.data, <<>>)
        /\ t \in [dir : {t.dir}, data : {t.data}]
    BY <2>1
  <2>3. /\ t.dir \in [Files -> Nat] /\ t.dir[f] = n + 1
        /\ \A g \in Files : g # f => t.dir[g] = s.dir[g]
    BY <1>1, <2>2
  <2>4. /\ t.data \in Seq(Seq(Line)) /\ Len(t.data) = n + 1 /\ t.data[n + 1] = <<>>
        /\ \A k \in 1..n : t.data[k] = s.data[k]
    <3>1. <<>> \in Seq(Line)
      OBVIOUS
    <3> QED BY <1>1, <2>2, <3>1
  <2> HIDE DEF n
  <2>5. Sound(t)
    <3>1. t \in Directory
      BY <2>2, <2>3, <2>4 DEF Directory
    <3>2. ASSUME NEW g \in Files PROVE t.dir[g] <= Len(t.data)
      <4>1. CASE g = f
        BY <1>1, <2>3, <2>4, <4>1
      <4>2. CASE g # f
        BY <1>1, <2>3, <2>4, <4>2
      <4> QED BY <4>1, <4>2
    <3> QED BY <3>1, <3>2 DEF Sound
  <2>6. ASSUME NEW g \in Files
        PROVE  content(t, g) = content(s, g)
    <3>1. CASE g = f
      <4>1. content(s, g) = <<>>
        BY <1>3, <3>1 DEF content
      <4> QED BY <1>1, <2>3, <2>4, <3>1, <4>1 DEF content, NoFile
    <3>2. CASE g # f
      <4>1. t.dir[g] = s.dir[g] /\ (s.dir[g] # 0 => s.dir[g] \in 1..n)
        BY <1>1, <2>3, <3>2
      <4> QED BY <2>4, <4>1 DEF content, NoFile
    <3> QED BY <3>1, <3>2
  <2>7. ASSUME NoHardLinks(s)
        PROVE  NoHardLinks(t)
    <3> SUFFICES ASSUME NEW g \in Files, NEW h \in Files,
                        t.dir[g] # NoFile, t.dir[g] = t.dir[h], g # h
                 PROVE  FALSE
      BY DEF NoHardLinks
    <3>1. CASE g = f \/ h = f
      BY <1>1, <2>3, <3>1
    <3>2. CASE g # f /\ h # f
      BY <2>3, <2>7, <3>2 DEF NoHardLinks
    <3> QED BY <3>1, <3>2
  <2>8. t.dir[f] # NoFile
    BY <1>1, <2>3 DEF NoFile
  <2>9. n <= Len(t.data)
    BY <1>1, <2>4
  <2> QED BY <2>3, <2>5, <2>6, <2>7, <2>8, <2>9 DEF t, n
<1> QED BY <1>2, <1>3

LEMMA Removed ==
  ASSUME NEW s, Sound(s), NEW f \in Files
  PROVE  /\ Sound(removed(s, f)) /\ removed(s, f).data = s.data
         /\ content(removed(s, f), f) = <<>>
         /\ removed(s, f).dir[f] = NoFile
         /\ \A g \in Files : g # f => /\ content(removed(s, f), g) = content(s, g)
                                      /\ removed(s, f).dir[g] = s.dir[g]
         /\ NoHardLinks(s) => NoHardLinks(removed(s, f))
<1> DEFINE t == removed(s, f)
<1>1. /\ s.dir \in [Files -> Nat] /\ s.data \in Seq(Seq(Line)) /\ s \in Directory
      /\ \A g \in Files : s.dir[g] <= Len(s.data)
  BY DEF Sound, Directory
<1>2. /\ t \in Directory /\ t.data = s.data /\ t.dir = [s.dir EXCEPT ![f] = NoFile]
  BY <1>1 DEF removed, Directory, NoFile
<1> HIDE DEF t
<1>3. /\ t.dir[f] = NoFile
      /\ \A g \in Files : g # f => t.dir[g] = s.dir[g]
  BY <1>1, <1>2
<1>4. Len(s.data) \in Nat
  BY <1>1
<1>5. Sound(t)
  <2>1. \A g \in Files : t.dir[g] <= Len(t.data)
    BY <1>1, <1>2, <1>3, <1>4 DEF NoFile
  <2> QED BY <1>2, <2>1 DEF Sound
<1>6. content(t, f) = <<>>
  BY <1>3 DEF content
<1>7. \A g \in Files : g # f => content(t, g) = content(s, g)
  BY <1>2, <1>3 DEF content
<1>8. NoHardLinks(s) => NoHardLinks(t)
  BY <1>3 DEF NoHardLinks
<1> QED BY <1>2, <1>3, <1>5, <1>6, <1>7, <1>8 DEF t

LEMMA Added ==
  ASSUME NEW s, Sound(s), NEW file \in 1..Len(s.data), NEW lines \in Seq(Line)
  PROVE  /\ Sound(added(s, file, lines)) /\ added(s, file, lines).dir = s.dir
         /\ Len(added(s, file, lines).data) = Len(s.data)
         /\ added(s, file, lines).data[file] = s.data[file] \o lines
         /\ s.data[file] \in Seq(Line)
         /\ \A k \in 1..Len(s.data) : k # file => added(s, file, lines).data[k] = s.data[k]
         /\ \A f \in Files : s.dir[f] = file =>
              content(added(s, file, lines), f) = content(s, f) \o lines
         /\ \A f \in Files : s.dir[f] # file =>
              content(added(s, file, lines), f) = content(s, f)
<1> DEFINE t == added(s, file, lines)
<1>1. /\ s.dir \in [Files -> Nat] /\ s.data \in Seq(Seq(Line)) /\ s \in Directory
      /\ \A g \in Files : s.dir[g] <= Len(s.data)
  BY DEF Sound, Directory
<1> DEFINE new == s.data[file] \o lines
<1>2. s.data[file] \in Seq(Line) /\ new \in Seq(Line) /\ Len(s.data) \in Nat
  BY <1>1
<1> HIDE DEF new
<1>3. /\ [s.data EXCEPT ![file] = new] \in Seq(Seq(Line))
      /\ Len([s.data EXCEPT ![file] = new]) = Len(s.data)
      /\ [s.data EXCEPT ![file] = new][file] = new
      /\ \A k \in 1..Len(s.data) : k # file => [s.data EXCEPT ![file] = new][k] = s.data[k]
  <2>1. s.data \in Seq(Seq(Line)) /\ new \in Seq(Line)
    BY <1>1, <1>2
  <2> QED BY <2>1, Replaced
<1>4. t.dir = s.dir /\ t.data = [s.data EXCEPT ![file] = new] /\ t \in Directory
  <2>1. t = [s EXCEPT !.data[file] = new]
    BY DEF added, new
  <2> HIDE DEF t
  <2>2. t.dir = s.dir /\ t.data = [s.data EXCEPT ![file] = new]
        /\ t \in [dir : {s.dir}, data : {[s.data EXCEPT ![file] = new]}]
    BY <1>1, <2>1 DEF Directory
  <2> QED BY <1>1, <1>3, <2>2 DEF Directory
<1> HIDE DEF t
<1>5. Sound(t)
  BY <1>1, <1>3, <1>4 DEF Sound
<1>6. ASSUME NEW f \in Files
      PROVE  /\ s.dir[f] = file => content(t, f) = content(s, f) \o lines
             /\ s.dir[f] # file => content(t, f) = content(s, f)
  <2>1. s.dir[f] # NoFile => s.dir[f] \in 1..Len(s.data)
    BY Contents
  <2>2. CASE s.dir[f] = file
    <3>1. s.dir[f] # NoFile
      BY <1>2, <2>2 DEF NoFile
    <3> QED BY <1>3, <1>4, <2>2, <3>1 DEF content, new
  <2>3. CASE s.dir[f] # file
    BY <1>3, <1>4, <2>1, <2>3 DEF content
  <2> QED BY <2>2, <2>3
<1> QED BY <1>2, <1>3, <1>4, <1>5, <1>6 DEF t, new

-----------------------------------------------------------------------------
(* Any number of programs                                                  *)

Log == [pc : {"off", "on", "copied"}, session : Nat, lines : Nat, log_basename : Names,
        current_log_date : Days, log_file : Nat, new_basename : Names]

TypeInv ==
  /\ Sound(fs) /\ today \in Days /\ sessions \in Nat
  /\ log \in [Processes -> Log]
  /\ \A p \in Processes :
       /\ log[p].log_file <= Len(fs.data)
       /\ log[p].pc = "copied" => log[p].new_basename \in Users

LEMMA Constants ==
  /\ FirstName \in Names /\ FirstName \notin Users /\ \A name \in Users : name \in Names
  /\ 0 \in Days /\ NotRunning \in Log /\ NotRunning.pc = "off"
  /\ NotRunning.log_file = NoFile /\ NotRunning.log_basename = FirstName
  /\ NotRunning.lines = 0 /\ NotRunning.session = 0 /\ NotRunning.current_log_date = 0
BY LoggerConstants DEF Names, Days, NotRunning, Log, NoFile

LEMMA ContentOf ==
  ASSUME NEW f
  PROVE  lines_of(f) = content(fs, f) /\ (exists(f) <=> fs.dir[f] # NoFile)
BY DEF lines_of, content, exists

(* What open_log_file does to the process and to the directory.            *)
Opens(l, s, day, after) ==
  LET f == <<l.log_basename, day>>
  IN  /\ after.log \in Log /\ Sound(after.fs)
      /\ after.log.pc = l.pc /\ after.log.session = l.session
      /\ after.log.lines = l.lines /\ after.log.log_basename = l.log_basename
      /\ after.log.new_basename = l.new_basename
      /\ after.log.current_log_date = day
      /\ after.log.log_file <= Len(after.fs.data)
      /\ after.fs = s \/ after.fs = opened(s, f)
      /\ f \in Files
      /\ \A g \in Files : content(after.fs, g) = content(s, g)
      /\ NoHardLinks(s) => NoHardLinks(after.fs)
      /\ \/ after.log.log_file = NoFile
         \/ /\ l.log_file # NoFile /\ l.current_log_date = day
            /\ after.log.log_file = l.log_file /\ after.fs = s
         \/ /\ after.log.log_file = opened(s, f).dir[f]
            /\ after.fs = opened(s, f)

LEMMA OpenLogFile ==
  ASSUME NEW l \in Log, NEW s, Sound(s), l.log_file <= Len(s.data), today \in Days,
         NEW ok \in BOOLEAN
  PROVE  Opens(l, s, today, open_log_file(l, s, ok))
<1> DEFINE after == open_log_file(l, s, ok)
           f == <<l.log_basename, today>>
           a == after.log
           t == after.fs
<1>1. f \in Files
  BY DEF Files, Log
<1>2. /\ l.pc \in {"off", "on", "copied"} /\ l.session \in Nat /\ l.lines \in Nat
      /\ l.log_basename \in Names /\ l.log_file \in Nat /\ l.new_basename \in Names
      /\ Len(s.data) \in Nat /\ NoFile = 0
  <2>1. s.data \in Seq(Seq(Line))
    BY DEF Sound, Directory
  <2>2. Len(s.data) \in Nat
    BY <2>1
  <2> QED BY <2>2 DEF Log, NoFile
<1>3. CASE still_current(l)
  <2>1. a = l /\ t = s
    BY <1>3 DEF open_log_file
  <2> HIDE DEF a, t, after
  <2>2. l.current_log_date = today
    BY <1>3 DEF still_current
  <2>3. /\ a \in Log /\ a.pc = l.pc /\ a.session = l.session /\ a.lines = l.lines
        /\ a.log_basename = l.log_basename /\ a.new_basename = l.new_basename
        /\ a.current_log_date = today /\ a.log_file = l.log_file
        /\ a.log_file <= Len(t.data) /\ Sound(t)
    BY <2>1, <2>2
  <2> QED BY <1>1, <1>3, <2>1, <2>3 DEF a, t, after, still_current, Opens
<1>4. CASE ~still_current(l) /\ ok
  <2>1. /\ a = [l EXCEPT !.current_log_date = today, !.log_file = opened(s, f).dir[f]]
        /\ t = opened(s, f)
    BY <1>4 DEF open_log_file
  <2> HIDE DEF a, t, after, f, Opens
  <2>2. opened(s, f).dir[f] \in Nat /\ opened(s, f).dir[f] <= Len(opened(s, f).data)
    BY <1>1, Opened, Contents
  <2>3. /\ a \in Log /\ a.pc = l.pc /\ a.session = l.session /\ a.lines = l.lines
        /\ a.log_basename = l.log_basename /\ a.new_basename = l.new_basename
        /\ a.current_log_date = today /\ a.log_file = opened(s, f).dir[f]
    BY <1>2, <2>1, <2>2 DEF Log
  <2>4. /\ Sound(t) /\ \A g \in Files : content(t, g) = content(s, g)
        /\ NoHardLinks(s) => NoHardLinks(t)
    BY <1>1, <2>1, Opened
  <2> QED BY <1>1, <2>1, <2>2, <2>3, <2>4 DEF a, t, after, f, Opens
<1>5. CASE ~still_current(l) /\ ~ok
  <2>1. /\ a = [l EXCEPT !.current_log_date = today, !.log_file = NoFile] /\ t = s
    BY <1>5 DEF open_log_file
  <2> HIDE DEF a, t, after
  <2>2. /\ a \in Log /\ a.pc = l.pc /\ a.session = l.session /\ a.lines = l.lines
        /\ a.log_basename = l.log_basename /\ a.new_basename = l.new_basename
        /\ a.current_log_date = today /\ a.log_file = NoFile
    BY <1>2, <2>1 DEF Log
  <2>3. a.log_file <= Len(t.data)
    <3>1. t = s /\ a.log_file = 0
      BY <1>2, <2>1, <2>2
    <3> QED BY <1>2, <3>1
  <2> QED BY <1>1, <2>1, <2>2, <2>3 DEF a, t, after, Opens
<1> QED BY <1>3, <1>4, <1>5

(* The copy of log_update_name: nothing is taken from any file.            *)
Copies(s, old, new, both, t) ==
  /\ Sound(t) /\ Len(s.data) <= Len(t.data)
  /\ NoHardLinks(s) => NoHardLinks(t)
  /\ \A g \in Files : t.dir[g] = s.dir[g] \/ (g = new /\ s.dir[g] = NoFile)
  /\ NoHardLinks(s) =>
       \A g \in Files :
         content(t, g) = IF g = new /\ both /\ s.dir[old] # NoFile
                         THEN content(s, new) \o content(s, old) ELSE content(s, g)
  /\ \/ t = s \/ t = opened(s, new)
     \/ /\ s.dir[old] # NoFile
        /\ opened(s, new).dir[new] \in 1..Len(opened(s, new).data)
        /\ content(s, old) \in Seq(Line)
        /\ t = added(opened(s, new), opened(s, new).dir[new], content(s, old))

LEMMA Copied ==
  ASSUME NEW s, Sound(s), s = fs, NEW old \in Files, NEW new \in Files, old # new,
         NEW old_ok \in BOOLEAN, NEW new_ok \in BOOLEAN
  PROVE  Copies(s, old, new, old_ok /\ new_ok, copied(old, new, old_ok, new_ok))
<1> DEFINE o == opened(s, new)
           t == copied(old, new, old_ok, new_ok)
<1>1. /\ Sound(o) /\ o.dir[new] # NoFile
      /\ \A g \in Files : /\ g # new => o.dir[g] = s.dir[g]
                          /\ content(o, g) = content(s, g)
      /\ NoHardLinks(s) => NoHardLinks(o)
      /\ Len(s.data) <= Len(o.data)
  BY Opened
<1>2. s.dir[new] # NoFile => o.dir[new] = s.dir[new]
  BY DEF opened
<1>3. Len(s.data) \in Nat /\ Len(o.data) \in Nat
  <2>1. s.data \in Seq(Seq(Line)) /\ o.data \in Seq(Seq(Line))
    BY <1>1 DEF Sound, Directory
  <2> HIDE DEF o
  <2> QED BY <2>1
<1>4. CASE ~new_ok
  <2>1. t = s
    BY <1>4 DEF copied
  <2> HIDE DEF o, t
  <2>2. Len(s.data) <= Len(t.data)
    BY <1>3, <2>1
  <2> QED BY <1>4, <2>1, <2>2 DEF t, Copies
<1>5. CASE new_ok /\ ~(old_ok /\ exists(old))
  <2>1. t = o
    BY <1>5 DEF copied
  <2> HIDE DEF t
  <2>2. \A g \in Files : o.dir[g] = s.dir[g] \/ (g = new /\ s.dir[g] = NoFile)
    BY <1>1, <1>2
  <2> HIDE DEF o
  <2> QED BY <1>1, <1>5, <2>1, <2>2 DEF t, o, Copies, exists
<1>6. CASE new_ok /\ old_ok /\ exists(old)
  <2> DEFINE file == o.dir[new]
             lines == o.data[o.dir[old]]
  <2>1. t = added(o, file, lines)
    BY <1>6 DEF copied, appended
  <2>2. s.dir[old] # NoFile
    BY <1>6 DEF exists
  <2> HIDE DEF t, o
  <2>3. o.dir[old] = s.dir[old]
    BY <1>1
  <2>4. lines = content(o, old) /\ content(o, old) = content(s, old)
    BY <1>1, <2>2, <2>3 DEF content
  <2>5. content(s, old) \in Seq(Line) /\ file \in 1..Len(o.data)
    BY <1>1, Contents
  <2> HIDE DEF file, lines
  <2>6. /\ Sound(t) /\ t.dir = o.dir /\ Len(t.data) = Len(o.data)
        /\ \A g \in Files :
             content(t, g) = IF o.dir[g] = file THEN content(o, g) \o lines ELSE content(o, g)
    <3>1. Sound(o) /\ file \in 1..Len(o.data) /\ lines \in Seq(Line)
      BY <1>1, <2>4, <2>5
    <3>2. /\ Sound(t) /\ t.dir = o.dir /\ Len(t.data) = Len(o.data)
      BY <2>1, <3>1, Added
    <3>3. /\ \A g \in Files : o.dir[g] = file =>
               content(added(o, file, lines), g) = content(o, g) \o lines
          /\ \A g \in Files : o.dir[g] # file =>
               content(added(o, file, lines), g) = content(o, g)
      BY <3>1, Added
    <3>4. /\ \A g \in Files : o.dir[g] = file => content(t, g) = content(o, g) \o lines
          /\ \A g \in Files : o.dir[g] # file => content(t, g) = content(o, g)
      BY <2>1, <3>3
    <3> QED BY <3>2, <3>4
  <2>7. NoHardLinks(s) => NoHardLinks(t)
    BY <1>1, <2>6 DEF NoHardLinks
  <2>8. \A g \in Files : t.dir[g] = s.dir[g] \/ (g = new /\ s.dir[g] = NoFile)
    BY <1>1, <1>2, <2>6
  <2>9. ASSUME NoHardLinks(s), NEW g \in Files
        PROVE  content(t, g) = IF g = new THEN content(s, new) \o content(s, old)
                               ELSE content(s, g)
    <3>1. o.dir[g] = file <=> g = new
      BY <1>1, <2>9 DEF file, NoHardLinks
    <3> QED BY <1>1, <2>4, <2>6, <3>1
  <2>10. t = added(o, file, content(s, old))
    BY <2>1, <2>4
  <2>11. Len(s.data) <= Len(t.data)
    BY <1>1, <2>6
  <2> QED BY <1>6, <2>5, <2>6, <2>7, <2>8, <2>9, <2>10, <2>11, <2>2 DEF t, o, file, Copies
<1> QED BY <1>4, <1>5, <1>6

LEMMA TypeKept ==
  ASSUME TypeInv, NEW p \in Processes, log' \in [Processes -> Log],
         \A q \in Processes \ {p} : log'[q] = log[q],
         Sound(fs'), Len(fs.data) <= Len(fs'.data),
         log'[p].log_file <= Len(fs'.data),
         log'[p].pc = "copied" => log'[p].new_basename \in Users,
         today' \in Days, sessions' \in Nat
  PROVE  TypeInv'
<1>1. Len(fs.data) \in Nat /\ Len(fs'.data) \in Nat
  <2>1. fs.data \in Seq(Seq(Line)) /\ fs'.data \in Seq(Seq(Line))
    BY DEF TypeInv, Sound, Directory
  <2> QED BY <2>1, Elements
<1>2. ASSUME NEW q \in Processes
      PROVE  /\ log'[q].log_file <= Len(fs'.data)
             /\ log'[q].pc = "copied" => log'[q].new_basename \in Users
  <2>1. CASE q = p
    BY <2>1
  <2>2. CASE q # p
    <3>1. log'[q] = log[q] /\ log[q].log_file <= Len(fs.data) /\ log[q].log_file \in Nat
      BY <2>2 DEF TypeInv, Log
    <3>2. log[q].log_file <= Len(fs'.data)
      BY <1>1, <3>1
    <3> QED BY <2>2, <3>1, <3>2 DEF TypeInv
  <2> QED BY <2>1, <2>2
<1> QED BY <1>2 DEF TypeInv

LEMMA TypeInit == Init => TypeInv
<1> SUFFICES ASSUME Init PROVE TypeInv
  OBVIOUS
<1>1. /\ fs = [dir |-> [f \in Files |-> NoFile], data |-> <<>>]
      /\ today = 0 /\ log = [p \in Processes |-> NotRunning] /\ sessions = 0
  BY DEF Init, Files
<1>2. Sound(fs) /\ Len(fs.data) = 0
  <2>1. fs.dir = [f \in Files |-> 0] /\ fs.data = <<>> /\ <<>> \in Seq(Seq(Line))
        /\ Len(<<>>) = 0
    BY <1>1 DEF NoFile
  <2>2. fs \in Directory
    BY <1>1, <2>1 DEF Directory, NoFile
  <2>3. \A f \in Files : fs.dir[f] = 0
    BY <2>1
  <2> QED BY <2>1, <2>2, <2>3 DEF Sound
<1>3. \A p \in Processes : log[p] = NotRunning
  BY <1>1
<1>4. \A p \in Processes : log[p].log_file <= Len(fs.data) /\ log[p].pc # "copied"
  BY <1>2, <1>3, Constants DEF NoFile
<1>5. log \in [Processes -> Log]
  BY <1>1, Constants
<1> QED BY <1>1, <1>2, <1>4, <1>5, Constants DEF TypeInv

(* The steps, as far as they have to be known below.                       *)
LEMMA InitOpens ==
  ASSUME TypeInv, NEW p \in Processes, log_init(p)
  PROVE  /\ sessions' = sessions + 1 /\ UNCHANGED <<today, written>> /\ log[p].pc = "off"
         /\ \E ok \in BOOLEAN, l \in Log :
              /\ l.pc = "on" /\ l.session = sessions + 1 /\ l.lines = 0
              /\ l.log_basename = FirstName /\ l.log_file = NoFile
              /\ l.new_basename = FirstName /\ l.log_file <= Len(fs.data)
              /\ fs' = open_log_file(l, fs, ok).fs
              /\ log' = [log EXCEPT ![p] = open_log_file(l, fs, ok).log]
<1>1. PICK ok \in BOOLEAN :
        LET after == open_log_file([NotRunning EXCEPT !.pc = "on", !.session = sessions + 1],
                                   fs, ok)
        IN  fs' = after.fs /\ log' = [log EXCEPT ![p] = after.log]
  BY DEF log_init, opens
<1> DEFINE l == [NotRunning EXCEPT !.pc = "on", !.session = sessions + 1]
<1>2. /\ l \in Log /\ l.pc = "on" /\ l.session = sessions + 1 /\ l.lines = 0
      /\ l.log_basename = FirstName /\ l.log_file = NoFile /\ l.new_basename = FirstName
  <2>1. NotRunning \in Log
    BY Constants
  <2>2. sessions + 1 \in Nat
    BY DEF TypeInv
  <2> QED BY <2>1, <2>2 DEF Log, NotRunning
<1>3. l.log_file <= Len(fs.data)
  <2>1. fs.data \in Seq(Seq(Line))
    BY DEF TypeInv, Sound, Directory
  <2>2. Len(fs.data) \in Nat
    BY <2>1
  <2> HIDE DEF l
  <2> QED BY <1>2, <2>2 DEF NoFile
<1>4. fs' = open_log_file(l, fs, ok).fs /\ log' = [log EXCEPT ![p] = open_log_file(l, fs, ok).log]
  BY <1>1
<1> HIDE DEF l
<1> QED BY <1>2, <1>3, <1>4 DEF log_init

LEMMA UpdateCopies ==
  ASSUME TypeInv, NEW p \in Processes, NEW name \in Users,
         log[p].log_basename = FirstName, log_update_name(p, name)
  PROVE  LET old == old_filepath(p)
             new == new_filepath(p, name)
         IN  /\ log[p].pc = "on" /\ UNCHANGED <<today, sessions>>
             /\ old \in Files /\ new \in Files /\ old # new
             /\ old = <<FirstName, log[p].current_log_date>>
             /\ new = <<name, log[p].current_log_date>>
             /\ \E old_ok \in BOOLEAN, new_ok \in BOOLEAN :
                  /\ fs' = copied(old, new, old_ok, new_ok)
                  /\ written' = IF old_ok /\ new_ok THEN written
                                ELSE written \ Range(lines_of(old))
             /\ log' \in [Processes -> Log]
             /\ \A q \in Processes \ {p} : log'[q] = log[q]
             /\ log'[p].pc = "copied" /\ log'[p].log_file = NoFile
             /\ log'[p].new_basename = name /\ log'[p].session = log[p].session
             /\ log'[p].lines = log[p].lines /\ log'[p].log_basename = FirstName
             /\ log'[p].current_log_date = log[p].current_log_date
<1>1. /\ log \in [Processes -> Log] /\ log[p] \in Log /\ name \in Names
      /\ name # FirstName /\ FirstName \in Names
  BY Constants DEF TypeInv
<1>2. log[p].current_log_date \in Days /\ log[p].log_basename \in Names
  BY <1>1 DEF Log
<1>3. /\ old_filepath(p) = <<FirstName, log[p].current_log_date>>
      /\ new_filepath(p, name) = <<name, log[p].current_log_date>>
  BY DEF old_filepath, new_filepath
<1>4. /\ old_filepath(p) \in Files /\ new_filepath(p, name) \in Files
      /\ old_filepath(p) # new_filepath(p, name)
  BY <1>1, <1>2, <1>3 DEF Files
<1>5. log' = [log EXCEPT ![p].pc = "copied", ![p].log_file = NoFile, ![p].new_basename = name]
  BY DEF log_update_name
<1>6. /\ log' \in [Processes -> Log]
      /\ \A q \in Processes \ {p} : log'[q] = log[q]
      /\ log'[p].pc = "copied" /\ log'[p].log_file = NoFile
      /\ log'[p].new_basename = name /\ log'[p].session = log[p].session
      /\ log'[p].lines = log[p].lines /\ log'[p].log_basename = FirstName
      /\ log'[p].current_log_date = log[p].current_log_date
  <2> DEFINE l == [log[p] EXCEPT !.pc = "copied", !.log_file = NoFile, !.new_basename = name]
  <2>1. /\ l \in Log /\ l.pc = "copied" /\ l.log_file = NoFile
        /\ l.new_basename = name /\ l.session = log[p].session
        /\ l.lines = log[p].lines /\ l.log_basename = FirstName
        /\ l.current_log_date = log[p].current_log_date
    BY <1>1 DEF Log, NoFile
  <2>2. log' = [log EXCEPT ![p] = l]
    BY <1>1, <1>5
  <2> HIDE DEF l
  <2> QED BY <1>1, <2>1, <2>2
<1> QED BY <1>3, <1>4, <1>6 DEF log_update_name, opens

LEMMA RenamedOpens ==
  ASSUME TypeInv, NEW p \in Processes, renamed(p)
  PROVE  /\ UNCHANGED <<today, sessions, written>> /\ log[p].pc = "copied"
         /\ log[p].new_basename \in Users
         /\ old_filepath(p) = <<log[p].log_basename, log[p].current_log_date>>
         /\ old_filepath(p) \in Files
         /\ \E ok \in BOOLEAN, l \in Log :
              /\ l.pc = "on" /\ l.session = log[p].session /\ l.lines = log[p].lines
              /\ l.log_basename = log[p].new_basename /\ l.log_file = log[p].log_file
              /\ l.current_log_date = log[p].current_log_date
              /\ l.log_file <= Len(removed(fs, old_filepath(p)).data)
              /\ fs' = open_log_file(l, removed(fs, old_filepath(p)), ok).fs
              /\ log' = [log EXCEPT
                           ![p] = open_log_file(l, removed(fs, old_filepath(p)), ok).log]
<1> DEFINE old == old_filepath(p)
           s == removed(fs, old)
           l == [log[p] EXCEPT !.pc = "on", !.log_basename = log[p].new_basename]
<1>1. PICK ok \in BOOLEAN : fs' = open_log_file(l, s, ok).fs
                            /\ log' = [log EXCEPT ![p] = open_log_file(l, s, ok).log]
  BY DEF renamed, opens
<1>2. log[p] \in Log /\ log[p].pc = "copied" /\ log[p].new_basename \in Users
      /\ UNCHANGED <<today, sessions, written>>
  BY DEF renamed, TypeInv
<1>3. old = <<log[p].log_basename, log[p].current_log_date>> /\ old \in Files
  <2>1. old = <<log[p].log_basename, log[p].current_log_date>>
    BY DEF old_filepath
  <2> QED BY <1>2, <2>1 DEF Log, Files
<1>4. /\ l \in Log /\ l.pc = "on" /\ l.session = log[p].session /\ l.lines = log[p].lines
      /\ l.log_basename = log[p].new_basename /\ l.log_file = log[p].log_file
      /\ l.current_log_date = log[p].current_log_date
  BY <1>2 DEF Log
<1>5. s.data = fs.data
  BY <1>3, Removed DEF TypeInv
<1> HIDE DEF l, s, old
<1>6. l.log_file <= Len(s.data)
  BY <1>4, <1>5 DEF TypeInv
<1> QED BY <1>1, <1>2, <1>3, <1>4, <1>6 DEF s, old

LEMMA MessageOpens ==
  ASSUME TypeInv, NEW p \in Processes, log_message(p)
  PROVE  \E ok \in BOOLEAN :
           LET after == open_log_file(log[p], fs, ok)
               line == [session |-> log[p].session, number |-> log[p].lines + 1, day |-> today]
           IN  /\ log[p].pc = "on" /\ UNCHANGED <<today, sessions>> /\ line \in Line
               /\ log' \in [Processes -> Log]
               /\ \A q \in Processes \ {p} : log'[q] = log[q]
               /\ log'[p].pc = "on" /\ log'[p].session = log[p].session
               /\ log'[p].lines = log[p].lines + 1
               /\ log'[p].log_basename = log[p].log_basename
               /\ log'[p].current_log_date = today
               /\ log'[p].log_file = after.log.log_file
               /\ IF after.log.log_file = NoFile
                    THEN fs' = after.fs /\ written' = written
                    ELSE /\ fs' = added(after.fs, after.log.log_file, <<line>>)
                         /\ written' = written \cup {line}
<1>1. PICK ok \in BOOLEAN :
        LET after == open_log_file(log[p], fs, ok)
            line == [session |-> log[p].session, number |-> log[p].lines + 1, day |-> today]
        IN  /\ log' = [log EXCEPT ![p] = [after.log EXCEPT !.lines = @ + 1]]
            /\ IF after.log.log_file = NoFile
                 THEN fs' = after.fs /\ UNCHANGED written
                 ELSE /\ fs' = added(after.fs, after.log.log_file, <<line>>)
                      /\ written' = written \cup {line}
  BY DEF log_message, opens
<1> DEFINE after == open_log_file(log[p], fs, ok)
           a == after.log
           line == [session |-> log[p].session, number |-> log[p].lines + 1, day |-> today]
           l == [a EXCEPT !.lines = @ + 1]
<1>2. log \in [Processes -> Log] /\ log[p] \in Log /\ Sound(fs) /\ today \in Days
      /\ log[p].log_file <= Len(fs.data) /\ log[p].pc = "on"
  BY DEF TypeInv, log_message
<1>3. /\ a \in Log /\ a.pc = log[p].pc /\ a.session = log[p].session
      /\ a.lines = log[p].lines /\ a.log_basename = log[p].log_basename
      /\ a.current_log_date = today
  <2>1. Opens(log[p], fs, today, after)
    BY <1>2, OpenLogFile
  <2> HIDE DEF after
  <2> QED BY <2>1 DEF Opens
<1>4. line \in Line
  BY <1>2 DEF Line, Log
<1>5. /\ log' = [log EXCEPT ![p] = l]
      /\ IF a.log_file = NoFile
           THEN fs' = after.fs /\ written' = written
           ELSE /\ fs' = added(after.fs, a.log_file, <<line>>)
                /\ written' = written \cup {line}
  BY <1>1
<1>6. UNCHANGED <<today, sessions>>
  BY DEF log_message
<1> HIDE DEF a, after, line
<1>7. /\ l \in Log /\ l.pc = a.pc /\ l.session = a.session /\ l.lines = a.lines + 1
      /\ l.log_basename = a.log_basename /\ l.current_log_date = a.current_log_date
      /\ l.log_file = a.log_file
  BY <1>3 DEF Log
<1> HIDE DEF l
<1>8. /\ log' \in [Processes -> Log] /\ log'[p] = l
      /\ \A q \in Processes \ {p} : log'[q] = log[q]
  BY <1>2, <1>5, <1>7
<1> QED BY <1>2, <1>3, <1>4, <1>5, <1>6, <1>7, <1>8 DEF a, after, line

(* A message ends up in the file that is open then.                        *)
LEMMA MessageWritten ==
  ASSUME TypeInv, NEW p \in Processes, log_message(p)
  PROVE  \E after, line :
           /\ Opens(log[p], fs, today, after)
           /\ log[p].pc = "on" /\ UNCHANGED <<today, sessions>>
           /\ line = [session |-> log[p].session, number |-> log[p].lines + 1, day |-> today]
           /\ line \in Line /\ <<line>> \in Seq(Line)
           /\ log' \in [Processes -> Log]
           /\ \A q \in Processes \ {p} : log'[q] = log[q]
           /\ log'[p].pc = "on" /\ log'[p].session = log[p].session
           /\ log'[p].lines = log[p].lines + 1
           /\ log'[p].log_basename = log[p].log_basename
           /\ log'[p].current_log_date = today
           /\ log'[p].log_file = after.log.log_file
           /\ \/ /\ after.log.log_file = NoFile
                 /\ fs' = after.fs /\ written' = written
              \/ /\ after.log.log_file \in 1..Len(after.fs.data)
                 /\ fs' = added(after.fs, after.log.log_file, <<line>>)
                 /\ written' = written \cup {line}
<1>1. PICK ok \in BOOLEAN :
           LET after == open_log_file(log[p], fs, ok)
               line == [session |-> log[p].session, number |-> log[p].lines + 1, day |-> today]
           IN  /\ log[p].pc = "on" /\ UNCHANGED <<today, sessions>> /\ line \in Line
               /\ log' \in [Processes -> Log]
               /\ \A q \in Processes \ {p} : log'[q] = log[q]
               /\ log'[p].pc = "on" /\ log'[p].session = log[p].session
               /\ log'[p].lines = log[p].lines + 1
               /\ log'[p].log_basename = log[p].log_basename
               /\ log'[p].current_log_date = today
               /\ log'[p].log_file = after.log.log_file
               /\ IF after.log.log_file = NoFile
                    THEN fs' = after.fs /\ written' = written
                    ELSE /\ fs' = added(after.fs, after.log.log_file, <<line>>)
                         /\ written' = written \cup {line}
  BY MessageOpens
<1> DEFINE after == open_log_file(log[p], fs, ok)
           line == [session |-> log[p].session, number |-> log[p].lines + 1, day |-> today]
<1>2. /\ log[p] \in Log /\ Sound(fs) /\ today \in Days /\ log[p].log_file <= Len(fs.data)
  BY DEF TypeInv
<1>3. Opens(log[p], fs, today, after)
  BY <1>2, OpenLogFile
<1> HIDE DEF after
<1>4. after.log.log_file # NoFile => after.log.log_file \in 1..Len(after.fs.data)
  <2>1. after.log.log_file \in Nat /\ after.log.log_file <= Len(after.fs.data)
        /\ after.fs.data \in Seq(Seq(Line))
    BY <1>3 DEF Opens, Log, Sound, Directory
  <2>2. Len(after.fs.data) \in Nat
    BY <2>1, Elements
  <2> QED BY <2>1, <2>2 DEF NoFile
<1>5. line \in Line /\ <<line>> \in Seq(Line)
  <2>1. line \in Line
    BY <1>1
  <2> HIDE DEF line
  <2> QED BY <2>1
<1> QED BY <1>1, <1>3, <1>4, <1>5 DEF after

LEMMA OpensOnly ==
  ASSUME TypeInv, NEW p \in Processes, NEW l, NEW s, Sound(s), s.data = fs.data,
         NEW after, Opens(l, s, today, after), l.pc = "on",
         fs' = after.fs, log' = [log EXCEPT ![p] = after.log], today' = today,
         sessions' \in Nat
  PROVE  TypeInv'
<1>1. /\ log' \in [Processes -> Log] /\ \A q \in Processes \ {p} : log'[q] = log[q]
      /\ log'[p] = after.log
  BY DEF TypeInv, Opens
<1>2. Len(fs.data) <= Len(fs'.data)
  <2> DEFINE f == <<l.log_basename, today>>
  <2>1. f \in Files /\ (after.fs = s \/ after.fs = opened(s, f))
    BY DEF Opens
  <2>2. Len(s.data) <= Len(opened(s, f).data)
    BY <2>1, Opened
  <2>3. Len(s.data) \in Nat
    <3>1. s.data \in Seq(Seq(Line))
      BY DEF Sound, Directory
    <3> QED BY <3>1
  <2> QED BY <2>1, <2>2, <2>3
<1> QED BY <1>1, <1>2, TypeKept DEF Opens, TypeInv

LEMMA TypeStep == TypeInv /\ [Next]_vars => TypeInv'
<1> SUFFICES ASSUME TypeInv, [Next]_vars PROVE TypeInv'
  OBVIOUS
<1>1. /\ log \in [Processes -> Log] /\ Sound(fs) /\ today \in Days /\ sessions \in Nat
      /\ fs.data \in Seq(Seq(Line)) /\ Len(fs.data) \in Nat
  <2>1. fs.data \in Seq(Seq(Line))
    BY DEF TypeInv, Sound, Directory
  <2> QED BY <2>1 DEF TypeInv
<1>2. ASSUME NEW p \in Processes, log_init(p)
      PROVE  TypeInv'
  <2>1. sessions' = sessions + 1 /\ UNCHANGED <<today, written>>
    BY <1>2, InitOpens
  <2>2. PICK ok \in BOOLEAN, l \in Log :
          /\ l.pc = "on" /\ l.log_file <= Len(fs.data)
          /\ fs' = open_log_file(l, fs, ok).fs
          /\ log' = [log EXCEPT ![p] = open_log_file(l, fs, ok).log]
    BY <1>2, InitOpens
  <2> DEFINE after == open_log_file(l, fs, ok)
  <2>3. Opens(l, fs, today, after)
    BY <1>1, <2>2, OpenLogFile
  <2>4. fs' = after.fs /\ log' = [log EXCEPT ![p] = after.log]
    BY <2>2
  <2> HIDE DEF after
  <2>5. fs.data = fs.data /\ today' = today /\ sessions' \in Nat
    BY <1>1, <2>1
  <2> QED BY <1>1, <2>2, <2>3, <2>4, <2>5, OpensOnly
<1>3. ASSUME NEW p \in Processes, log_message(p)
      PROVE  TypeInv'
  <2>1. PICK after, line :
           /\ Opens(log[p], fs, today, after)
           /\ log[p].pc = "on" /\ UNCHANGED <<today, sessions>>
           /\ line = [session |-> log[p].session, number |-> log[p].lines + 1, day |-> today]
           /\ line \in Line /\ <<line>> \in Seq(Line)
           /\ log' \in [Processes -> Log]
           /\ \A q \in Processes \ {p} : log'[q] = log[q]
           /\ log'[p].pc = "on" /\ log'[p].session = log[p].session
           /\ log'[p].lines = log[p].lines + 1
           /\ log'[p].log_basename = log[p].log_basename
           /\ log'[p].current_log_date = today
           /\ log'[p].log_file = after.log.log_file
           /\ \/ /\ after.log.log_file = NoFile
                 /\ fs' = after.fs /\ written' = written
              \/ /\ after.log.log_file \in 1..Len(after.fs.data)
                 /\ fs' = added(after.fs, after.log.log_file, <<line>>)
                 /\ written' = written \cup {line}
    BY <1>3, MessageWritten
  <2>2. Sound(after.fs) /\ after.log.log_file <= Len(after.fs.data)
    BY <2>1 DEF Opens
  <2>3. Sound(fs') /\ Len(fs'.data) = Len(after.fs.data)
    <3>1. CASE fs' = after.fs
      BY <2>2, <3>1
    <3>2. CASE /\ after.log.log_file \in 1..Len(after.fs.data)
               /\ fs' = added(after.fs, after.log.log_file, <<line>>)
      <4> DEFINE file == after.log.log_file
                 s == after.fs
      <4>1. Sound(s) /\ file \in 1..Len(s.data) /\ <<line>> \in Seq(Line)
            /\ fs' = added(s, file, <<line>>)
        BY <2>1, <2>2, <3>2
      <4> HIDE DEF file, s
      <4>2. Sound(fs') /\ Len(fs'.data) = Len(s.data)
        BY <4>1, Added
      <4> QED BY <4>2 DEF s
    <3> QED BY <2>1, <3>1, <3>2
  <2>4. Len(fs.data) <= Len(after.fs.data)
    <3> DEFINE f == <<log[p].log_basename, today>>
    <3>1. f \in Files /\ (after.fs = fs \/ after.fs = opened(fs, f))
      BY <2>1 DEF Opens
    <3>2. Len(fs.data) <= Len(opened(fs, f).data)
      BY <1>1, <3>1, Opened
    <3> QED BY <1>1, <3>1, <3>2
  <2> QED BY <1>1, <2>1, <2>2, <2>3, <2>4, TypeKept
<1>4. ASSUME NEW p \in Processes, renamed(p)
      PROVE  TypeInv'
  <2> DEFINE s == removed(fs, old_filepath(p))
  <2>1. UNCHANGED <<today, sessions, written>> /\ old_filepath(p) \in Files
    BY <1>4, RenamedOpens
  <2>2. PICK ok \in BOOLEAN, l \in Log :
              /\ l.pc = "on" /\ l.log_file <= Len(s.data)
              /\ fs' = open_log_file(l, s, ok).fs
              /\ log' = [log EXCEPT ![p] = open_log_file(l, s, ok).log]
    BY <1>4, RenamedOpens
  <2>3. Sound(s) /\ s.data = fs.data
    BY <1>1, <2>1, Removed
  <2> HIDE DEF s
  <2> DEFINE after == open_log_file(l, s, ok)
  <2>4. Opens(l, s, today, after)
    BY <1>1, <2>2, <2>3, OpenLogFile
  <2>5. fs' = after.fs /\ log' = [log EXCEPT ![p] = after.log]
    BY <2>2
  <2> HIDE DEF after
  <2> QED BY <1>1, <2>1, <2>2, <2>3, <2>4, <2>5, OpensOnly
<1>5. ASSUME NEW p \in Processes, Ends(p)
      PROVE  TypeInv'
  <2>1. log' = [log EXCEPT ![p] = NotRunning] /\ UNCHANGED <<fs, today, sessions, written>>
    BY <1>5 DEF Ends
  <2>2. /\ log' \in [Processes -> Log] /\ log'[p] = NotRunning
        /\ \A q \in Processes \ {p} : log'[q] = log[q]
    BY <1>1, <2>1, Constants
  <2>3. log'[p].log_file <= Len(fs'.data) /\ log'[p].pc # "copied"
        /\ Len(fs.data) <= Len(fs'.data)
    BY <1>1, <2>1, <2>2, Constants DEF NoFile
  <2> QED BY <1>1, <2>1, <2>2, <2>3, TypeKept
<1>6. ASSUME NEW p \in Processes, NEW name \in Users,
             log[p].log_basename = FirstName, log_update_name(p, name)
      PROVE  TypeInv'
  <2> DEFINE old == old_filepath(p)
             new == new_filepath(p, name)
  <2>1. /\ UNCHANGED <<today, sessions>> /\ old \in Files /\ new \in Files /\ old # new
        /\ log' \in [Processes -> Log]
        /\ \A q \in Processes \ {p} : log'[q] = log[q]
        /\ log'[p].log_file = NoFile /\ log'[p].new_basename = name
    BY <1>6, UpdateCopies
  <2>2. PICK old_ok \in BOOLEAN, new_ok \in BOOLEAN :
          fs' = copied(old, new, old_ok, new_ok)
    BY <1>6, UpdateCopies
  <2> HIDE DEF old, new
  <2>3. Sound(fs') /\ Len(fs.data) <= Len(fs'.data)
    <3>1. Copies(fs, old, new, old_ok /\ new_ok, fs')
      BY <1>1, <2>1, <2>2, Copied
    <3> QED BY <3>1 DEF Copies
  <2>4. log'[p].log_file <= Len(fs'.data)
    <3>1. fs'.data \in Seq(Seq(Line))
      BY <2>3 DEF Sound, Directory
    <3>2. Len(fs'.data) \in Nat
      BY <3>1
    <3> QED BY <2>1, <3>2 DEF NoFile
  <2> QED BY <1>1, <2>1, <2>3, <2>4, TypeKept
<1>7. CASE Midnight
  BY <1>7, LoggerConstants DEF Midnight, TypeInv, Days
<1>8. CASE UNCHANGED vars
  BY <1>8 DEF vars, TypeInv
<1> QED BY <1>2, <1>3, <1>4, <1>5, <1>6, <1>7, <1>8 DEF Next, LoggerStep

-----------------------------------------------------------------------------
(* The day of a file                                                       *)

(* A file, removed or not, has one day: that of its name, of its lines and *)
(* of whoever has it open.                                                 *)
DayOK(s, day) ==
  /\ \A f \in Files : s.dir[f] # NoFile => day[s.dir[f]] = f[2]
  /\ \A k \in 1..Len(s.data) : \A i \in 1..Len(s.data[k]) : s.data[k][i].day = day[k]

HandlesOK(day) ==
  \A p \in Processes : log[p].log_file # NoFile =>
    day[log[p].log_file] = log[p].current_log_date

DayInv == TypeInv /\ \E day \in [Nat -> Days] : DayOK(fs, day) /\ HandlesOK(day)

LEMMA DayOpened ==
  ASSUME NEW s, Sound(s), NEW f \in Files, NEW day \in [Nat -> Days], DayOK(s, day)
  PROVE  \E day2 \in [Nat -> Days] :
           /\ DayOK(opened(s, f), day2)
           /\ \A k \in 1..Len(s.data) : day2[k] = day[k]
<1> DEFINE n == Len(s.data)
           t == opened(s, f)
<1>1. /\ s.data \in Seq(Seq(Line)) /\ n \in Nat /\ f[2] \in Days
      /\ \A g \in Files : s.dir[g] \in Nat /\ s.dir[g] <= n
      /\ s.dir \in [Files -> Nat]
  <2>1. s.data \in Seq(Seq(Line))
    BY DEF Sound, Directory
  <2>2. n \in Nat
    BY <2>1
  <2> QED BY <2>1, <2>2 DEF Sound, Directory, Files
<1>2. CASE s.dir[f] # NoFile
  BY <1>2 DEF opened
<1>3. CASE s.dir[f] = NoFile
  <2> DEFINE day2 == [day EXCEPT ![n + 1] = f[2]]
  <2>1. day2 \in [Nat -> Days] /\ day2[n + 1] = f[2]
        /\ \A k \in 1..n : day2[k] = day[k]
    BY <1>1
  <2> HIDE DEF day2
  <2>2. /\ t.dir = [s.dir EXCEPT ![f] = n + 1] /\ t.data = Append(s.data, <<>>)
    BY <1>3 DEF opened
  <2> HIDE DEF t
  <2>3. /\ Len(t.data) = n + 1 /\ t.data[n + 1] = <<>>
        /\ \A k \in 1..n : t.data[k] = s.data[k]
    <3>1. <<>> \in Seq(Line)
      OBVIOUS
    <3> QED BY <1>1, <2>2, <3>1
  <2>4. /\ t.dir[f] = n + 1 /\ \A g \in Files : g # f => t.dir[g] = s.dir[g]
    BY <1>1, <2>2
  <2> HIDE DEF n
  <2>5. ASSUME NEW g \in Files, t.dir[g] # NoFile
        PROVE  day2[t.dir[g]] = g[2]
    <3>1. CASE g = f
      BY <2>1, <2>4, <3>1
    <3>2. CASE g # f
      <4>1. t.dir[g] = s.dir[g] /\ s.dir[g] \in 1..n
        BY <1>1, <2>4, <2>5, <3>2 DEF NoFile
      <4> QED BY <2>1, <2>5, <4>1 DEF DayOK
    <3> QED BY <3>1, <3>2
  <2>6. ASSUME NEW k \in 1..Len(t.data), NEW i \in 1..Len(t.data[k])
        PROVE  t.data[k][i].day = day2[k]
    <3>1. CASE k = n + 1
      <4>1. Len(<<>>) = 0
        OBVIOUS
      <4>2. i \in 1..0
        BY <2>3, <3>1, <4>1
      <4> QED BY <4>2
    <3>2. CASE k # n + 1
      <4>1. k \in 1..n
        BY <1>1, <2>3, <3>2
      <4> QED BY <2>1, <2>3, <4>1 DEF DayOK, n
    <3> QED BY <3>1, <3>2
  <2>7. DayOK(t, day2)
    BY <2>5, <2>6 DEF DayOK
  <2> QED BY <2>1, <2>7 DEF t, n
<1> QED BY <1>2, <1>3

LEMMA DayAdded ==
  ASSUME NEW s, Sound(s), NEW file \in 1..Len(s.data), NEW lines \in Seq(Line),
         NEW day \in [Nat -> Days], DayOK(s, day),
         \A i \in 1..Len(lines) : lines[i].day = day[file]
  PROVE  DayOK(added(s, file, lines), day)
<1> DEFINE t == added(s, file, lines)
<1>1. /\ t.dir = s.dir /\ Len(t.data) = Len(s.data)
      /\ t.data[file] = s.data[file] \o lines /\ s.data[file] \in Seq(Line)
      /\ \A k \in 1..Len(s.data) : k # file => t.data[k] = s.data[k]
  BY Added
<1> HIDE DEF t
<1>2. ASSUME NEW k \in 1..Len(t.data), NEW i \in 1..Len(t.data[k])
      PROVE  t.data[k][i].day = day[k]
  <2>1. CASE k # file
    BY <1>1, <2>1 DEF DayOK
  <2>2. CASE k = file
    <3> DEFINE x == s.data[file]
    <3>1. x \in Seq(Line) /\ t.data[k] = x \o lines
          /\ \A j \in 1..Len(x) : x[j].day = day[file]
      BY <1>1, <2>2 DEF DayOK
    <3> HIDE DEF x
    <3>2. /\ i \in 1..(Len(x) + Len(lines))
          /\ \A j \in 1..Len(x) : (x \o lines)[j] = x[j]
          /\ \A j \in 1..Len(lines) : (x \o lines)[Len(x) + j] = lines[j]
          /\ i \in 1..Len(x) \/ \E j \in 1..Len(lines) : i = Len(x) + j
      <4>1. Len(x \o lines) = Len(x) + Len(lines)
        BY <3>1, Joined
      <4>2. i \in 1..(Len(x) + Len(lines))
        BY <3>1, <4>1
      <4> QED BY <3>1, <4>2, Joined
    <3>3. CASE i \in 1..Len(x)
      BY <2>2, <3>1, <3>2, <3>3
    <3>4. CASE \E j \in 1..Len(lines) : i = Len(x) + j
      BY <2>2, <3>1, <3>2, <3>4
    <3> QED BY <3>2, <3>3, <3>4
  <2> QED BY <2>1, <2>2
<1>3. \A f \in Files : t.dir[f] # NoFile => day[t.dir[f]] = f[2]
  BY <1>1 DEF DayOK
<1>4. DayOK(t, day)
  BY <1>2, <1>3 DEF DayOK
<1> QED BY <1>4 DEF t

LEMMA DayRemoved ==
  ASSUME NEW s, Sound(s), NEW f \in Files, NEW day, DayOK(s, day)
  PROVE  DayOK(removed(s, f), day)
<1> DEFINE t == removed(s, f)
<1>1. /\ t.data = s.data /\ t.dir[f] = NoFile
      /\ \A g \in Files : g # f => t.dir[g] = s.dir[g]
  BY Removed
<1> HIDE DEF t
<1>2. DayOK(t, day)
  BY <1>1 DEF DayOK
<1> QED BY <1>2 DEF t

(* A file that open_log_file opens is of today.                            *)
LEMMA DayOpens ==
  ASSUME NEW l \in Log, NEW s, Sound(s), l.log_file <= Len(s.data), today \in Days,
         NEW after, Opens(l, s, today, after),
         NEW day \in [Nat -> Days], DayOK(s, day),
         l.log_file # NoFile => day[l.log_file] = l.current_log_date
  PROVE  \E day2 \in [Nat -> Days] :
           /\ DayOK(after.fs, day2)
           /\ \A k \in 1..Len(s.data) : day2[k] = day[k]
           /\ after.log.log_file # NoFile => day2[after.log.log_file] = today
<1> DEFINE f == <<l.log_basename, today>>
           o == opened(s, f)
<1>1. f \in Files /\ f[2] = today /\ (after.fs = s \/ after.fs = o)
      /\ \/ after.log.log_file = NoFile
         \/ /\ l.log_file # NoFile /\ l.current_log_date = today
            /\ after.log.log_file = l.log_file /\ after.fs = s
         \/ after.log.log_file = o.dir[f] /\ after.fs = o
  BY DEF Opens
<1>2. PICK day2 \in [Nat -> Days] : DayOK(o, day2) /\ \A k \in 1..Len(s.data) : day2[k] = day[k]
  BY <1>1, DayOpened
<1> HIDE DEF f, o
<1>3. CASE after.log.log_file = NoFile /\ after.fs = s
  BY <1>3
<1>4. CASE after.log.log_file = NoFile /\ after.fs = o
  BY <1>2, <1>4
<1>5. CASE /\ l.log_file # NoFile /\ l.current_log_date = today
           /\ after.log.log_file = l.log_file /\ after.fs = s
  BY <1>5
<1>6. CASE after.log.log_file = o.dir[f] /\ after.fs = o
  <2>1. o.dir[f] # NoFile => day2[o.dir[f]] = today
    BY <1>1, <1>2 DEF DayOK
  <2> QED BY <1>2, <1>6, <2>1
<1> QED BY <1>1, <1>3, <1>4, <1>5, <1>6

LEMMA DayInit == Init => DayInv
<1> SUFFICES ASSUME Init PROVE DayInv
  OBVIOUS
<1>1. TypeInv
  BY TypeInit
<1>2. /\ fs.dir = [f \in Files |-> NoFile] /\ fs.data = <<>> /\ Len(<<>>) = 0
      /\ log = [p \in Processes |-> NotRunning]
  BY DEF Init, Files
<1> DEFINE day == [k \in Nat |-> 0]
<1>3. day \in [Nat -> Days]
  BY Constants
<1>4. DayOK(fs, day)
  BY <1>2 DEF DayOK
<1>5. HandlesOK(day)
  BY <1>2, Constants DEF HandlesOK
<1> QED BY <1>1, <1>3, <1>4, <1>5 DEF DayInv

LEMMA DayKept ==
  ASSUME TypeInv, TypeInv', NEW p \in Processes, NEW day, HandlesOK(day),
         NEW day2 \in [Nat -> Days], DayOK(fs', day2),
         \A k \in 1..Len(fs.data) : day2[k] = day[k],
         \A q \in Processes \ {p} : log'[q] = log[q],
         log'[p].log_file # NoFile => day2[log'[p].log_file] = log'[p].current_log_date
  PROVE  DayInv'
<1>1. ASSUME NEW q \in Processes, log'[q].log_file # NoFile
      PROVE  day2[log'[q].log_file] = log'[q].current_log_date
  <2>1. CASE q = p
    BY <1>1, <2>1
  <2>2. CASE q # p
    <3>1. log'[q] = log[q] /\ log[q].log_file \in Nat /\ log[q].log_file <= Len(fs.data)
      BY <2>2 DEF TypeInv, Log
    <3>2. log[q].log_file \in 1..Len(fs.data)
      <4>1. fs.data \in Seq(Seq(Line))
        BY DEF TypeInv, Sound, Directory
      <4>2. Len(fs.data) \in Nat
        BY <4>1
      <4> QED BY <1>1, <3>1, <4>2 DEF NoFile
    <3> QED BY <1>1, <3>1, <3>2 DEF HandlesOK
  <2> QED BY <2>1, <2>2
<1>2. HandlesOK(day2)'
  BY <1>1 DEF HandlesOK
<1> QED BY <1>2 DEF DayInv

LEMMA DayMessage ==
  ASSUME DayInv, TypeInv', NEW p \in Processes, log_message(p)
  PROVE  DayInv'
<1>1. TypeInv /\ TypeInv' /\ log[p] \in Log /\ Sound(fs) /\ today \in Days
      /\ log[p].log_file <= Len(fs.data)
  BY DEF DayInv, TypeInv
<1>2. PICK day \in [Nat -> Days] : DayOK(fs, day) /\ HandlesOK(day)
  BY DEF DayInv
<1>3. PICK after, line :
         /\ Opens(log[p], fs, today, after)
         /\ log[p].pc = "on" /\ UNCHANGED <<today, sessions>>
         /\ line = [session |-> log[p].session, number |-> log[p].lines + 1, day |-> today]
         /\ line \in Line /\ <<line>> \in Seq(Line)
         /\ log' \in [Processes -> Log]
         /\ \A q \in Processes \ {p} : log'[q] = log[q]
         /\ log'[p].pc = "on" /\ log'[p].session = log[p].session
         /\ log'[p].lines = log[p].lines + 1
         /\ log'[p].log_basename = log[p].log_basename
         /\ log'[p].current_log_date = today
         /\ log'[p].log_file = after.log.log_file
         /\ \/ /\ after.log.log_file = NoFile
               /\ fs' = after.fs /\ written' = written
            \/ /\ after.log.log_file \in 1..Len(after.fs.data)
               /\ fs' = added(after.fs, after.log.log_file, <<line>>)
               /\ written' = written \cup {line}
  BY <1>1, MessageWritten
<1>4. PICK day2 \in [Nat -> Days] :
        /\ DayOK(after.fs, day2)
        /\ \A k \in 1..Len(fs.data) : day2[k] = day[k]
        /\ after.log.log_file # NoFile => day2[after.log.log_file] = today
  <2>1. log[p].log_file # NoFile => day[log[p].log_file] = log[p].current_log_date
    BY <1>2 DEF HandlesOK
  <2>2. Opens(log[p], fs, today, after)
    BY <1>3
  <2> QED BY <1>1, <1>2, <2>1, <2>2, DayOpens
<1>5. Sound(after.fs)
  BY <1>3 DEF Opens
<1>6. DayOK(fs', day2)
  <2>1. CASE fs' = after.fs
    BY <1>4, <2>1
  <2>2. CASE /\ after.log.log_file \in 1..Len(after.fs.data)
             /\ fs' = added(after.fs, after.log.log_file, <<line>>)
    <3> DEFINE file == after.log.log_file
               s == after.fs
               lines == <<line>>
    <3>1. day2[file] = today
      <4>1. Len(s.data) \in Nat
        <5>1. s.data \in Seq(Seq(Line))
          BY <1>5 DEF Sound, Directory
        <5> QED BY <5>1
      <4>2. file # NoFile
        BY <2>2, <4>1 DEF NoFile
      <4> QED BY <1>4, <4>2
    <3>2. lines \in Seq(Line) /\ \A i \in 1..Len(lines) : lines[i].day = day2[file]
      <4>1. line.day = today
        BY <1>3
      <4>2. Len(lines) = 1 /\ lines[1] = line
        OBVIOUS
      <4>3. lines \in Seq(Line)
        BY <1>3
      <4> HIDE DEF lines, file
      <4> QED BY <3>1, <4>1, <4>2, <4>3
    <3>3. Sound(s) /\ file \in 1..Len(s.data) /\ DayOK(s, day2) /\ fs' = added(s, file, lines)
      BY <1>4, <1>5, <2>2
    <3> HIDE DEF file, s, lines
    <3> QED BY <1>4, <3>2, <3>3, DayAdded
  <2> QED BY <1>3, <2>1, <2>2
<1>7. /\ \A q \in Processes \ {p} : log'[q] = log[q]
      /\ log'[p].log_file # NoFile => day2[log'[p].log_file] = log'[p].current_log_date
  BY <1>3, <1>4
<1> QED BY <1>1, <1>2, <1>4, <1>6, <1>7, DayKept

LEMMA DayUpdate ==
  ASSUME DayInv, TypeInv', NEW p \in Processes, NEW name \in Users,
         log[p].log_basename = FirstName, log_update_name(p, name)
  PROVE  DayInv'
<1> DEFINE old == old_filepath(p)
           new == new_filepath(p, name)
           o == opened(fs, new)
<1>1. TypeInv /\ TypeInv' /\ Sound(fs)
  BY DEF DayInv, TypeInv
<1>2. PICK day \in [Nat -> Days] : DayOK(fs, day) /\ HandlesOK(day)
  BY DEF DayInv
<1>3. /\ old \in Files /\ new \in Files /\ old # new
      /\ old = <<FirstName, log[p].current_log_date>>
      /\ new = <<name, log[p].current_log_date>>
      /\ \A q \in Processes \ {p} : log'[q] = log[q]
      /\ log'[p].log_file = NoFile
  BY <1>1, UpdateCopies
<1>4. PICK old_ok \in BOOLEAN, new_ok \in BOOLEAN : fs' = copied(old, new, old_ok, new_ok)
  BY <1>1, UpdateCopies
<1>5. old[2] = new[2]
  BY <1>3
<1> HIDE DEF old, new
<1>6. PICK day2 \in [Nat -> Days] : DayOK(o, day2) /\ \A k \in 1..Len(fs.data) : day2[k] = day[k]
  <2>1. Sound(fs) /\ new \in Files /\ DayOK(fs, day)
    BY <1>1, <1>2, <1>3
  <2> QED BY <2>1, DayOpened
<1>7. Sound(o) /\ o.dir[new] # NoFile
  BY <1>1, <1>3, Opened
<1>8. \/ fs' = fs \/ fs' = o
      \/ /\ fs.dir[old] # NoFile /\ o.dir[new] \in 1..Len(o.data)
         /\ content(fs, old) \in Seq(Line)
         /\ fs' = added(o, o.dir[new], content(fs, old))
  <2>1. Copies(fs, old, new, old_ok /\ new_ok, fs')
    BY <1>1, <1>3, <1>4, Copied
  <2> QED BY <2>1 DEF Copies
<1> HIDE DEF o
<1>9. CASE fs' = fs
  BY <1>1, <1>2, <1>3, <1>9, DayKept
<1>10. CASE fs' = o
  BY <1>1, <1>2, <1>3, <1>6, <1>10, DayKept
<1>11. CASE /\ fs.dir[old] # NoFile /\ o.dir[new] \in 1..Len(o.data)
            /\ content(fs, old) \in Seq(Line)
            /\ fs' = added(o, o.dir[new], content(fs, old))
  <2> DEFINE lines == content(fs, old)
             file == o.dir[new]
  <2>1. day2[file] = new[2]
    BY <1>3, <1>6, <1>7 DEF DayOK
  <2>2. \A i \in 1..Len(lines) : lines[i].day = old[2]
    <3>1. fs.dir[old] # NoFile
      BY <1>11
    <3>2. lines = fs.data[fs.dir[old]] /\ fs.dir[old] \in 1..Len(fs.data)
      BY <1>1, <1>3, <3>1, Contents DEF content
    <3>3. day[fs.dir[old]] = old[2]
      BY <1>2, <1>3, <3>1 DEF DayOK
    <3> QED BY <1>2, <3>2, <3>3 DEF DayOK
  <2>3. \A i \in 1..Len(lines) : lines[i].day = day2[file]
    BY <1>5, <2>1, <2>2
  <2>4. file \in 1..Len(o.data) /\ lines \in Seq(Line) /\ fs' = added(o, file, lines)
    BY <1>11
  <2> HIDE DEF lines, file
  <2>5. DayOK(fs', day2)
    BY <1>6, <1>7, <2>3, <2>4, DayAdded
  <2> QED BY <1>1, <1>2, <1>3, <1>6, <2>5, DayKept
<1> QED BY <1>8, <1>9, <1>10, <1>11

LEMMA DayStep == DayInv /\ [Next]_vars => DayInv'
<1> SUFFICES ASSUME DayInv, [Next]_vars PROVE DayInv'
  OBVIOUS
<1>1. /\ TypeInv /\ TypeInv' /\ Sound(fs) /\ today \in Days /\ sessions \in Nat
      /\ log \in [Processes -> Log]
  BY TypeStep DEF DayInv, TypeInv
<1>2. PICK day \in [Nat -> Days] : DayOK(fs, day) /\ HandlesOK(day)
  BY DEF DayInv
<1>3. ASSUME NEW p \in Processes, log_init(p)
      PROVE  DayInv'
  <2>1. PICK ok \in BOOLEAN, l \in Log :
              /\ l.pc = "on" /\ l.session = sessions + 1 /\ l.lines = 0
              /\ l.log_basename = FirstName /\ l.log_file = NoFile
              /\ l.new_basename = FirstName /\ l.log_file <= Len(fs.data)
              /\ fs' = open_log_file(l, fs, ok).fs
              /\ log' = [log EXCEPT ![p] = open_log_file(l, fs, ok).log]
    BY <1>1, <1>3, InitOpens
  <2> DEFINE after == open_log_file(l, fs, ok)
  <2>2. Opens(l, fs, today, after)
    BY <1>1, <2>1, OpenLogFile
  <2>3. fs' = after.fs /\ log' = [log EXCEPT ![p] = after.log]
    BY <2>1
  <2> HIDE DEF after
  <2>4. PICK day2 \in [Nat -> Days] :
          /\ DayOK(after.fs, day2)
          /\ \A k \in 1..Len(fs.data) : day2[k] = day[k]
          /\ after.log.log_file # NoFile => day2[after.log.log_file] = today
    BY <1>1, <1>2, <2>1, <2>2, DayOpens
  <2>5. /\ \A q \in Processes \ {p} : log'[q] = log[q]
        /\ log'[p] = after.log /\ after.log.current_log_date = today
    BY <1>1, <2>2, <2>3 DEF Opens
  <2>6. log'[p].log_file # NoFile => day2[log'[p].log_file] = log'[p].current_log_date
    BY <2>4, <2>5
  <2>7. DayOK(fs', day2)
    BY <2>3, <2>4
  <2> QED BY <1>1, <1>2, <2>4, <2>5, <2>6, <2>7, DayKept
<1>4. ASSUME NEW p \in Processes, log_message(p)
      PROVE  DayInv'
  BY <1>1, <1>4, DayMessage
<1>5. ASSUME NEW p \in Processes, renamed(p)
      PROVE  DayInv'
  <2> DEFINE s == removed(fs, old_filepath(p))
  <2>1. old_filepath(p) \in Files
    BY <1>1, <1>5, RenamedOpens
  <2>2. PICK ok \in BOOLEAN, l \in Log :
              /\ l.pc = "on" /\ l.session = log[p].session /\ l.lines = log[p].lines
              /\ l.log_basename = log[p].new_basename /\ l.log_file = log[p].log_file
              /\ l.current_log_date = log[p].current_log_date
              /\ l.log_file <= Len(s.data)
              /\ fs' = open_log_file(l, s, ok).fs
              /\ log' = [log EXCEPT ![p] = open_log_file(l, s, ok).log]
    BY <1>1, <1>5, RenamedOpens
  <2>3. Sound(s) /\ s.data = fs.data /\ DayOK(s, day)
    BY <1>1, <1>2, <2>1, Removed, DayRemoved
  <2> HIDE DEF s
  <2> DEFINE after == open_log_file(l, s, ok)
  <2>4. Opens(l, s, today, after)
    BY <1>1, <2>2, <2>3, OpenLogFile
  <2>5. fs' = after.fs /\ log' = [log EXCEPT ![p] = after.log]
    BY <2>2
  <2> HIDE DEF after
  <2>6. l.log_file # NoFile => day[l.log_file] = l.current_log_date
    BY <1>2, <2>2 DEF HandlesOK
  <2>7. PICK day2 \in [Nat -> Days] :
          /\ DayOK(after.fs, day2)
          /\ \A k \in 1..Len(s.data) : day2[k] = day[k]
          /\ after.log.log_file # NoFile => day2[after.log.log_file] = today
    BY <1>1, <2>2, <2>3, <2>4, <2>6, DayOpens
  <2>8. /\ \A q \in Processes \ {p} : log'[q] = log[q]
        /\ log'[p] = after.log /\ after.log.current_log_date = today
    BY <1>1, <2>4, <2>5 DEF Opens
  <2>9. log'[p].log_file # NoFile => day2[log'[p].log_file] = log'[p].current_log_date
    BY <2>7, <2>8
  <2>10. DayOK(fs', day2) /\ \A k \in 1..Len(fs.data) : day2[k] = day[k]
    BY <2>3, <2>5, <2>7
  <2> QED BY <1>1, <1>2, <2>7, <2>8, <2>9, <2>10, DayKept
<1>6. ASSUME NEW p \in Processes, Ends(p)
      PROVE  DayInv'
  <2>1. log' = [log EXCEPT ![p] = NotRunning] /\ UNCHANGED <<fs, today, sessions, written>>
    BY <1>6 DEF Ends
  <2>2. log'[p] = NotRunning /\ \A q \in Processes \ {p} : log'[q] = log[q]
    BY <1>1, <2>1
  <2>3. log'[p].log_file = NoFile /\ DayOK(fs', day)
    BY <1>2, <2>1, <2>2, Constants
  <2> QED BY <1>1, <1>2, <2>2, <2>3, DayKept
<1>7. ASSUME NEW p \in Processes, NEW name \in Users,
             log[p].log_basename = FirstName, log_update_name(p, name)
      PROVE  DayInv'
  BY <1>1, <1>7, DayUpdate
<1>8. CASE Midnight \/ UNCHANGED vars
  <2>1. fs' = fs /\ log' = log
    BY <1>8 DEF Midnight, vars
  <2> QED BY <1>1, <1>2, <2>1 DEF DayInv, HandlesOK
<1> QED BY <1>3, <1>4, <1>5, <1>6, <1>7, <1>8 DEF Next, LoggerStep

(* README.md:24, "Rotated daily logs": with any number of programs in the  *)
(* directory, and whatever is renamed, removed and opened again around     *)
(* midnight, a line is in a file of its day.                               *)
THEOREM FilesAreDaily == Spec => []LinesInFileOfDay
<1>1. DayInv => LinesInFileOfDay
  <2> SUFFICES ASSUME DayInv, NEW f \in Files, NEW i \in DOMAIN lines_of(f)
               PROVE  lines_of(f)[i].day = f[2]
    <3>1. DayInv => DOMAIN fs.dir = Files
      BY DEF DayInv, TypeInv, Sound, Directory
    <3> QED BY <3>1 DEF LinesInFileOfDay
  <2>1. PICK day \in [Nat -> Days] : DayOK(fs, day)
    BY DEF DayInv
  <2>2. lines_of(f) = content(fs, f) /\ Sound(fs)
    BY ContentOf DEF DayInv, TypeInv
  <2>3. i \in 1..Len(content(fs, f))
    BY <2>2, Contents
  <2>4. CASE fs.dir[f] = NoFile
    <3>1. content(fs, f) = <<>> /\ Len(<<>>) = 0
      BY <2>4 DEF content
    <3>2. i \in 1..0
      BY <2>3, <3>1
    <3> QED BY <3>2
  <2>5. CASE fs.dir[f] # NoFile
    <3>1. content(fs, f) = fs.data[fs.dir[f]] /\ fs.dir[f] \in 1..Len(fs.data)
      BY <2>2, <2>5, Contents DEF content
    <3> QED BY <2>1, <2>2, <2>3, <2>5, <3>1 DEF DayOK
  <2> QED BY <2>4, <2>5
<1> QED BY <1>1, DayInit, DayStep, PTL DEF Spec

-----------------------------------------------------------------------------
(* One program: the directory as it reads                                  *)

Reading(s) == [f \in Files |-> content(s, f)]

AtHand(l, s, day) ==
  /\ l.pc = "on" /\ l.log_file # NoFile =>
       s.dir[<<l.log_basename, l.current_log_date>>] = l.log_file
  /\ l.pc = "copied" => l.log_file = NoFile /\ l.log_basename = FirstName
  /\ l.current_log_date <= day

Linked(p) == NoHardLinks(fs) /\ AtHand(log[p], fs, today)

LEMMA Read ==
  ASSUME NEW s, Sound(s)
  PROVE  /\ Reading(s) \in [Files -> Seq(Line)]
         /\ \A f \in Files : Reading(s)[f] = content(s, f)
<1>1. \A f \in Files : content(s, f) \in Seq(Line)
  BY Contents
<1> QED BY <1>1 DEF Reading

LEMMA OpensLinked ==
  ASSUME NEW l \in Log, NEW s, Sound(s), NoHardLinks(s), today \in Days,
         NEW after, Opens(l, s, today, after), l.pc = "on",
         l.log_file # NoFile =>
           s.dir[<<l.log_basename, l.current_log_date>>] = l.log_file
  PROVE  /\ NoHardLinks(after.fs) /\ AtHand(after.log, after.fs, today)
         /\ Reading(after.fs) = Reading(s)
         /\ after.log.log_file # NoFile =>
              after.fs.dir[<<l.log_basename, today>>] = after.log.log_file
<1> DEFINE f == <<l.log_basename, today>>
           o == opened(s, f)
<1>1. /\ f \in Files /\ Sound(after.fs) /\ NoHardLinks(after.fs)
      /\ \A g \in Files : content(after.fs, g) = content(s, g)
      /\ after.log.pc = l.pc /\ after.log.log_basename = l.log_basename
      /\ after.log.current_log_date = today
      /\ \/ after.log.log_file = NoFile
         \/ /\ l.log_file # NoFile /\ l.current_log_date = today
            /\ after.log.log_file = l.log_file /\ after.fs = s
         \/ after.log.log_file = o.dir[f] /\ after.fs = o
  BY DEF Opens
<1>2. after.log.log_file # NoFile => after.fs.dir[f] = after.log.log_file
  BY <1>1
<1>3. today <= today
  BY LoggerConstants DEF Days
<1>4. AtHand(after.log, after.fs, today)
  BY <1>1, <1>2, <1>3 DEF AtHand
<1>5. Reading(after.fs) = Reading(s)
  BY <1>1 DEF Reading
<1> QED BY <1>1, <1>2, <1>4, <1>5

LEMMA InitReads ==
  ASSUME TypeInv, NEW p \in Processes, Linked(p), log_init(p)
  PROVE  /\ Linked(p)' /\ Reading(fs') = Reading(fs)
         /\ sessions' = sessions + 1 /\ UNCHANGED <<today, written>> /\ log[p].pc = "off"
         /\ log'[p].pc = "on" /\ log'[p].session = sessions + 1 /\ log'[p].lines = 0
         /\ log'[p].log_basename = FirstName /\ log'[p].current_log_date = today
<1>1. log \in [Processes -> Log] /\ Sound(fs) /\ today \in Days /\ NoHardLinks(fs)
  BY DEF TypeInv, Linked
<1>2. sessions' = sessions + 1 /\ UNCHANGED <<today, written>> /\ log[p].pc = "off"
  BY InitOpens
<1>3. PICK ok \in BOOLEAN, l \in Log :
        /\ l.pc = "on" /\ l.session = sessions + 1 /\ l.lines = 0
        /\ l.log_basename = FirstName /\ l.log_file = NoFile
        /\ l.new_basename = FirstName /\ l.log_file <= Len(fs.data)
        /\ fs' = open_log_file(l, fs, ok).fs
        /\ log' = [log EXCEPT ![p] = open_log_file(l, fs, ok).log]
  BY InitOpens
<1> DEFINE after == open_log_file(l, fs, ok)
<1>4. Opens(l, fs, today, after)
  BY <1>1, <1>3, OpenLogFile
<1>5. fs' = after.fs /\ log' = [log EXCEPT ![p] = after.log]
  BY <1>3
<1> HIDE DEF after
<1>6. /\ NoHardLinks(after.fs) /\ AtHand(after.log, after.fs, today)
      /\ Reading(after.fs) = Reading(fs)
  BY <1>1, <1>3, <1>4, OpensLinked
<1>7. log'[p] = after.log
  BY <1>1, <1>5
<1>8. /\ after.log.pc = "on" /\ after.log.session = sessions + 1 /\ after.log.lines = 0
      /\ after.log.log_basename = FirstName /\ after.log.current_log_date = today
  BY <1>3, <1>4 DEF Opens
<1> QED BY <1>2, <1>5, <1>6, <1>7, <1>8 DEF Linked

LEMMA RenamedReads ==
  ASSUME TypeInv, NEW p \in Processes, Linked(p), renamed(p)
  PROVE  /\ Linked(p)' /\ UNCHANGED <<today, sessions, written>>
         /\ log[p].pc = "copied" /\ log[p].log_basename = FirstName
         /\ old_filepath(p) = <<FirstName, log[p].current_log_date>>
         /\ old_filepath(p) \in Files
         /\ Reading(fs') = [Reading(fs) EXCEPT ![old_filepath(p)] = <<>>]
         /\ log'[p].pc = "on" /\ log'[p].session = log[p].session
         /\ log'[p].lines = log[p].lines
         /\ log'[p].log_basename = log[p].new_basename
         /\ log[p].new_basename \in Users /\ log'[p].current_log_date = today
<1> DEFINE old == old_filepath(p)
           s == removed(fs, old)
<1>1. log \in [Processes -> Log] /\ Sound(fs) /\ today \in Days /\ NoHardLinks(fs)
  BY DEF TypeInv, Linked
<1>2. /\ UNCHANGED <<today, sessions, written>> /\ log[p].pc = "copied"
      /\ log[p].new_basename \in Users /\ old \in Files
      /\ old = <<log[p].log_basename, log[p].current_log_date>>
  BY RenamedOpens
<1>3. log[p].log_file = NoFile /\ log[p].log_basename = FirstName
  BY <1>2 DEF Linked, AtHand
<1>4. PICK ok \in BOOLEAN, l \in Log :
         /\ l.pc = "on" /\ l.session = log[p].session /\ l.lines = log[p].lines
         /\ l.log_basename = log[p].new_basename /\ l.log_file = log[p].log_file
         /\ l.current_log_date = log[p].current_log_date
         /\ l.log_file <= Len(s.data)
         /\ fs' = open_log_file(l, s, ok).fs
         /\ log' = [log EXCEPT ![p] = open_log_file(l, s, ok).log]
  BY RenamedOpens
<1> HIDE DEF old
<1>5. /\ Sound(s) /\ NoHardLinks(s) /\ content(s, old) = <<>>
      /\ \A g \in Files : g # old => content(s, g) = content(fs, g)
  BY <1>1, <1>2, Removed
<1> HIDE DEF s
<1>6. Reading(s) = [Reading(fs) EXCEPT ![old] = <<>>]
  BY <1>5 DEF Reading
<1> DEFINE after == open_log_file(l, s, ok)
<1>7. Opens(l, s, today, after)
  BY <1>1, <1>4, <1>5, OpenLogFile
<1>8. fs' = after.fs /\ log' = [log EXCEPT ![p] = after.log]
  BY <1>4
<1> HIDE DEF after
<1>9. /\ NoHardLinks(after.fs) /\ AtHand(after.log, after.fs, today)
      /\ Reading(after.fs) = Reading(s)
  BY <1>1, <1>3, <1>4, <1>5, <1>7, OpensLinked
<1>10. log'[p] = after.log
  BY <1>1, <1>8
<1>11. /\ after.log.pc = "on" /\ after.log.session = log[p].session
       /\ after.log.lines = log[p].lines /\ after.log.current_log_date = today
       /\ after.log.log_basename = log[p].new_basename
  BY <1>4, <1>7 DEF Opens
<1>12. Linked(p)'
  BY <1>2, <1>8, <1>9, <1>10 DEF Linked
<1> QED BY <1>2, <1>3, <1>6, <1>8, <1>9, <1>10, <1>11, <1>12 DEF old

LEMMA MessageReads ==
  ASSUME TypeInv, NEW p \in Processes, Linked(p), log_message(p)
  PROVE  /\ Linked(p)' /\ UNCHANGED <<today, sessions>>
         /\ log[p].pc = "on" /\ log'[p].pc = "on"
         /\ log'[p].session = log[p].session /\ log'[p].lines = log[p].lines + 1
         /\ log'[p].log_basename = log[p].log_basename /\ log'[p].current_log_date = today
         /\ <<log[p].log_basename, today>> \in Files
         /\ \/ Reading(fs') = Reading(fs) /\ written' = written
            \/ \E line \in Line :
                 /\ line.session = log[p].session /\ line.number = log[p].lines + 1
                 /\ Reading(fs') = [Reading(fs) EXCEPT
                                      ![<<log[p].log_basename, today>>] = @ \o <<line>>]
                 /\ written' = written \cup {line}
<1> DEFINE f == <<log[p].log_basename, today>>
<1>1. log[p] \in Log /\ Sound(fs) /\ today \in Days /\ NoHardLinks(fs)
  BY DEF TypeInv, Linked
<1>2. PICK after, line :
         /\ Opens(log[p], fs, today, after)
         /\ log[p].pc = "on" /\ UNCHANGED <<today, sessions>>
         /\ line = [session |-> log[p].session, number |-> log[p].lines + 1, day |-> today]
         /\ line \in Line /\ <<line>> \in Seq(Line)
         /\ log' \in [Processes -> Log]
         /\ \A q \in Processes \ {p} : log'[q] = log[q]
         /\ log'[p].pc = "on" /\ log'[p].session = log[p].session
         /\ log'[p].lines = log[p].lines + 1
         /\ log'[p].log_basename = log[p].log_basename
         /\ log'[p].current_log_date = today
         /\ log'[p].log_file = after.log.log_file
         /\ \/ /\ after.log.log_file = NoFile
               /\ fs' = after.fs /\ written' = written
            \/ /\ after.log.log_file \in 1..Len(after.fs.data)
               /\ fs' = added(after.fs, after.log.log_file, <<line>>)
               /\ written' = written \cup {line}
  BY MessageWritten
<1>3. log[p].log_file # NoFile =>
        fs.dir[<<log[p].log_basename, log[p].current_log_date>>] = log[p].log_file
  BY <1>2 DEF Linked, AtHand
<1>4. /\ NoHardLinks(after.fs) /\ Reading(after.fs) = Reading(fs)
      /\ after.log.log_file # NoFile => after.fs.dir[f] = after.log.log_file
  BY <1>1, <1>2, <1>3, OpensLinked
<1>5. Sound(after.fs) /\ f \in Files
  BY <1>2 DEF Opens
<1>6. /\ today <= today /\ line.session = log[p].session
      /\ line.number = log[p].lines + 1
  BY <1>1, <1>2, LoggerConstants DEF Days
<1>7. CASE after.log.log_file = NoFile /\ fs' = after.fs /\ written' = written
  BY <1>2, <1>4, <1>5, <1>6, <1>7 DEF Linked, AtHand
<1>8. CASE /\ after.log.log_file \in 1..Len(after.fs.data)
           /\ fs' = added(after.fs, after.log.log_file, <<line>>)
           /\ written' = written \cup {line}
  <2> DEFINE file == after.log.log_file
             s == after.fs
             lines == <<line>>
  <2>1. Sound(s) /\ file \in 1..Len(s.data) /\ lines \in Seq(Line)
        /\ fs' = added(s, file, lines)
    BY <1>2, <1>5, <1>8
  <2>2. file # NoFile
    <3>1. s.data \in Seq(Seq(Line))
      BY <2>1 DEF Sound, Directory
    <3>2. Len(s.data) \in Nat
      BY <3>1
    <3> QED BY <2>1, <3>2 DEF NoFile
  <2>3. NoHardLinks(s) /\ Reading(s) = Reading(fs) /\ s.dir[f] = file
    BY <1>4, <2>2
  <2>4. log'[p].log_file = file
    BY <1>2
  <2> HIDE DEF file, s, lines
  <2>5. /\ fs'.dir = s.dir
        /\ \A g \in Files : s.dir[g] = file => content(fs', g) = content(s, g) \o lines
        /\ \A g \in Files : s.dir[g] # file => content(fs', g) = content(s, g)
    BY <2>1, Added
  <2>6. \A g \in Files : s.dir[g] = file <=> g = f
    BY <1>5, <2>2, <2>3 DEF NoHardLinks
  <2> HIDE DEF f
  <2>7. \A g \in Files :
          content(fs', g) = IF g = f THEN content(s, f) \o lines ELSE content(s, g)
    BY <1>5, <2>5, <2>6
  <2>8. Reading(fs') = [Reading(s) EXCEPT ![f] = @ \o lines]
    BY <1>5, <2>7 DEF Reading
  <2>9. Linked(p)'
    <3>1. NoHardLinks(fs')
      BY <2>3, <2>5 DEF NoHardLinks
    <3>2. fs'.dir[f] = file
      BY <2>3, <2>5
    <3>3. AtHand(log'[p], fs', today')
      BY <1>2, <1>6, <2>4, <3>2 DEF AtHand, f
    <3> QED BY <3>1, <3>3 DEF Linked
  <2> QED BY <1>2, <1>5, <1>6, <1>8, <2>3, <2>8, <2>9 DEF lines, f
<1> QED BY <1>2, <1>7, <1>8

LEMMA UpdateReads ==
  ASSUME TypeInv, NEW p \in Processes, NEW name \in Users, Linked(p),
         log[p].log_basename = FirstName, log_update_name(p, name)
  PROVE  \E old, new \in Files :
           /\ Linked(p)' /\ UNCHANGED <<today, sessions>> /\ old # new
           /\ old_filepath(p) = old /\ old_filepath(p)' = old
           /\ old = <<FirstName, log[p].current_log_date>>
           /\ new = <<name, log[p].current_log_date>>
           /\ \/ /\ Reading(fs') = [Reading(fs) EXCEPT ![new] = @ \o Reading(fs)[old]]
                 /\ written' = written
              \/ /\ Reading(fs') = Reading(fs)
                 /\ written' = written \ Range(Reading(fs)[old])
           /\ log[p].pc = "on" /\ log'[p].pc = "copied"
           /\ log'[p].session = log[p].session /\ log'[p].lines = log[p].lines
           /\ log'[p].log_basename = FirstName
           /\ log'[p].current_log_date = log[p].current_log_date
<1> DEFINE old == old_filepath(p)
           new == new_filepath(p, name)
<1>1. Sound(fs) /\ NoHardLinks(fs)
  BY DEF TypeInv, Linked
<1>2. /\ log[p].pc = "on" /\ UNCHANGED <<today, sessions>>
      /\ old \in Files /\ new \in Files /\ old # new
      /\ old = <<FirstName, log[p].current_log_date>>
      /\ new = <<name, log[p].current_log_date>>
      /\ log'[p].pc = "copied" /\ log'[p].log_file = NoFile
      /\ log'[p].new_basename = name /\ log'[p].session = log[p].session
      /\ log'[p].lines = log[p].lines /\ log'[p].log_basename = FirstName
      /\ log'[p].current_log_date = log[p].current_log_date
  BY UpdateCopies
<1>3. PICK old_ok \in BOOLEAN, new_ok \in BOOLEAN :
        /\ fs' = copied(old, new, old_ok, new_ok)
        /\ written' = IF old_ok /\ new_ok THEN written
                      ELSE written \ Range(lines_of(old))
  BY UpdateCopies
<1>4. old_filepath(p)' = <<log'[p].log_basename, log'[p].current_log_date>>
  BY DEF old_filepath
<1>5. old_filepath(p)' = old
  BY <1>2, <1>4
<1>6. old_filepath(p) = old
  OBVIOUS
<1> HIDE DEF old, new
<1>7. lines_of(old) = content(fs, old)
  BY ContentOf
<1> DEFINE both == old_ok /\ new_ok
           t == copied(old, new, old_ok, new_ok)
<1>8. Copies(fs, old, new, both, t)
  BY <1>1, <1>2, Copied
<1> HIDE DEF t
<1>9. /\ NoHardLinks(t) /\ Sound(t)
      /\ \A g \in Files :
           content(t, g) = IF g = new /\ both /\ fs.dir[old] # NoFile
                           THEN content(fs, new) \o content(fs, old) ELSE content(fs, g)
  BY <1>1, <1>8 DEF Copies
<1>10. fs' = t /\ written' = IF both THEN written ELSE written \ Range(content(fs, old))
  BY <1>3, <1>7 DEF t
<1> HIDE DEF both
<1>11. Linked(p)'
  <2>1. AtHand(log'[p], fs', today')
    BY <1>2 DEF AtHand, Linked
  <2> QED BY <1>9, <1>10, <2>1 DEF Linked
<1>12. \/ /\ Reading(fs') = [Reading(fs) EXCEPT ![new] = @ \o Reading(fs)[old]]
          /\ written' = written
       \/ /\ Reading(fs') = Reading(fs)
          /\ written' = written \ Range(Reading(fs)[old])
  <2>1. Reading(fs)[old] = content(fs, old) /\ Reading(fs)[new] = content(fs, new)
    BY <1>1, <1>2, Read
  <2>2. CASE ~both
    <3>1. Reading(t) = Reading(fs)
      BY <1>9, <2>2 DEF Reading
    <3> QED BY <1>10, <2>1, <2>2, <3>1
  <2>3. CASE both
    <3>1. content(fs, new) \in Seq(Line)
      BY <1>1, <1>2, Contents
    <3>2. fs.dir[old] = NoFile => content(fs, new) = content(fs, new) \o content(fs, old)
      BY <3>1 DEF content
    <3>3. \A g \in Files : content(t, g) = IF g = new
                                            THEN content(fs, new) \o content(fs, old)
                                            ELSE content(fs, g)
      BY <1>9, <2>3, <3>2
    <3>4. Reading(t) = [Reading(fs) EXCEPT ![new] = content(fs, new) \o content(fs, old)]
      BY <1>2, <3>3 DEF Reading
    <3> QED BY <1>10, <2>1, <2>3, <3>4
  <2> QED BY <2>2, <2>3
<1> QED BY <1>2, <1>5, <1>6, <1>11, <1>12

-----------------------------------------------------------------------------
(* One program: the order of the lines                                     *)

InOrderWith(x, y) ==
  \A i \in 1..Len(x), j \in 1..Len(y) :
    Before(x[i], y[j]) => \E k \in 1..(j - 1) : y[k] = x[i]

LEMMA Held ==
  ASSUME NEW x \in Seq(Line)
  PROVE  /\ Range(x) \subseteq Line /\ (Range(x) = {} => x = <<>>)
         /\ \A i \in 1..Len(x) : x[i] \in Range(x)
<1>1. DOMAIN x = 1..Len(x) /\ Len(x) \in Nat
  BY Elements
<1>2. Range(x) \subseteq Line /\ \A i \in 1..Len(x) : x[i] \in Range(x)
  BY <1>1, Elements DEF Range
<1>3. Range(x) = {} => x = <<>>
  <2>1. ASSUME x # <<>> PROVE x[1] \in Range(x)
    <3>1. Len(x) # 0
      BY <2>1, Elements
    <3>2. 1 \in 1..Len(x)
      BY <1>1, <3>1
    <3> QED BY <1>2, <3>2
  <2> QED BY <2>1
<1> QED BY <1>2, <1>3

LEMMA Ranges ==
  ASSUME NEW x \in Seq(Line), NEW y \in Seq(Line)
  PROVE  /\ Range(x \o y) = Range(x) \cup Range(y)
         /\ \A line : Range(<<line>>) = {line}
<1>1. DOMAIN x = 1..Len(x) /\ DOMAIN y = 1..Len(y) /\ Len(x) \in Nat /\ Len(y) \in Nat
  BY Elements
<1>2. DOMAIN (x \o y) = 1..(Len(x) + Len(y))
  <2>1. x \o y \in Seq(Line) /\ Len(x \o y) = Len(x) + Len(y)
    BY Joined
  <2> QED BY <2>1, Elements
<1>3. /\ \A i \in 1..Len(x) : (x \o y)[i] = x[i]
      /\ \A i \in 1..Len(y) : (x \o y)[Len(x) + i] = y[i]
      /\ \A k \in 1..(Len(x) + Len(y)) :
           k \in 1..Len(x) \/ \E i \in 1..Len(y) : k = Len(x) + i
  BY Joined
<1>4. Range(x \o y) = Range(x) \cup Range(y)
  <2>1. ASSUME NEW z \in Range(x) PROVE z \in Range(x \o y)
    <3>1. PICK i \in 1..Len(x) : z = x[i]
      BY <1>1, <2>1 DEF Range
    <3>2. i \in 1..(Len(x) + Len(y)) /\ (x \o y)[i] = z
      BY <1>1, <1>3, <3>1
    <3> QED BY <1>2, <3>2 DEF Range
  <2>2. ASSUME NEW z \in Range(y) PROVE z \in Range(x \o y)
    <3>1. PICK i \in 1..Len(y) : z = y[i]
      BY <1>1, <2>2 DEF Range
    <3>2. Len(x) + i \in 1..(Len(x) + Len(y)) /\ (x \o y)[Len(x) + i] = z
      BY <1>1, <1>3, <3>1
    <3> QED BY <1>2, <3>2 DEF Range
  <2>3. ASSUME NEW z \in Range(x \o y) PROVE z \in Range(x) \cup Range(y)
    <3>1. PICK k \in 1..(Len(x) + Len(y)) : z = (x \o y)[k]
      BY <1>2, <2>3 DEF Range
    <3>2. CASE k \in 1..Len(x)
      BY <1>1, <1>3, <3>1, <3>2 DEF Range
    <3>3. CASE \E i \in 1..Len(y) : k = Len(x) + i
      BY <1>1, <1>3, <3>1, <3>3 DEF Range
    <3> QED BY <1>3, <3>2, <3>3
  <2> QED BY <2>1, <2>2, <2>3
<1>5. ASSUME NEW line PROVE Range(<<line>>) = {line}
  <2>1. DOMAIN <<line>> = {1} /\ <<line>>[1] = line
    OBVIOUS
  <2> QED BY <2>1 DEF Range
<1> QED BY <1>4, <1>5

LEMMA OrderEmpty ==
  ASSUME NEW x \in Seq(Line)
  PROVE  InOrderWith(<<>>, x) /\ InOrderWith(x, <<>>)
<1>1. Len(<<>>) = 0 /\ \A i \in 1..0 : FALSE
  OBVIOUS
<1> QED BY <1>1 DEF InOrderWith

(* To the lines of x and then those of y.                                  *)
LEMMA OrderLeft ==
  ASSUME NEW x \in Seq(Line), NEW y \in Seq(Line), NEW z \in Seq(Line),
         InOrderWith(x, z), InOrderWith(y, z)
  PROVE  InOrderWith(x \o y, z)
<1> SUFFICES ASSUME NEW i \in 1..Len(x \o y), NEW j \in 1..Len(z), Before((x \o y)[i], z[j])
             PROVE  \E k \in 1..(j - 1) : z[k] = (x \o y)[i]
  BY DEF InOrderWith
<1>1. i \in 1..(Len(x) + Len(y))
  <2>1. Len(x \o y) = Len(x) + Len(y)
    BY Joined
  <2> QED BY <2>1
<1>2. CASE i \in 1..Len(x)
  <2>1. (x \o y)[i] = x[i]
    BY <1>2, Joined
  <2> HIDE DEF Before
  <2> QED BY <1>2, <2>1 DEF InOrderWith
<1>3. CASE \E h \in 1..Len(y) : i = Len(x) + h
  <2>1. PICK h \in 1..Len(y) : i = Len(x) + h
    BY <1>3
  <2>2. (x \o y)[i] = y[h]
    BY <2>1, Joined
  <2> QED BY <2>2 DEF InOrderWith
<1>4. i \in 1..Len(x) \/ \E h \in 1..Len(y) : i = Len(x) + h
  BY <1>1, Joined
<1> QED BY <1>2, <1>3, <1>4

(* What is in order with both is in order with the two of them.            *)
LEMMA OrderRight ==
  ASSUME NEW x \in Seq(Line), NEW y \in Seq(Line), NEW z \in Seq(Line),
         InOrderWith(z, x), InOrderWith(z, y)
  PROVE  InOrderWith(z, x \o y)
<1> SUFFICES ASSUME NEW i \in 1..Len(z), NEW j \in 1..Len(x \o y), Before(z[i], (x \o y)[j])
             PROVE  \E k \in 1..(j - 1) : (x \o y)[k] = z[i]
  BY DEF InOrderWith
<1>1. j \in 1..(Len(x) + Len(y)) /\ Len(x) \in Nat /\ Len(y) \in Nat
  <2>1. Len(x \o y) = Len(x) + Len(y)
    BY Joined
  <2> QED BY <2>1, Elements
<1>2. CASE j \in 1..Len(x)
  <2>1. (x \o y)[j] = x[j]
    BY <1>2, Joined
  <2>2. PICK k \in 1..(j - 1) : x[k] = z[i]
    BY <1>2, <2>1 DEF InOrderWith
  <2>3. k \in 1..Len(x)
    BY <1>1, <1>2
  <2>4. (x \o y)[k] = x[k]
    BY <2>3, Joined
  <2> QED BY <2>2, <2>4
<1>3. CASE \E h \in 1..Len(y) : j = Len(x) + h
  <2>1. PICK h \in 1..Len(y) : j = Len(x) + h
    BY <1>3
  <2>2. (x \o y)[j] = y[h]
    BY <2>1, Joined
  <2>3. PICK k \in 1..(h - 1) : y[k] = z[i]
    BY <2>2 DEF InOrderWith
  <2>4. k \in 1..Len(y) /\ Len(x) + k \in 1..(j - 1)
    BY <1>1, <2>1
  <2>5. (x \o y)[Len(x) + k] = y[k]
    BY <2>4, Joined
  <2> QED BY <2>3, <2>4, <2>5
<1>4. j \in 1..Len(x) \/ \E h \in 1..Len(y) : j = Len(x) + h
  BY <1>1, Joined
<1> QED BY <1>2, <1>3, <1>4

(* A file that was in order is in order with what is put after it.         *)
LEMMA OrderOwn ==
  ASSUME NEW x \in Seq(Line), NEW y \in Seq(Line), InOrderWith(x, x)
  PROVE  InOrderWith(x, x \o y)
<1> SUFFICES ASSUME NEW i \in 1..Len(x), NEW j \in 1..Len(x \o y), Before(x[i], (x \o y)[j])
             PROVE  \E k \in 1..(j - 1) : (x \o y)[k] = x[i]
  BY DEF InOrderWith
<1>1. j \in 1..(Len(x) + Len(y)) /\ Len(x) \in Nat /\ Len(y) \in Nat
  <2>1. Len(x \o y) = Len(x) + Len(y)
    BY Joined
  <2> QED BY <2>1, Elements
<1>2. CASE j \in 1..Len(x)
  <2>1. (x \o y)[j] = x[j]
    BY <1>2, Joined
  <2>2. PICK k \in 1..(j - 1) : x[k] = x[i]
    BY <1>2, <2>1 DEF InOrderWith
  <2>3. k \in 1..Len(x)
    BY <1>1, <1>2
  <2>4. (x \o y)[k] = x[k]
    BY <2>3, Joined
  <2> QED BY <2>2, <2>4
<1>3. CASE j \notin 1..Len(x)
  <2>1. i \in 1..(j - 1)
    BY <1>1, <1>3
  <2>2. (x \o y)[i] = x[i]
    BY Joined
  <2> QED BY <2>1, <2>2
<1> QED BY <1>2, <1>3

LEMMA OrderLatest ==
  ASSUME NEW x \in Seq(Line), NEW line \in Line,
         \A z \in Range(x) : ~Before(line, z)
  PROVE  InOrderWith(<<line>>, x)
<1>1. Len(<<line>>) = 1 /\ <<line>>[1] = line /\ \A i \in 1..1 : i = 1
  OBVIOUS
<1>2. \A j \in 1..Len(x) : x[j] \in Range(x)
  BY Held
<1> QED BY <1>1, <1>2 DEF InOrderWith

(* What a process that runs has written is at most what it has counted;    *)
(* the days that have lines are past or are the one it believes in.        *)
Past(r, l, n, day) ==
  /\ l.pc # "off" => l.session = n
  /\ \A f \in Files : \A line \in Range(r[f]) :
       /\ line.session <= n /\ f[2] <= day
       /\ l.pc # "off" => f[2] <= l.current_log_date
       /\ l.pc # "off" /\ line.session = n => line.number <= l.lines

(* A line that moves is in both of its files until the first is removed.   *)
Kept(r, l, w) ==
  \A line \in w : \E f \in Files :
    line \in Range(r[f])
    /\ (l.pc = "copied" => f # <<l.log_basename, l.current_log_date>>)

(* The lines of a day that are still to be moved are in order with all     *)
(* that they may be moved behind, and once moved there are no more.        *)
Ordered(r, l) ==
  /\ \A f \in Files : InOrderWith(r[f], r[f])
  /\ \A name \in Users, d \in Days : InOrderWith(r[<<FirstName, d>>], r[<<name, d>>])
  /\ l.pc # "off" /\ l.log_basename \in Users =>
       r[<<FirstName, l.current_log_date>>] = <<>>

LEMMA NamesDiffer ==
  /\ \A name \in Users, d \in Days :
       <<FirstName, d>> \in Files /\ <<name, d>> \in Files /\ <<FirstName, d>> # <<name, d>>
  /\ \A f \in Files : f[2] \in Days /\ f[2] \in Nat
BY Constants DEF Files, Days

LEMMA MessageInOrder ==
  ASSUME NEW r \in [Files -> Seq(Line)], NEW l \in Log, NEW l2, NEW day \in Days,
         NEW n \in Nat, NEW line \in Line, Past(r, l, n, day), Ordered(r, l),
         l.pc = "on", l.current_log_date <= day, <<l.log_basename, day>> \in Files,
         l2.log_basename = l.log_basename, l2.current_log_date = day,
         line.session = l.session, line.number = l.lines + 1
  PROVE  /\ Ordered([r EXCEPT ![<<l.log_basename, day>>] = @ \o <<line>>], l2)
         /\ Ordered(r, l2)
<1> DEFINE g == <<l.log_basename, day>>
           new == r[g] \o <<line>>
           r2 == [r EXCEPT ![g] = new]
<1>1. \A f \in Files : \A z \in Range(r[f]) : z \in Line /\ ~Before(line, z)
  <2> SUFFICES ASSUME NEW f \in Files, NEW z \in Range(r[f])
               PROVE  z \in Line /\ ~Before(line, z)
    OBVIOUS
  <2>1. z \in Line
    BY Held
  <2>2. /\ l.session = n /\ z.session <= n
        /\ z.session = n => z.number <= l.lines
    BY DEF Past
  <2>3. /\ z.session \in Nat /\ z.number \in Nat /\ l.lines \in Nat
        /\ line.session \in Nat /\ line.number \in Nat
    BY <2>1 DEF Line, Log
  <2>4. ~(line.session < z.session)
    BY <2>2, <2>3
  <2>5. ASSUME line.session = z.session
        PROVE  ~(line.number < z.number)
    <3>1. z.number <= l.lines
      BY <2>2, <2>5
    <3> DEFINE a == line.number
               b == z.number
               c == l.lines
    <3>2. a \in Nat /\ b \in Nat /\ c \in Nat /\ b <= c /\ a = c + 1
      BY <2>3, <3>1
    <3> HIDE DEF a, b, c
    <3>3. ~(a < b)
      BY <3>2
    <3> QED BY <3>3 DEF a, b
  <2> QED BY <2>1, <2>4, <2>5 DEF Before
<1>2. /\ <<line>> \in Seq(Line) /\ r[g] \in Seq(Line)
      /\ \A f \in Files : r[f] \in Seq(Line)
  OBVIOUS
<1>3. new \in Seq(Line)
  BY <1>2
<1>4. \A f \in Files : InOrderWith(<<line>>, r[f])
  BY <1>1, OrderLatest
<1>5. InOrderWith(new, new)
  <2>1. InOrderWith(r[g], new)
    BY <1>2, OrderOwn DEF Ordered
  <2>2. InOrderWith(<<line>>, new)
    <3>1. ASSUME NEW z \in Range(new) PROVE ~Before(line, z)
      <4>1. Range(new) = Range(r[g]) \cup Range(<<line>>) /\ Range(<<line>>) = {line}
        BY <1>2, Ranges
      <4>2. ~Before(line, line)
        BY DEF Before, Line
      <4> QED BY <1>1, <3>1, <4>1, <4>2
    <3> HIDE DEF new
    <3> QED BY <1>3, <3>1, OrderLatest
  <2>3. InOrderWith(r[g] \o <<line>>, new)
    <3> HIDE DEF new
    <3> QED BY <1>2, <1>3, <2>1, <2>2, OrderLeft
  <2> QED BY <2>3
<1>6. \A d \in Days : l.log_basename \in Users /\ d = day => r[<<FirstName, d>>] = <<>>
  <2> SUFFICES ASSUME l.log_basename \in Users PROVE r[<<FirstName, day>>] = <<>>
    OBVIOUS
  <2> DEFINE f == <<FirstName, day>>
  <2>1. f \in Files /\ f[2] = day
    BY Constants DEF Files
  <2>2. CASE l.current_log_date = day
    BY <2>2 DEF Ordered
  <2>3. CASE l.current_log_date # day
    <3>1. l.current_log_date \in Nat /\ day \in Nat
      BY DEF Log, Days
    <3>2. ~(day <= l.current_log_date)
      BY <2>3, <3>1
    <3>3. Range(r[f]) = {}
      BY <2>1, <3>2 DEF Past
    <3> QED BY <1>2, <2>1, <3>3, Held
  <2> QED BY <2>2, <2>3
<1>7. Ordered(r, l2)
  BY <1>6 DEF Ordered
<1> HIDE DEF new, g
<1>8. r2[g] = new /\ \A f \in Files : f # g => r2[f] = r[f]
  BY DEF g
<1>9. ASSUME NEW f \in Files PROVE InOrderWith(r2[f], r2[f])
  BY <1>5, <1>8 DEF Ordered
<1>10. ASSUME NEW name \in Users, NEW d \in Days
       PROVE  InOrderWith(r2[<<FirstName, d>>], r2[<<name, d>>])
  <2> DEFINE first == <<FirstName, d>>
             own == <<name, d>>
  <2>1. /\ first \in Files /\ own \in Files /\ first # own
        /\ InOrderWith(r[first], r[own])
    BY NamesDiffer DEF Ordered
  <2>2. CASE g # first /\ g # own
    BY <1>8, <2>1, <2>2
  <2>3. CASE g = first
    <3>1. r2[own] = r[own] /\ r2[first] = new
      BY <1>8, <2>1, <2>3
    <3>2. InOrderWith(r[g] \o <<line>>, r[own])
      <4> HIDE DEF own, first
      <4>1. InOrderWith(r[g], r[own]) /\ InOrderWith(<<line>>, r[own])
        BY <1>4, <2>1, <2>3
      <4> QED BY <1>2, <2>1, <4>1, OrderLeft
    <3> QED BY <3>1, <3>2 DEF new
  <2>4. CASE g = own
    <3>1. l.log_basename \in Users /\ d = day
      BY <2>4 DEF g
    <3>2. r2[first] = <<>> /\ r2[own] = new
      BY <1>6, <1>8, <2>1, <2>4, <3>1
    <3> QED BY <1>3, <3>2, OrderEmpty
  <2> QED BY <2>2, <2>3, <2>4
<1>11. ASSUME l.log_basename \in Users PROVE r2[<<FirstName, day>>] = <<>>
  <2>1. <<FirstName, day>> \in Files /\ <<FirstName, day>> # g
    BY <1>11, Constants DEF Files, g
  <2> QED BY <1>6, <1>8, <1>11, <2>1
<1>12. Ordered(r2, l2)
  BY <1>9, <1>10, <1>11 DEF Ordered
<1> QED BY <1>7, <1>12 DEF new, g

LEMMA MoveInOrder ==
  ASSUME NEW r \in [Files -> Seq(Line)], NEW l, NEW l2, NEW name \in Users,
         NEW d \in Days, Ordered(r, l), l2.log_basename = FirstName
  PROVE  /\ Ordered([r EXCEPT ![<<name, d>>] = @ \o r[<<FirstName, d>>]], l2)
         /\ Ordered(r, l2)
<1> DEFINE old == <<FirstName, d>>
           g == <<name, d>>
           x == r[old]
           y == r[g]
           r2 == [r EXCEPT ![g] = y \o x]
<1>1. old \in Files /\ g \in Files /\ old # g /\ FirstName \notin Users
  BY NamesDiffer, Constants
<1>2. /\ x \in Seq(Line) /\ y \in Seq(Line)
      /\ InOrderWith(x, x) /\ InOrderWith(y, y) /\ InOrderWith(x, y)
  BY <1>1 DEF Ordered
<1>3. Ordered(r, l2)
  BY <1>1 DEF Ordered
<1>4. r2[g] = y \o x /\ \A f \in Files : f # g => r2[f] = r[f]
  BY <1>1
<1> HIDE DEF x, y
<1>5. y \o x \in Seq(Line)
  BY <1>2
<1>6. InOrderWith(x, y \o x)
  BY <1>2, OrderRight
<1>7. InOrderWith(y \o x, y \o x)
  <2>1. InOrderWith(y, y \o x)
    BY <1>2, OrderOwn
  <2> QED BY <1>2, <1>5, <1>6, <2>1, OrderLeft
<1> HIDE DEF r2
<1>8. ASSUME NEW f \in Files PROVE InOrderWith(r2[f], r2[f])
  BY <1>4, <1>7 DEF Ordered
<1>9. ASSUME NEW user \in Users, NEW e \in Days
      PROVE  InOrderWith(r2[<<FirstName, e>>], r2[<<user, e>>])
  <2> DEFINE from == <<FirstName, e>>
             to == <<user, e>>
  <2>1. from \in Files /\ to \in Files /\ InOrderWith(r[from], r[to])
    BY NamesDiffer DEF Ordered
  <2>2. from # g
    BY <1>1
  <2>3. CASE to = g
    <3>1. from = old
      BY <2>3
    <3> QED BY <1>4, <1>6, <2>1, <2>2, <2>3, <3>1 DEF x
  <2>4. CASE to # g
    BY <1>4, <2>1, <2>2, <2>4
  <2> QED BY <2>3, <2>4
<1>10. Ordered(r2, l2)
  BY <1>1, <1>8, <1>9 DEF Ordered
<1> QED BY <1>3, <1>10 DEF r2, x, y

LEMMA RenamedInOrder ==
  ASSUME NEW r \in [Files -> Seq(Line)], NEW l \in Log, NEW l2, NEW day \in Days,
         NEW n, Past(r, l, n, day), Ordered(r, l), l.pc = "copied",
         l.current_log_date <= day, l2.current_log_date = day
  PROVE  Ordered([r EXCEPT ![<<FirstName, l.current_log_date>>] = <<>>], l2)
<1> DEFINE old == <<FirstName, l.current_log_date>>
           r2 == [r EXCEPT ![old] = <<>>]
<1>1. old \in Files /\ \A f \in Files : r[f] \in Seq(Line)
  BY Constants DEF Files, Log
<1>2. r2[old] = <<>> /\ \A f \in Files : f # old => r2[f] = r[f]
  BY <1>1
<1> HIDE DEF r2
<1>3. ASSUME NEW f \in Files PROVE InOrderWith(r2[f], r2[f])
  <2>1. <<>> \in Seq(Line)
    OBVIOUS
  <2> QED BY <1>2, <2>1, OrderEmpty DEF Ordered
<1>4. ASSUME NEW name \in Users, NEW d \in Days
      PROVE  InOrderWith(r2[<<FirstName, d>>], r2[<<name, d>>])
  <2> DEFINE from == <<FirstName, d>>
             to == <<name, d>>
  <2>1. from \in Files /\ to \in Files /\ InOrderWith(r[from], r[to])
    BY NamesDiffer DEF Ordered
  <2>2. to # old
    BY Constants
  <2>3. r2[to] = r[to] /\ r2[to] \in Seq(Line)
    BY <1>1, <1>2, <2>1, <2>2
  <2>4. CASE from = old
    BY <1>2, <2>3, <2>4, OrderEmpty
  <2>5. CASE from # old
    BY <1>2, <2>1, <2>3, <2>5
  <2> QED BY <2>4, <2>5
<1>5. r2[<<FirstName, day>>] = <<>>
  <2> DEFINE f == <<FirstName, day>>
  <2>1. f \in Files /\ f[2] = day
    BY Constants DEF Files
  <2>2. CASE l.current_log_date = day
    BY <1>2, <2>2
  <2>3. CASE l.current_log_date # day
    <3>1. l.current_log_date \in Nat /\ day \in Nat
      BY DEF Log, Days
    <3>2. ~(day <= l.current_log_date)
      BY <2>3, <3>1
    <3>3. Range(r[f]) = {}
      BY <2>1, <3>2 DEF Past
    <3>4. r[f] = <<>>
      BY <1>1, <2>1, <3>3, Held
    <3> QED BY <1>2, <2>1, <3>4
  <2> QED BY <2>2, <2>3
<1>6. Ordered(r2, l2)
  BY <1>3, <1>4, <1>5 DEF Ordered
<1> QED BY <1>6 DEF r2

OneProgram(p) ==
  /\ TypeInv /\ Linked(p)
  /\ Past(Reading(fs), log[p], sessions, today)
  /\ Kept(Reading(fs), log[p], written)
  /\ Ordered(Reading(fs), log[p])

LEMMA Now ==
  ASSUME TypeInv, NEW p \in Processes
  PROVE  /\ Reading(fs) \in [Files -> Seq(Line)]
         /\ \A f \in Files : Range(Reading(fs)[f]) \subseteq Line
         /\ log[p] \in Log /\ today \in Days /\ today \in Nat /\ sessions \in Nat
<1>1. Reading(fs) \in [Files -> Seq(Line)]
  BY Read DEF TypeInv
<1>2. ASSUME NEW f \in Files PROVE Range(Reading(fs)[f]) \subseteq Line
  <2>1. Reading(fs)[f] \in Seq(Line)
    BY <1>1
  <2> QED BY <2>1, Held
<1> QED BY <1>1, <1>2 DEF TypeInv, Days

LEMMA OneInit ==
  ASSUME Init, NEW p \in Processes
  PROVE  OneProgram(p)
<1>1. TypeInv
  BY TypeInit
<1>2. /\ fs.dir = [f \in Files |-> NoFile] /\ today = 0 /\ log[p] = NotRunning
      /\ sessions = 0 /\ written = {}
  BY DEF Init, Files
<1>3. \A f \in Files : Reading(fs)[f] = <<>>
  BY <1>2 DEF Reading, content
<1>4. Linked(p)
  <2>1. NotRunning.current_log_date <= 0
    BY Constants
  <2> QED BY <1>2, <2>1, Constants DEF Linked, NoHardLinks, AtHand
<1>5. Past(Reading(fs), log[p], sessions, today)
  <2>1. Range(<<>>) = {}
    BY DEF Range
  <2> QED BY <1>2, <1>3, <2>1, Constants DEF Past
<1>6. Kept(Reading(fs), log[p], written)
  BY <1>2 DEF Kept
<1>7. Ordered(Reading(fs), log[p])
  <2>1. InOrderWith(<<>>, <<>>)
    <3>1. <<>> \in Seq(Line)
      OBVIOUS
    <3> QED BY <3>1, OrderEmpty
  <2> QED BY <1>2, <1>3, <2>1, NamesDiffer, Constants DEF Ordered
<1> QED BY <1>1, <1>4, <1>5, <1>6, <1>7 DEF OneProgram

LEMMA OneLogInit ==
  ASSUME NEW p \in Processes, OneProgram(p), TypeInv', log_init(p)
  PROVE  OneProgram(p)'
<1> DEFINE r == Reading(fs)
<1>1. TypeInv /\ Linked(p) /\ Past(r, log[p], sessions, today)
      /\ Kept(r, log[p], written) /\ Ordered(r, log[p])
  BY DEF OneProgram
<1>2. /\ Linked(p)' /\ Reading(fs') = r
      /\ sessions' = sessions + 1 /\ UNCHANGED <<today, written>> /\ log[p].pc = "off"
      /\ log'[p].pc = "on" /\ log'[p].session = sessions + 1 /\ log'[p].lines = 0
      /\ log'[p].log_basename = FirstName /\ log'[p].current_log_date = today
  BY <1>1, InitReads
<1>3. /\ r \in [Files -> Seq(Line)] /\ today \in Nat /\ sessions \in Nat
      /\ \A f \in Files : Range(r[f]) \subseteq Line
  BY <1>1, Now
<1> HIDE DEF r
<1>4. Past(r, log'[p], sessions', today')
  <2> SUFFICES ASSUME NEW f \in Files, NEW line \in Range(r[f])
               PROVE  line.session <= sessions' /\ f[2] <= today /\ line.session # sessions'
    BY <1>2 DEF Past
  <2>1. line.session <= sessions /\ f[2] <= today
    BY <1>1 DEF Past
  <2>2. line.session \in Nat
    BY <1>3 DEF Line
  <2> QED BY <1>2, <1>3, <2>1, <2>2
<1>5. Kept(r, log'[p], written')
  BY <1>1, <1>2 DEF Kept
<1>6. Ordered(r, log'[p])
  BY <1>1, <1>2, Constants DEF Ordered
<1> QED BY <1>2, <1>4, <1>5, <1>6 DEF OneProgram

LEMMA OneMessage ==
  ASSUME NEW p \in Processes, OneProgram(p), TypeInv', log_message(p)
  PROVE  OneProgram(p)'
<1> DEFINE r == Reading(fs)
           r2 == Reading(fs')
           g == <<log[p].log_basename, today>>
<1>1. TypeInv /\ Linked(p) /\ Past(r, log[p], sessions, today)
      /\ Kept(r, log[p], written) /\ Ordered(r, log[p])
  BY DEF OneProgram
<1>2. /\ Linked(p)' /\ UNCHANGED <<today, sessions>>
      /\ log[p].pc = "on" /\ log'[p].pc = "on"
      /\ log'[p].session = log[p].session /\ log'[p].lines = log[p].lines + 1
      /\ log'[p].log_basename = log[p].log_basename /\ log'[p].current_log_date = today
      /\ g \in Files
  BY <1>1, MessageReads
<1>3. \/ r2 = r /\ written' = written
      \/ \E line \in Line :
           /\ line.session = log[p].session /\ line.number = log[p].lines + 1
           /\ r2 = [r EXCEPT ![g] = @ \o <<line>>] /\ written' = written \cup {line}
  BY <1>1, MessageReads
<1>4. /\ r \in [Files -> Seq(Line)] /\ today \in Nat /\ sessions \in Nat
      /\ \A f \in Files : Range(r[f]) \subseteq Line
      /\ log[p] \in Log /\ today \in Days
  BY <1>1, Now
<1>5. log[p].current_log_date <= today /\ log[p].session = sessions
      /\ log[p].current_log_date \in Nat /\ log[p].lines \in Nat
  BY <1>1, <1>2, <1>4 DEF Linked, AtHand, Past, Log, Days
<1> HIDE DEF r, r2
<1>6. ASSUME NEW f \in Files, NEW z \in Range(r[f])
      PROVE  /\ z.session <= sessions /\ f[2] <= today
             /\ z.session = sessions => z.number <= log[p].lines + 1
  <2>1. /\ z.session <= sessions /\ f[2] <= today
        /\ z.session = sessions => z.number <= log[p].lines
    BY <1>1, <1>2 DEF Past
  <2>2. z.number \in Nat
    BY <1>4 DEF Line
  <2> QED BY <1>5, <2>1, <2>2
<1>7. CASE r2 = r /\ written' = written
  <2>1. Past(r2, log'[p], sessions', today')
    BY <1>2, <1>5, <1>6, <1>7 DEF Past
  <2>2. Kept(r2, log'[p], written')
    BY <1>1, <1>2, <1>7 DEF Kept
  <2>3. Ordered(r2, log'[p])
    <3> DEFINE l == log[p]
               l2 == log'[p]
    <3>1. CASE l.log_basename \in Users
      <4> DEFINE f == <<FirstName, today>>
      <4>1. f \in Files /\ f[2] = today
        BY <1>4, Constants DEF Files
      <4>2. r[f] = <<>>
        <5>1. CASE l.current_log_date = today
          BY <1>1, <1>2, <3>1, <5>1 DEF Ordered
        <5>2. CASE l.current_log_date # today
          <6>1. ~(today <= l.current_log_date)
            BY <1>4, <1>5, <5>2
          <6>2. Range(r[f]) = {}
            BY <1>1, <1>2, <4>1, <6>1 DEF Past
          <6> QED BY <1>4, <4>1, <6>2, Held
        <5> QED BY <5>1, <5>2
      <4> QED BY <1>1, <1>2, <1>7, <4>2 DEF Ordered
    <3>2. CASE l.log_basename \notin Users
      BY <1>1, <1>2, <1>7, <3>2 DEF Ordered
    <3> QED BY <3>1, <3>2
  <2> QED BY <1>2, <2>1, <2>2, <2>3 DEF OneProgram, r2
<1>8. ASSUME NEW line \in Line, line.session = log[p].session,
             line.number = log[p].lines + 1,
             r2 = [r EXCEPT ![g] = @ \o <<line>>], written' = written \cup {line}
      PROVE  OneProgram(p)'
  <2>1. \A f \in Files : Range(r2[f]) = Range(r[f]) \cup (IF f = g THEN {line} ELSE {})
    <3>1. r[g] \in Seq(Line) /\ <<line>> \in Seq(Line)
      BY <1>2, <1>4
    <3>2. Range(r[g] \o <<line>>) = Range(r[g]) \cup {line}
      <4>1. Range(r[g] \o <<line>>) = Range(r[g]) \cup Range(<<line>>)
        BY <3>1, Ranges
      <4>2. Range(<<line>>) = {line}
        BY <3>1, Ranges
      <4> QED BY <4>1, <4>2
    <3>3. r2[g] = r[g] \o <<line>> /\ \A f \in Files : f # g => r2[f] = r[f]
      BY <1>2, <1>4, <1>8
    <3> HIDE DEF g
    <3> QED BY <3>2, <3>3
  <2>2. Past(r2, log'[p], sessions', today')
    <3> SUFFICES ASSUME NEW f \in Files, NEW z \in Range(r2[f])
                 PROVE  /\ z.session <= sessions /\ f[2] <= today
                        /\ z.session = sessions => z.number <= log[p].lines + 1
      BY <1>2, <1>5 DEF Past
    <3>1. CASE z \in Range(r[f])
      BY <1>6, <3>1
    <3>2. CASE f = g /\ z = line
      <4>1. f[2] = today
        BY <3>2
      <4>2. sessions <= sessions /\ today <= today
            /\ log[p].lines + 1 <= log[p].lines + 1
        BY <1>4, <1>5
      <4>3. z.session = sessions /\ z.number = log[p].lines + 1
        BY <1>5, <1>8, <3>2
      <4> QED BY <4>1, <4>2, <4>3
    <3> QED BY <2>1, <3>1, <3>2
  <2>3. Kept(r2, log'[p], written')
    <3>1. \A f \in Files : Range(r[f]) \subseteq Range(r2[f])
      BY <2>1
    <3>2. line \in Range(r2[g])
      BY <1>2, <2>1
    <3> QED BY <1>1, <1>2, <1>8, <3>1, <3>2 DEF Kept
  <2>4. Ordered(r2, log'[p])
    BY <1>1, <1>2, <1>4, <1>5, <1>8, MessageInOrder
  <2> QED BY <1>2, <2>2, <2>3, <2>4 DEF OneProgram, r2
<1> QED BY <1>3, <1>7, <1>8

LEMMA OneUpdate ==
  ASSUME NEW p \in Processes, OneProgram(p), TypeInv', NEW name \in Users,
         log[p].log_basename = FirstName, log_update_name(p, name)
  PROVE  OneProgram(p)'
<1> DEFINE r == Reading(fs)
           r2 == Reading(fs')
<1>1. TypeInv /\ Linked(p) /\ Past(r, log[p], sessions, today)
      /\ Kept(r, log[p], written) /\ Ordered(r, log[p])
  BY DEF OneProgram
<1>2. PICK old, new \in Files :
           /\ Linked(p)' /\ UNCHANGED <<today, sessions>> /\ old # new
           /\ old_filepath(p) = old /\ old_filepath(p)' = old
           /\ old = <<FirstName, log[p].current_log_date>>
           /\ new = <<name, log[p].current_log_date>>
           /\ \/ /\ Reading(fs') = [Reading(fs) EXCEPT ![new] = @ \o Reading(fs)[old]]
                 /\ written' = written
              \/ /\ Reading(fs') = Reading(fs)
                 /\ written' = written \ Range(Reading(fs)[old])
           /\ log[p].pc = "on" /\ log'[p].pc = "copied"
           /\ log'[p].session = log[p].session /\ log'[p].lines = log[p].lines
           /\ log'[p].log_basename = FirstName
           /\ log'[p].current_log_date = log[p].current_log_date
  BY <1>1, UpdateReads
<1>3. /\ r \in [Files -> Seq(Line)] /\ log[p] \in Log
  BY <1>1, Now
<1>4. \/ r2 = [r EXCEPT ![new] = @ \o r[old]] /\ written' = written
      \/ r2 = r /\ written' = written \ Range(r[old])
  BY <1>2
<1>5. log[p].current_log_date \in Days
  BY <1>3 DEF Log
<1> HIDE DEF r, r2
<1>6. \A f \in Files : Range(r2[f]) \subseteq Range(r[f]) \cup (IF f = new THEN Range(r[old]) ELSE {})
  <2>1. Range(r[new] \o r[old]) = Range(r[new]) \cup Range(r[old])
    BY <1>3, Ranges
  <2> QED BY <1>3, <1>4, <2>1
<1>7. old[2] = new[2]
  BY <1>2
<1>8. Past(r2, log'[p], sessions', today')
  BY <1>1, <1>2, <1>6, <1>7 DEF Past
<1>9. Kept(r2, log'[p], written')
  <2> SUFFICES ASSUME NEW line \in written'
               PROVE  \E f \in Files : line \in Range(r2[f]) /\ f # old
    BY <1>2 DEF Kept
  <2>1. PICK f \in Files : line \in Range(r[f])
    BY <1>1, <1>4 DEF Kept
  <2>2. CASE r2 = r /\ written' = written \ Range(r[old])
    BY <2>1, <2>2
  <2>3. CASE r2 = [r EXCEPT ![new] = @ \o r[old]]
    <3>1. Range(r2[new]) = Range(r[new]) \cup Range(r[old])
      <4>1. Range(r[new] \o r[old]) = Range(r[new]) \cup Range(r[old])
        <5>1. r[new] \in Seq(Line) /\ r[old] \in Seq(Line)
          BY <1>3
        <5> QED BY <5>1, Ranges
      <4> QED BY <1>3, <2>3, <4>1
    <3>2. f # new => r2[f] = r[f]
      BY <1>3, <2>3
    <3> QED BY <1>2, <2>1, <3>1, <3>2
  <2> QED BY <1>4, <2>2, <2>3
<1>10. Ordered(r2, log'[p])
  <2>1. /\ Ordered([r EXCEPT ![<<name, log[p].current_log_date>>]
                      = @ \o r[<<FirstName, log[p].current_log_date>>]], log'[p])
        /\ Ordered(r, log'[p])
    BY <1>1, <1>2, <1>3, <1>5, MoveInOrder
  <2>2. /\ Ordered([r EXCEPT ![new] = @ \o r[old]], log'[p])
        /\ Ordered(r, log'[p])
    BY <1>2, <2>1
  <2> HIDE DEF Ordered
  <2> QED BY <1>4, <2>2
<1> QED BY <1>2, <1>8, <1>9, <1>10 DEF OneProgram, r2

LEMMA OneRenamed ==
  ASSUME NEW p \in Processes, OneProgram(p), TypeInv', renamed(p)
  PROVE  OneProgram(p)'
<1> DEFINE r == Reading(fs)
           r2 == Reading(fs')
           old == <<FirstName, log[p].current_log_date>>
<1>1. TypeInv /\ Linked(p) /\ Past(r, log[p], sessions, today)
      /\ Kept(r, log[p], written) /\ Ordered(r, log[p])
  BY DEF OneProgram
<1>2. /\ Linked(p)' /\ UNCHANGED <<today, sessions, written>>
      /\ log[p].pc = "copied" /\ log[p].log_basename = FirstName
      /\ old \in Files /\ r2 = [r EXCEPT ![old] = <<>>]
      /\ log'[p].pc = "on" /\ log'[p].session = log[p].session
      /\ log'[p].lines = log[p].lines /\ log'[p].current_log_date = today
  BY <1>1, RenamedReads
<1>3. /\ r \in [Files -> Seq(Line)] /\ log[p] \in Log /\ today \in Days
      /\ sessions \in Nat
  BY <1>1, Now
<1>4. log[p].current_log_date <= today
  BY <1>1 DEF Linked, AtHand
<1> HIDE DEF r, r2
<1>5. Range(r2[old]) = {} /\ \A f \in Files : f # old => r2[f] = r[f]
  <2>1. Range(<<>>) = {}
    BY DEF Range
  <2> QED BY <1>2, <1>3, <2>1
<1>6. Past(r2, log'[p], sessions', today')
  BY <1>1, <1>2, <1>5 DEF Past
<1>7. Kept(r2, log'[p], written')
  BY <1>1, <1>2, <1>5 DEF Kept
<1>8. Ordered(r2, log'[p])
  BY <1>1, <1>2, <1>3, <1>4, RenamedInOrder
<1> QED BY <1>2, <1>6, <1>7, <1>8 DEF OneProgram, r2

LEMMA OneStep ==
  ASSUME NEW p, Processes = {p}, OneProgram(p), [Next]_vars
  PROVE  OneProgram(p)'
<1>1. p \in Processes /\ TypeInv /\ TypeInv'
  BY TypeStep DEF OneProgram
<1>2. CASE log_init(p)
  BY <1>1, <1>2, OneLogInit
<1>3. CASE log_message(p)
  BY <1>1, <1>3, OneMessage
<1>4. CASE renamed(p)
  BY <1>1, <1>4, OneRenamed
<1>5. ASSUME NEW name \in Users, log[p].log_basename = FirstName, log_update_name(p, name)
      PROVE  OneProgram(p)'
  BY <1>1, <1>5, OneUpdate
<1>6. CASE Ends(p)
  <2>1. log'[p] = NotRunning /\ UNCHANGED <<fs, today, sessions, written>>
    BY <1>1, <1>6 DEF Ends, TypeInv
  <2>2. Linked(p)'
    <3>1. NotRunning.current_log_date <= today
      BY <1>1, Now, Constants
    <3> QED BY <2>1, <3>1, Constants DEF OneProgram, Linked, AtHand
  <2>3. Past(Reading(fs), NotRunning, sessions, today)
    BY Constants DEF OneProgram, Past
  <2>4. Kept(Reading(fs), NotRunning, written)
    BY Constants DEF OneProgram, Kept
  <2>5. Ordered(Reading(fs), NotRunning)
    BY Constants DEF OneProgram, Ordered
  <2> QED BY <1>1, <2>1, <2>2, <2>3, <2>4, <2>5 DEF OneProgram
<1>7. CASE Midnight
  <2>1. today' = today + 1 /\ UNCHANGED <<fs, log, sessions, written>>
    BY <1>7 DEF Midnight
  <2>2. today \in Nat /\ log[p].current_log_date \in Nat
    BY <1>1, Now DEF Log, Days
  <2>3. Linked(p)'
    <3>1. log[p].current_log_date <= today
      BY DEF OneProgram, Linked, AtHand
    <3>2. log[p].current_log_date <= today + 1
      BY <2>2, <3>1
    <3> QED BY <2>1, <3>2 DEF OneProgram, Linked, AtHand
  <2>4. Past(Reading(fs), log[p], sessions, today + 1)
    <3> SUFFICES ASSUME NEW f \in Files, NEW line \in Range(Reading(fs)[f])
                 PROVE  f[2] <= today + 1
      BY DEF OneProgram, Past
    <3>1. f[2] \in Nat
      BY NamesDiffer
    <3>2. f[2] <= today
      BY DEF OneProgram, Past
    <3> QED BY <2>2, <3>1, <3>2
  <2> QED BY <1>1, <2>1, <2>3, <2>4 DEF OneProgram
<1>8. CASE UNCHANGED vars
  <2>1. UNCHANGED <<fs, today, log, sessions, written>>
    BY <1>8 DEF vars
  <2> QED BY <1>1, <2>1 DEF OneProgram, Linked
<1> QED BY <1>2, <1>3, <1>4, <1>5, <1>6, <1>7, <1>8 DEF Next, LoggerStep

(* README.md:24, "Robust Logging": with one program in the directory, and  *)
(* however its sessions, renames, midnights and crashes follow one         *)
(* another, a line written stays in some file, unless one of the two files *)
(* of a rename could not be opened.                                        *)
THEOREM LinesAreKept ==
  ASSUME NEW p, Processes = {p}
  PROVE  Spec => []LinesKept
<1>1. p \in Processes
  OBVIOUS
<1>2. Init => OneProgram(p)
  BY <1>1, OneInit
<1>3. OneProgram(p) /\ [Next]_vars => OneProgram(p)'
  BY OneStep
<1>4. OneProgram(p) => LinesKept
  <2> SUFFICES ASSUME OneProgram(p), NEW line \in written
               PROVE  \E f \in DOMAIN fs.dir : \E i \in DOMAIN lines_of(f) : lines_of(f)[i] = line
    BY DEF LinesKept
  <2>1. PICK f \in Files : line \in Range(Reading(fs)[f])
    BY DEF OneProgram, Kept
  <2>2. DOMAIN fs.dir = Files
    BY DEF OneProgram, TypeInv, Sound, Directory
  <2>3. Reading(fs)[f] = lines_of(f)
    BY ContentOf DEF Reading
  <2> QED BY <2>1, <2>2, <2>3 DEF Range
<1> QED BY <1>2, <1>3, <1>4, PTL DEF Spec

(* logger.c:73, "Move Content: Read from Old, Append to New": the lines    *)
(* that log_update_name moves, once or twice, leave every file in the      *)
(* order of its first copies.                                              *)
THEOREM LinesAreInOrder ==
  ASSUME NEW p, Processes = {p}
  PROVE  Spec => []LinesInOrder
<1>1. p \in Processes
  OBVIOUS
<1>2. Init => OneProgram(p)
  BY <1>1, OneInit
<1>3. OneProgram(p) /\ [Next]_vars => OneProgram(p)'
  BY OneStep
<1>4. OneProgram(p) => LinesInOrder
  <2> SUFFICES ASSUME OneProgram(p), NEW f \in DOMAIN fs.dir,
                      NEW i \in DOMAIN lines_of(f), NEW j \in DOMAIN lines_of(f),
                      Before(lines_of(f)[i], lines_of(f)[j])
               PROVE  \E first \in 1..(j - 1) : lines_of(f)[first] = lines_of(f)[i]
    BY DEF LinesInOrder
  <2>1. f \in Files /\ Sound(fs)
    BY DEF OneProgram, TypeInv, Sound, Directory
  <2>2. /\ Reading(fs)[f] = lines_of(f) /\ lines_of(f) \in Seq(Line)
        /\ DOMAIN lines_of(f) = 1..Len(lines_of(f))
    BY <2>1, ContentOf, Contents DEF Reading
  <2>3. InOrderWith(lines_of(f), lines_of(f))
    BY <2>1, <2>2 DEF OneProgram, Ordered
  <2> HIDE DEF Before
  <2> QED BY <2>2, <2>3 DEF InOrderWith
<1> QED BY <1>2, <1>3, <1>4, PTL DEF Spec

=============================================================================
