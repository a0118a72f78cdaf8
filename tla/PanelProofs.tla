----------------------------- MODULE PanelProofs ------------------------------
(***************************************************************************)
(* Theorems about the parts the run Panel holds: Console, for any players, *)
(* histories and channels; RolePermissions, for every catalogue, any       *)
(* defaults and any number of pages; DiscordGateway, for any number of     *)
(* workers and settings; Lifecycle, for any projects, console clients and  *)
(* readings.                                                               *)
(***************************************************************************)
EXTENDS Console, RolePermissions, DiscordGateway, Lifecycle,
        SequenceTheorems, WellFoundedInduction, FiniteSetTheorems, TLAPS

-----------------------------------------------------------------------------
(* Console: an operator's list is shown *)

Senders == {"internal", "operator"}
TtyLines ==
    [k : {"joined", "left"}, what : Players] \cup [k : {"echo"}, what : Senders]
        \cup [k : {"list"}, what : Senders, players : SUBSET Players]

\* The elements of what is left of a sequence when its head is taken off.
LEMMA TailIsRest ==
    ASSUME NEW S, NEW s \in Seq(S), s # <<>>
    PROVE  /\ Tail(s) \in Seq(S) /\ Head(s) = s[1] /\ 1 \in 1..Len(s) /\ Head(s) \in S
           /\ \A i \in 1..Len(Tail(s)) : i + 1 \in 1..Len(s) /\ Tail(s)[i] = s[i + 1]
<1>1. Len(s) \in Nat \ {0}
  BY EmptySeq
<1>2. Head(s) = s[1]
  OBVIOUS
<1>3. /\ Tail(s) \in Seq(S) /\ Len(Tail(s)) = Len(s) - 1 /\ Head(s) \in S
      /\ \A i \in 1..Len(Tail(s)) : Tail(s)[i] = s[i + 1]
  BY HeadTailProperties
<1> QED BY <1>1, <1>2, <1>3

\* The elements of one sequence followed by another.
LEMMA ConcatElements ==
    ASSUME NEW S, NEW s \in Seq(S), NEW t \in Seq(S)
    PROVE  /\ s \o t \in Seq(S)
           /\ \A i \in 1..Len(s \o t) : \/ i \in 1..Len(s) /\ (s \o t)[i] = s[i]
                                      \/ \E j \in 1..Len(t) : (s \o t)[i] = t[j]
<1>1. Len(s) \in Nat /\ Len(t) \in Nat
  BY LenProperties
<1>2. /\ s \o t \in Seq(S) /\ Len(s \o t) = Len(s) + Len(t)
      /\ \A i \in 1..Len(s) + Len(t) :
           (s \o t)[i] = IF i <= Len(s) THEN s[i] ELSE t[i - Len(s)]
  BY ConcatProperties
<1>3. ASSUME NEW i \in 1..Len(s) + Len(t), ~(i <= Len(s))
      PROVE  i - Len(s) \in 1..Len(t)
  BY <1>1, <1>3
<1> QED BY <1>1, <1>2, <1>3

\* A reply to an operator, with its echo, that is to come.
OperatorWaits ==
    \/ \E i \in 1..Len(commands) : commands[i] = "operator"
    \/ \E i \in 1..Len(tty) : tty[i].k \in {"echo", "list"} /\ tty[i].what = "operator"

\* Such a reply keeps the lease, and nothing is to be hidden meanwhile.
ListInv ==
    /\ truth \subseteq Players /\ commands \in Seq(Senders) /\ tty \in Seq(TtyLines)
    /\ pending \subseteq {"echo", "list"} /\ lease \in BOOLEAN
    /\ OperatorWaits => lease /\ pending = {}
    /\ OperatorListIsShown

LEMMA ListInvHolds == ConsoleSpec => []ListInv
<1> USE DEF game, typed, supervisor, connection
<1>1. ConsoleInit => ListInv
  <2>1. \A S : <<>> \in Seq(S) /\ Len(<<>>) = 0
    BY EmptySeq
  <2>2. ConsoleInit => ~OperatorWaits
    BY <2>1 DEF ConsoleInit, OperatorWaits
  <2> QED BY <2>1, <2>2 DEF ConsoleInit, ListInv, OperatorListIsShown
<1>2. ListInv /\ [ConsoleNext]_consoleVars => ListInv'
  <2> SUFFICES ASSUME ListInv, [ConsoleNext]_consoleVars PROVE ListInv'
    OBVIOUS
  <2>0. /\ truth \subseteq Players /\ commands \in Seq(Senders) /\ tty \in Seq(TtyLines)
        /\ pending \subseteq {"echo", "list"} /\ lease \in BOOLEAN
        /\ OperatorWaits => lease /\ pending = {}
        /\ OperatorListIsShown
    BY DEF ListInv
  <2>1. ASSUME UNCHANGED <<truth, commands, tty, pending, lease, hidden>> PROVE ListInv'
    BY <2>0, <2>1 DEF ListInv, OperatorWaits, OperatorListIsShown
  <2>2. ASSUME NEW p \in Players, Plays(p) PROVE ListInv'
    <3>1. PICK l \in [k : {"joined", "left"}, what : Players] : tty' = Append(tty, l)
      BY <2>2 DEF Plays, Line
    <3>2. tty' \in Seq(TtyLines)
      BY <2>0, <3>1 DEF TtyLines
    <3>3. OperatorWaits' => OperatorWaits
      BY <2>0, <2>2, <3>1 DEF Plays, OperatorWaits
    <3>4. truth' \subseteq Players
      BY <2>0, <2>2 DEF Plays
    <3> QED BY <2>0, <2>2, <3>2, <3>3, <3>4 DEF Plays, ListInv, OperatorListIsShown
  <2>3. ASSUME NEW echoes \in BOOLEAN, Answers(echoes) PROVE ListInv'
    <3>1. /\ commands # <<>> /\ commands' = Tail(commands) /\ Head(commands) \in Senders
          /\ UNCHANGED <<truth, pending, lease, hidden>>
      BY <2>0, <2>3 DEF Answers
    <3>2. PICK m \in Seq(TtyLines) : tty' = tty \o m
                                     /\ \A i \in 1..Len(m) : m[i].what = Head(commands)
      <4>1. Reply(Head(commands)) \in TtyLines /\ Reply(Head(commands)).what = Head(commands)
        BY <2>0, <3>1 DEF Reply, TtyLines
      <4>2. Echo(Head(commands)) \in TtyLines /\ Echo(Head(commands)).what = Head(commands)
        BY <2>0, <3>1 DEF Echo, Line, TtyLines
      <4>3. CASE echoes
        <5>1. tty' = tty \o <<Echo(Head(commands)), Reply(Head(commands))>>
          BY <2>0, <2>3, <4>1, <4>2, <4>3 DEF Answers
        <5> DEFINE m == <<Echo(Head(commands)), Reply(Head(commands))>>
        <5>2. m \in Seq(TtyLines) /\ Len(m) = 2
              /\ m[1] = Echo(Head(commands)) /\ m[2] = Reply(Head(commands))
          BY <4>1, <4>2
        <5>3. \A i \in 1..Len(m) : m[i].what = Head(commands)
          BY <4>1, <4>2, <5>2
        <5> QED BY <5>1, <5>2, <5>3
      <4>4. CASE ~echoes
        <5>1. tty' = tty \o <<Reply(Head(commands))>>
          BY <2>0, <2>3, <4>1, <4>4 DEF Answers
        <5> DEFINE m == <<Reply(Head(commands))>>
        <5>2. m \in Seq(TtyLines) /\ Len(m) = 1 /\ m[1] = Reply(Head(commands))
          BY <4>1
        <5>3. \A i \in 1..Len(m) : m[i].what = Head(commands)
          BY <4>1, <5>2
        <5> QED BY <5>1, <5>2, <5>3
      <4> QED BY <4>3, <4>4
    <3>3. tty' \in Seq(TtyLines) /\ commands' \in Seq(Senders)
      BY <2>0, <3>1, <3>2
    <3>4. OperatorWaits' => OperatorWaits
      <4>1. /\ Head(commands) = commands[1] /\ 1 \in 1..Len(commands)
            /\ \A i \in 1..Len(commands') :
                 i + 1 \in 1..Len(commands) /\ commands'[i] = commands[i + 1]
        BY <2>0, <3>1, TailIsRest
      <4>2. \A i \in 1..Len(tty') : \/ i \in 1..Len(tty) /\ tty'[i] = tty[i]
                                   \/ \E j \in 1..Len(m) : tty'[i] = m[j]
        BY <2>0, <3>2, ConcatElements
      <4>3. CASE \E i \in 1..Len(commands') : commands'[i] = "operator"
        BY <4>1, <4>3 DEF OperatorWaits
      <4>4. CASE \E i \in 1..Len(tty') : /\ tty'[i].k \in {"echo", "list"}
                                        /\ tty'[i].what = "operator"
        <5>1. PICK i \in 1..Len(tty') : tty'[i].k \in {"echo", "list"} /\ tty'[i].what = "operator"
          BY <4>4
        <5>2. CASE i \in 1..Len(tty) /\ tty'[i] = tty[i]
          BY <5>1, <5>2 DEF OperatorWaits
        <5>3. CASE \E j \in 1..Len(m) : tty'[i] = m[j]
          BY <3>2, <4>1, <5>1, <5>3 DEF OperatorWaits
        <5> QED BY <4>2, <5>2, <5>3
      <4> QED BY <4>3, <4>4 DEF OperatorWaits
    <3> QED BY <2>0, <3>1, <3>3, <3>4 DEF ListInv, OperatorListIsShown
  <2>4. CASE Poll
    <3>1. CASE lease
      BY <2>1, <2>4, <3>1 DEF Poll
    <3>2. CASE ~lease
      <4>1. /\ commands' = Append(commands, "internal") /\ pending' = {"echo", "list"}
            /\ UNCHANGED <<truth, tty, lease, hidden>>
        BY <2>4, <3>2 DEF Poll
      <4>2. ~OperatorWaits'
        BY <2>0, <3>2, <4>1 DEF OperatorWaits
      <4> QED BY <2>0, <4>1, <4>2 DEF ListInv, OperatorListIsShown, Senders
    <3> QED BY <3>1, <3>2
  <2>5. CASE OperatorList
    BY <2>0, <2>5 DEF OperatorList, ListInv, OperatorListIsShown, Senders
  <2>6. CASE SuppressionEnds
    BY <2>0, <2>6 DEF SuppressionEnds, ListInv, OperatorListIsShown, OperatorWaits
  <2>7. CASE LeaseEnds
    BY <2>0, <2>7 DEF LeaseEnds, Underway, ListInv, OperatorListIsShown, OperatorWaits
  <2>8. CASE readConsole
    <3>1. /\ tty # <<>> /\ tty' = Tail(tty) /\ pending' \subseteq pending
          /\ UNCHANGED <<truth, commands, lease>>
          /\ \/ hidden' = hidden
             \/ Head(tty).k \in pending /\ hidden' = hidden \cup {Head(tty).what}
      BY <2>8 DEF readConsole, Suppressed
    <3>0. /\ Tail(tty) \in Seq(TtyLines) /\ Head(tty) = tty[1] /\ 1 \in 1..Len(tty)
          /\ \A i \in 1..Len(tty') : i + 1 \in 1..Len(tty) /\ tty'[i] = tty[i + 1]
      BY <2>0, <3>1, TailIsRest
    <3>2. OperatorWaits' => OperatorWaits
      BY <2>0, <3>0, <3>1 DEF OperatorWaits
    <3>3. Head(tty).k \in pending => Head(tty).what # "operator"
      BY <2>0, <3>0, <3>1 DEF OperatorWaits
    <3> QED BY <2>0, <3>0, <3>1, <3>2, <3>3 DEF ListInv, OperatorListIsShown
  <2>9. CASE attachConsole \/ Replays \/ handleConsoleLine \/ handleInternalConsoleLine \/ Restart
    BY <2>1, <2>9 DEF attachConsole, Subscribe, Replays, handleConsoleLine,
                      handleInternalConsoleLine, Restart
  <2>10. CASE UNCHANGED consoleVars
    BY <2>1, <2>10 DEF consoleVars
  <2> QED BY <2>2, <2>3, <2>4, <2>5, <2>6, <2>7, <2>8, <2>9, <2>10 DEF ConsoleNext
<1> QED BY <1>1, <1>2, PTL DEF ConsoleSpec

\* The reply to a list an operator asked for is never hidden.
THEOREM OperatorListIsShownHolds == ConsoleSpec => []OperatorListIsShown
<1>1. ListInv => OperatorListIsShown
  BY DEF ListInv
<1> QED BY <1>1, ListInvHolds, PTL

-----------------------------------------------------------------------------
(* Console: the table catches up *)

\* Whom a line is about, and what a table S of players becomes by one line, and
\* by the first n lines of s: the last that mentions a player decides.
Mentions(l, p) == l.k = "list" \/ (l.k \in {"joined", "left"} /\ l.what = p)
Says(l, p) == l.k = "joined" \/ (l.k = "list" /\ p \in l.players)
Learnt(l, S) == {p \in Players : IF Mentions(l, p) THEN Says(l, p) ELSE p \in S}
Learns(s, n, S) ==
    {p \in Players :
        \/ p \in S /\ \A i \in 1..n : ~Mentions(s[i], p)
        \/ \E i \in 1..n : /\ Mentions(s[i], p) /\ Says(s[i], p)
                           /\ \A j \in (i + 1)..n : ~Mentions(s[j], p)}

LEMMA LearnsNothing == ASSUME NEW s, NEW S \in SUBSET Players PROVE Learns(s, 0, S) = S
  BY DEF Learns

\* The first line, and then the others.
LEMMA LearnsFirst ==
    ASSUME NEW T, NEW s \in Seq(T), s # <<>>, NEW n \in 0..Len(Tail(s)), NEW S
    PROVE  Learns(Tail(s), n, Learnt(Head(s), S)) = Learns(s, n + 1, S)
<1> DEFINE t == Tail(s)
<1>1. /\ Head(s) = s[1] /\ n \in Nat /\ n <= Len(t) /\ Len(t) \in Nat
      /\ \A i \in 1..Len(t) : t[i] = s[i + 1]
  BY TailIsRest, LenProperties
<1>2. \A i \in 1..n : t[i] = s[i + 1]
  BY <1>1
<1> HIDE DEF t
<1>3. ASSUME NEW p \in Players, p \in Learns(t, n, Learnt(Head(s), S))
      PROVE  p \in Learns(s, n + 1, S)
  <2>1. CASE \E i \in 1..n : Mentions(t[i], p) /\ Says(t[i], p) /\ \A j \in (i + 1)..n : ~Mentions(t[j], p)
    <3>1. PICK i \in 1..n : Mentions(t[i], p) /\ Says(t[i], p) /\ \A j \in (i + 1)..n : ~Mentions(t[j], p)
      BY <2>1
    <3>2. i + 1 \in 1..(n + 1) /\ Mentions(s[i + 1], p) /\ Says(s[i + 1], p)
      BY <1>1, <1>2, <3>1
    <3>3. \A j \in (i + 2)..(n + 1) : j - 1 \in (i + 1)..n /\ j - 1 \in 1..n /\ t[j - 1] = s[j]
      BY <1>1, <1>2
    <3>4. \A j \in (i + 1 + 1)..(n + 1) : ~Mentions(s[j], p)
      BY <1>1, <3>1, <3>3
    <3> QED BY <3>2, <3>4 DEF Learns
  <2>2. CASE p \in Learnt(Head(s), S) /\ \A i \in 1..n : ~Mentions(t[i], p)
    <3>1. \A j \in 2..(n + 1) : j - 1 \in 1..n /\ t[j - 1] = s[j]
      BY <1>1, <1>2
    <3>2. \A j \in 2..(n + 1) : ~Mentions(s[j], p)
      BY <2>2, <3>1
    <3>3. CASE Mentions(s[1], p)
      <4>1. Says(s[1], p)
        BY <1>1, <2>2, <3>3 DEF Learnt
      <4>2. 1 \in 1..(n + 1) /\ \A j \in (1 + 1)..(n + 1) : ~Mentions(s[j], p)
        BY <1>1, <3>2
      <4> QED BY <3>3, <4>1, <4>2 DEF Learns
    <3>4. CASE ~Mentions(s[1], p)
      <4>1. p \in S
        BY <1>1, <2>2, <3>4 DEF Learnt
      <4>2. \A j \in 1..(n + 1) : ~Mentions(s[j], p)
        <5>1. \A j \in 1..(n + 1) : j = 1 \/ j \in 2..(n + 1)
          BY <1>1
        <5> QED BY <3>2, <3>4, <5>1
      <4> QED BY <4>1, <4>2 DEF Learns
    <3> QED BY <3>3, <3>4
  <2> QED BY <1>3, <2>1, <2>2 DEF Learns
<1>4. ASSUME NEW p \in Players, p \in Learns(s, n + 1, S)
      PROVE  p \in Learns(t, n, Learnt(Head(s), S))
  <2>1. \A i \in 1..n : i + 1 \in 1..(n + 1) /\ t[i] = s[i + 1]
    BY <1>1, <1>2
  <2>2. CASE \E i \in 1..(n + 1) : Mentions(s[i], p) /\ Says(s[i], p) /\ \A j \in (i + 1)..(n + 1) : ~Mentions(s[j], p)
    <3>1. PICK i \in 1..(n + 1) : Mentions(s[i], p) /\ Says(s[i], p) /\ \A j \in (i + 1)..(n + 1) : ~Mentions(s[j], p)
      BY <2>2
    <3>2. CASE i = 1
      <4>1. p \in Learnt(Head(s), S)
        BY <1>1, <3>1, <3>2 DEF Learnt
      <4>2. \A j \in 1..n : ~Mentions(t[j], p)
        <5>1. \A j \in 1..n : j + 1 \in (i + 1)..(n + 1)
          BY <1>1, <3>2
        <5> QED BY <2>1, <3>1, <5>1
      <4> QED BY <4>1, <4>2 DEF Learns
    <3>3. CASE i # 1
      <4>1. i - 1 \in 1..n /\ t[i - 1] = s[i]
        <5>1. i - 1 \in 1..n /\ (i - 1) + 1 = i
          BY <1>1, <3>3
        <5> QED BY <2>1, <5>1
      <4>2. \A j \in (i - 1 + 1)..n : ~Mentions(t[j], p)
        <5>1. \A j \in (i - 1 + 1)..n : j \in 1..n /\ j + 1 \in (i + 1)..(n + 1)
          BY <1>1, <3>3
        <5> QED BY <2>1, <3>1, <5>1
      <4> QED BY <3>1, <4>1, <4>2 DEF Learns
    <3> QED BY <3>2, <3>3
  <2>3. CASE p \in S /\ \A i \in 1..(n + 1) : ~Mentions(s[i], p)
    <3>1. 1 \in 1..(n + 1)
      BY <1>1
    <3>2. p \in Learnt(Head(s), S)
      BY <1>1, <2>3, <3>1 DEF Learnt
    <3> QED BY <2>1, <2>3, <3>2 DEF Learns
  <2> QED BY <1>4, <2>2, <2>3 DEF Learns
<1>5. Learns(t, n, Learnt(Head(s), S)) \subseteq Players /\ Learns(s, n + 1, S) \subseteq Players
  BY DEF Learns
<1> QED BY <1>3, <1>4, <1>5 DEF t

\* One more line.
LEMMA LearnsMore ==
    ASSUME NEW T, NEW s \in Seq(T), NEW l \in T, NEW S
    PROVE  /\ \A n \in 0..Len(s) : Learns(Append(s, l), n, S) = Learns(s, n, S)
           /\ Learns(Append(s, l), Len(s) + 1, S) = Learnt(l, Learns(s, Len(s), S))
<1> DEFINE t == Append(s, l)
           m == Len(s)
<1>1. m \in Nat /\ t[m + 1] = l /\ \A i \in 1..m : t[i] = s[i]
  BY AppendProperties, LenProperties
<1> HIDE DEF t, m
<1>2. ASSUME NEW n \in 0..m PROVE Learns(t, n, S) = Learns(s, n, S)
  <2>1. \A i \in 1..n : t[i] = s[i] /\ \A j \in (i + 1)..n : t[j] = s[j]
    BY <1>1
  <2> QED BY <2>1 DEF Learns
<1>3. Learns(t, m + 1, S) = Learnt(l, Learns(s, m, S))
  <2>0. /\ m + 1 \in 1..(m + 1) /\ (m + 1 + 1)..(m + 1) = {}
        /\ \A i \in 1..m : i \in 1..(m + 1) /\ m + 1 \in (i + 1)..(m + 1)
        /\ \A i \in 1..(m + 1) : i = m + 1 \/ i \in 1..m
    BY <1>1
  <2>1. ASSUME NEW p \in Players, Mentions(l, p) PROVE p \in Learns(t, m + 1, S) <=> Says(l, p)
    <3>1. Mentions(t[m + 1], p) /\ (Says(t[m + 1], p) <=> Says(l, p))
      BY <1>1, <2>1
    <3> QED BY <2>0, <3>1 DEF Learns
  <2>2. ASSUME NEW p \in Players, ~Mentions(l, p)
        PROVE p \in Learns(t, m + 1, S) <=> p \in Learns(s, m, S)
    <3>1. (\A i \in 1..(m + 1) : ~Mentions(t[i], p)) <=> (\A i \in 1..m : ~Mentions(s[i], p))
      BY <1>1, <2>0, <2>2
    <3>2. ASSUME NEW i \in 1..m
          PROVE  (\A j \in (i + 1)..(m + 1) : ~Mentions(t[j], p)) <=> (\A j \in (i + 1)..m : ~Mentions(s[j], p))
      <4>1. \A j \in (i + 1)..(m + 1) : j = m + 1 \/ j \in (i + 1)..m
        BY <1>1
      <4>2. \A j \in (i + 1)..m : j \in (i + 1)..(m + 1) /\ t[j] = s[j]
        BY <1>1
      <4> QED BY <1>1, <2>2, <4>1, <4>2
    <3>3. (\E i \in 1..(m + 1) : Mentions(t[i], p) /\ Says(t[i], p) /\ \A j \in (i + 1)..(m + 1) : ~Mentions(t[j], p))
          <=> (\E i \in 1..m : Mentions(s[i], p) /\ Says(s[i], p) /\ \A j \in (i + 1)..m : ~Mentions(s[j], p))
      BY <1>1, <2>0, <2>2, <3>2
    <3> QED BY <3>1, <3>3 DEF Learns
  <2>3. \A p \in Players : p \in Learnt(l, Learns(s, m, S)) <=>
            IF Mentions(l, p) THEN Says(l, p) ELSE p \in Learns(s, m, S)
    BY DEF Learnt
  <2>4. Learns(t, m + 1, S) \subseteq Players /\ Learnt(l, Learns(s, m, S)) \subseteq Players
    BY DEF Learns, Learnt
  <2> QED BY <2>1, <2>2, <2>3, <2>4
<1> QED BY <1>2, <1>3 DEF t, m

\* A table that only says what the lines mention might as well be empty.
LEMMA LearnsAnew ==
    ASSUME NEW s, NEW n, NEW S,
           \A p \in S : \E i \in 1..n : Mentions(s[i], p)
    PROVE  Learns(s, n, S) = Learns(s, n, {})
  BY DEF Learns

\* What the control plane makes of a line.
LEMMA ParsedIsLearnt ==
    ASSUME NEW l \in TtyLines, online \subseteq Players
    PROVE  Parsed(l) = Learnt(l, online)
  BY DEF Parsed, Learnt, Mentions, Says, TtyLines, reconcileOnline

-----------------------------------------------------------------------------
\* What the supervisor's history tells, and whom it mentions.
Known == Learns(history, Len(history), {})
Mentioned == {p \in Players : \E i \in 1..Len(history) : Mentions(history[i], p)}

\* A list in t names the players that the lines before it make of S.
Honest(t, S) == \A i \in 1..Len(t) : t[i].k = "list" => t[i].players = Learns(t, i - 1, S)
Harmless(t) == \A i \in 1..Len(t) : Learnt(t[i], {}) \subseteq Mentioned

StreamTypes ==
    /\ online \subseteq Players /\ history \in Seq(TtyLines) /\ Len(history) <= HistoryLines
    /\ lines \in Seq(TtyLines) /\ internalLines \in Seq(TtyLines) /\ replay \in Seq(TtyLines)

\* The history and what is still in the terminal tell who plays; the table, the
\* replay and one channel with lines tell what the history does.
CatchUpInv ==
    /\ truth = Learns(tty, Len(tty), Known) /\ Honest(tty, Known)
    /\ online \subseteq Mentioned /\ Harmless(replay) /\ Harmless(lines) /\ Harmless(internalLines)
    /\ on /\ internalLines = <<>> =>
         Learns(lines, Len(lines), Learns(replay, Len(replay), online)) = Known
    /\ on /\ lines = <<>> =>
         Learns(internalLines, Len(internalLines), Learns(replay, Len(replay), online)) = Known

LEMMA LearnsTyped == ASSUME NEW s, NEW n, NEW S PROVE Learns(s, n, S) \subseteq Players
  BY DEF Learns

LEMMA HonestMore ==
    ASSUME NEW t \in Seq(TtyLines), NEW S, Honest(t, S), NEW l \in TtyLines,
           l.k = "list" => l.players = Learns(t, Len(t), S)
    PROVE  /\ Append(t, l) \in Seq(TtyLines) /\ Honest(Append(t, l), S)
           /\ Learns(Append(t, l), Len(Append(t, l)), S) = Learnt(l, Learns(t, Len(t), S))
<1> DEFINE u == Append(t, l)
<1>1. /\ u \in Seq(TtyLines) /\ Len(u) = Len(t) + 1 /\ u[Len(t) + 1] = l /\ Len(t) \in Nat
      /\ \A i \in 1..Len(t) : u[i] = t[i]
  BY AppendProperties, LenProperties
<1>2. /\ \A n \in 0..Len(t) : Learns(u, n, S) = Learns(t, n, S)
      /\ Learns(u, Len(t) + 1, S) = Learnt(l, Learns(t, Len(t), S))
  BY LearnsMore
<1> HIDE DEF u
<1>3. ASSUME NEW i \in 1..Len(u), u[i].k = "list" PROVE u[i].players = Learns(u, i - 1, S)
  <2>1. CASE i \in 1..Len(t)
    <3>1. i - 1 \in 0..Len(t) /\ u[i] = t[i]
      BY <1>1, <2>1
    <3>2. t[i].players = Learns(t, i - 1, S)
      BY <1>3, <2>1, <3>1 DEF Honest
    <3> QED BY <1>2, <3>1, <3>2
  <2>2. CASE i = Len(t) + 1
    <3>1. i - 1 = Len(t) /\ Len(t) \in 0..Len(t) /\ u[i] = l
      BY <1>1, <2>2
    <3> QED BY <1>2, <1>3, <3>1
  <2> QED BY <1>1, <2>1, <2>2
<1>4. Honest(u, S)
  BY <1>3 DEF Honest
<1> QED BY <1>1, <1>2, <1>4 DEF u

LEMMA HonestLess ==
    ASSUME NEW t \in Seq(TtyLines), t # <<>>, NEW S \in SUBSET Players, Honest(t, S)
    PROVE  /\ Honest(Tail(t), Learnt(Head(t), S))
           /\ Learns(Tail(t), Len(Tail(t)), Learnt(Head(t), S)) = Learns(t, Len(t), S)
           /\ Head(t).k = "list" => Head(t).players = S
<1> DEFINE u == Tail(t)
           R == Learnt(Head(t), S)
<1>1. /\ u \in Seq(TtyLines) /\ Head(t) = t[1] /\ 1 \in 1..Len(t) /\ Len(t) = Len(u) + 1
      /\ \A i \in 1..Len(u) : i + 1 \in 1..Len(t) /\ u[i] = t[i + 1]
  BY TailIsRest, HeadTailProperties, LenProperties
<1>2. Len(u) \in Nat /\ \A n \in 0..Len(u) : Learns(u, n, R) = Learns(t, n + 1, S)
  BY <1>1, LearnsFirst, LenProperties
<1>3. Head(t).k = "list" => Head(t).players = S
  <2>1. Head(t).k = "list" => Head(t).players = Learns(t, 1 - 1, S)
    BY <1>1 DEF Honest
  <2> QED BY <2>1, LearnsNothing
<1> HIDE DEF u, R
<1>4. ASSUME NEW i \in 1..Len(u), u[i].k = "list" PROVE u[i].players = Learns(u, i - 1, R)
  <2>1. i - 1 \in 0..Len(u) /\ i + 1 \in 1..Len(t) /\ (i - 1) + 1 = (i + 1) - 1 /\ u[i] = t[i + 1]
    BY <1>1, <1>2
  <2>2. t[i + 1].players = Learns(t, (i + 1) - 1, S)
    BY <1>4, <2>1 DEF Honest
  <2> QED BY <1>2, <2>1, <2>2
<1>5. Learns(u, Len(u), R) = Learns(t, Len(t), S)
  BY <1>1, <1>2
<1> QED BY <1>3, <1>4, <1>5 DEF u, R, Honest

\* Whoever the history tells of it mentions.
LEMMA KnownIsMentioned == Known \subseteq Mentioned
  BY DEF Known, Mentioned, Learns

LEMMA LearntIsMentioned ==
    ASSUME NEW l, NEW S, S \subseteq Mentioned, Learnt(l, {}) \subseteq Mentioned
    PROVE  Learnt(l, S) \subseteq Mentioned
  BY DEF Learnt

\* A stream that loses its first line is no less harmless; neither is one that
\* gets a harmless line more.
LEMMA HarmlessSteps ==
    ASSUME NEW t \in Seq(TtyLines), Harmless(t)
    PROVE  /\ t # <<>> => Harmless(Tail(t)) /\ Learnt(Head(t), {}) \subseteq Mentioned
           /\ \A l \in TtyLines : Learnt(l, {}) \subseteq Mentioned => Harmless(Append(t, l))
<1>1. ASSUME t # <<>> PROVE Harmless(Tail(t)) /\ Learnt(Head(t), {}) \subseteq Mentioned
  <2>1. /\ Head(t) = t[1] /\ 1 \in 1..Len(t)
        /\ \A i \in 1..Len(Tail(t)) : i + 1 \in 1..Len(t) /\ Tail(t)[i] = t[i + 1]
    BY <1>1, TailIsRest
  <2> QED BY <2>1 DEF Harmless
<1>2. ASSUME NEW l \in TtyLines, Learnt(l, {}) \subseteq Mentioned PROVE Harmless(Append(t, l))
  <2>1. /\ Len(Append(t, l)) = Len(t) + 1 /\ Append(t, l)[Len(t) + 1] = l /\ Len(t) \in Nat
        /\ \A i \in 1..Len(t) : Append(t, l)[i] = t[i]
    BY AppendProperties, LenProperties
  <2>2. \A i \in 1..(Len(t) + 1) : i = Len(t) + 1 \/ i \in 1..Len(t)
    BY <2>1
  <2> QED BY <1>2, <2>1, <2>2 DEF Harmless
<1> QED BY <1>1, <1>2

LEMMA StreamStep == ListInv /\ StreamTypes /\ [ConsoleNext]_consoleVars => StreamTypes'
<1> SUFFICES ASSUME ListInv, StreamTypes, [ConsoleNext]_consoleVars PROVE StreamTypes'
  OBVIOUS
<1>0. /\ online \subseteq Players /\ history \in Seq(TtyLines) /\ Len(history) <= HistoryLines
      /\ lines \in Seq(TtyLines) /\ internalLines \in Seq(TtyLines) /\ replay \in Seq(TtyLines)
      /\ tty \in Seq(TtyLines) /\ HistoryLines \in Nat
  BY ConsoleAssumption DEF StreamTypes, ListInv
<1> USE DEF game, typed, supervisor, connection
<1>1. ASSUME UNCHANGED <<online, history, lines, internalLines, replay>> PROVE StreamTypes'
  BY <1>0, <1>1 DEF StreamTypes
<1>2. ASSUME NEW l \in TtyLines PROVE Parsed(l) \subseteq Players
  BY <1>0, ParsedIsLearnt DEF Learnt
<1>3. CASE \/ \E p \in Players : Plays(p)
           \/ \E echoes \in BOOLEAN : Answers(echoes)
           \/ Poll \/ OperatorList \/ SuppressionEnds \/ LeaseEnds \/ UNCHANGED consoleVars
  BY <1>1, <1>3 DEF Plays, Answers, Poll, OperatorList, SuppressionEnds, LeaseEnds, consoleVars
<1>4. CASE readConsole
  <2> DEFINE line == Head(tty)
  <2>1. line \in TtyLines
    BY <1>0, <1>4, TailIsRest DEF readConsole
  <2>2. \A ch \in Seq(TtyLines) : Publish(ch, line) \in Seq(TtyLines)
    BY <2>1, AppendProperties DEF Publish
  <2>3. /\ Newest(Append(history, line)) \in Seq(TtyLines)
        /\ Len(Newest(Append(history, line))) <= HistoryLines
    <3>1. /\ Append(history, line) \in Seq(TtyLines) /\ Append(history, line) # <<>>
          /\ Len(Append(history, line)) = Len(history) + 1 /\ Len(history) \in Nat
      BY <1>0, <2>1, AppendProperties, LenProperties
    <3>2. /\ Tail(Append(history, line)) \in Seq(TtyLines)
          /\ Len(Tail(Append(history, line))) = Len(history)
      BY <3>1, HeadTailProperties
    <3> QED BY <1>0, <3>1, <3>2 DEF Newest
  <2> HIDE DEF line
  <2>4. /\ UNCHANGED <<online, replay>>
        /\ \/ history' = history
           \/ history' = Newest(Append(history, line))
        /\ lines' = lines \/ lines' = Publish(lines, line)
        /\ internalLines' = internalLines \/ internalLines' = Publish(internalLines, line)
    BY <1>4 DEF readConsole, line
  <2> QED BY <1>0, <2>2, <2>3, <2>4 DEF StreamTypes
<1>5. CASE attachConsole
  <2>1. <<>> \in Seq(TtyLines)
    BY EmptySeq
  <2> QED BY <1>0, <1>5, <2>1 DEF attachConsole, Subscribe, StreamTypes
<1>6. CASE Restart
  <2>1. <<>> \in Seq(TtyLines)
    BY EmptySeq
  <2> QED BY <1>0, <1>6, <2>1 DEF Restart, StreamTypes
<1>7. CASE Replays
  <2>1. Tail(replay) \in Seq(TtyLines) /\ Head(replay) \in TtyLines
    BY <1>0, <1>7, TailIsRest DEF Replays
  <2> QED BY <1>0, <1>2, <1>7, <2>1 DEF Replays, StreamTypes
<1>8. CASE handleConsoleLine
  <2>1. Tail(lines) \in Seq(TtyLines) /\ Head(lines) \in TtyLines
    BY <1>0, <1>8, TailIsRest DEF handleConsoleLine
  <2> QED BY <1>0, <1>2, <1>8, <2>1 DEF handleConsoleLine, StreamTypes
<1>9. CASE handleInternalConsoleLine
  <2>1. Tail(internalLines) \in Seq(TtyLines) /\ Head(internalLines) \in TtyLines
    BY <1>0, <1>9, TailIsRest DEF handleInternalConsoleLine
  <2> QED BY <1>0, <1>2, <1>9, <2>1 DEF handleInternalConsoleLine, StreamTypes
<1> QED BY <1>3, <1>4, <1>5, <1>6, <1>7, <1>8, <1>9 DEF ConsoleNext

\* The game goes on, and Minecraft answers.
LEMMA CatchUpInGame ==
    ASSUME ListInv, StreamTypes, CatchUpInv,
           \/ \E p \in Players : Plays(p)
           \/ \E echoes \in BOOLEAN : Answers(echoes)
    PROVE  CatchUpInv'
<1>0. /\ truth = Learns(tty, Len(tty), Known) /\ Honest(tty, Known)
      /\ tty \in Seq(TtyLines) /\ commands \in Seq(Senders) /\ truth \subseteq Players
  BY DEF CatchUpInv, ListInv
<1> USE DEF game, typed, supervisor, connection
<1>1. UNCHANGED <<history, on, lines, internalLines, replay, online>>
  BY DEF Plays, Answers
<1>2. ASSUME truth' = Learns(tty', Len(tty'), Known), Honest(tty', Known) PROVE CatchUpInv'
  BY <1>1, <1>2 DEF CatchUpInv, Known, Mentioned, Honest, Harmless
<1>3. ASSUME NEW p \in Players, Plays(p) PROVE CatchUpInv'
  <2> DEFINE l == Line(IF p \in truth THEN "left" ELSE "joined", p)
  <2>1. l \in TtyLines /\ l.k # "list" /\ l.what = p /\ l.k = IF p \in truth THEN "left" ELSE "joined"
    BY DEF Line, TtyLines
  <2> HIDE DEF l
  <2>2. tty' = Append(tty, l) /\ truth' = IF p \in truth THEN truth \ {p} ELSE truth \cup {p}
    BY <1>3 DEF Plays, l
  <2>3. Honest(tty', Known) /\ Learns(tty', Len(tty'), Known) = Learnt(l, truth)
    BY <1>0, <2>1, <2>2, HonestMore
  <2>4. truth' = Learnt(l, truth)
    BY <1>0, <2>1, <2>2 DEF Learnt, Mentions, Says
  <2> QED BY <1>2, <2>3, <2>4
<1>4. ASSUME NEW echoes \in BOOLEAN, Answers(echoes) PROVE CatchUpInv'
  <2> DEFINE by == Head(commands)
             e == Echo(by)
             r == Reply(by)
  <2>1. by \in Senders /\ UNCHANGED truth
    BY <1>0, <1>4, TailIsRest DEF Answers
  <2>2. e \in TtyLines /\ r \in TtyLines /\ e.k = "echo" /\ r.k = "list" /\ r.players = truth
    BY <1>0, <2>1 DEF Echo, Line, Reply, TtyLines
  <2>3. tty' = IF echoes THEN Append(Append(tty, e), r) ELSE Append(tty, r)
    <3>1. tty' = tty \o (IF echoes THEN <<e>> ELSE <<>>) \o <<r>>
      BY <1>4 DEF Answers
    <3>2. tty \o <<>> = tty /\ tty \o <<e>> = Append(tty, e) /\ Append(tty, e) \in Seq(TtyLines)
      BY <1>0, <2>2, AppendIsConcat, ConcatEmptySeq, AppendProperties
    <3>3. tty \o <<r>> = Append(tty, r) /\ Append(tty, e) \o <<r>> = Append(Append(tty, e), r)
      BY <1>0, <2>2, <3>2, AppendIsConcat
    <3> QED BY <3>1, <3>2, <3>3
  <2> HIDE DEF by, e, r
  <2>4. /\ Append(tty, e) \in Seq(TtyLines) /\ Honest(Append(tty, e), Known)
        /\ Learns(Append(tty, e), Len(Append(tty, e)), Known) = Learnt(e, truth)
    BY <1>0, <2>2, HonestMore
  <2>5. Learnt(e, truth) = truth /\ Learnt(r, truth) = truth
    BY <1>0, <2>2 DEF Learnt, Mentions, Says
  <2>6. Honest(tty', Known) /\ Learns(tty', Len(tty'), Known) = truth
    <3>1. CASE echoes
      <4>1. Learns(Append(tty, e), Len(Append(tty, e)), Known) = truth
        BY <2>4, <2>5
      <4> DEFINE u == Append(tty, e)
      <4>2. u \in Seq(TtyLines) /\ Honest(u, Known) /\ Learns(u, Len(u), Known) = truth
        BY <2>4, <4>1
      <4> HIDE DEF u
      <4>3. Honest(Append(u, r), Known) /\ Learns(Append(u, r), Len(Append(u, r)), Known) = truth
        BY <2>2, <2>5, <4>2, HonestMore
      <4> QED BY <2>3, <3>1, <4>3 DEF u
    <3>2. CASE ~echoes
      BY <1>0, <2>2, <2>3, <2>5, <3>2, HonestMore
    <3> QED BY <3>1, <3>2
  <2> QED BY <1>2, <2>1, <2>6
<1> QED BY <1>3, <1>4

\* The supervisor reads a line and publishes it.
LEMMA CatchUpRead ==
    ASSUME ListInv, StreamTypes, CatchUpInv, readConsole, ~lossy'
    PROVE  CatchUpInv'
<1> DEFINE line == Head(tty)
           table == Learns(replay, Len(replay), online)
<1>0. /\ truth = Learns(tty, Len(tty), Known) /\ Honest(tty, Known) /\ tty \in Seq(TtyLines)
      /\ online \subseteq Mentioned /\ Harmless(replay) /\ Harmless(lines) /\ Harmless(internalLines)
      /\ pending \subseteq {"echo", "list"} /\ HistoryLines \in Nat
      /\ history \in Seq(TtyLines) /\ Len(history) <= HistoryLines /\ Len(history) \in Nat
      /\ lines \in Seq(TtyLines) /\ internalLines \in Seq(TtyLines) /\ replay \in Seq(TtyLines)
      /\ ChannelCapacity \in Nat /\ Len(lines) \in Nat /\ Len(internalLines) \in Nat
      /\ Known \subseteq Players /\ table \subseteq Players
  BY ConsoleAssumption, LearnsTyped, LenProperties DEF CatchUpInv, ListInv, StreamTypes, Known
<1>1. line \in TtyLines /\ tty # <<>> /\ tty' = Tail(tty)
  BY <1>0, TailIsRest DEF readConsole
<1>2. /\ Honest(tty', Learnt(line, Known))
      /\ Learns(tty', Len(tty'), Learnt(line, Known)) = truth
      /\ line.k = "list" => line.players = Known
  BY <1>0, <1>1, HonestLess
<1>3. /\ on /\ internalLines = <<>> => Learns(lines, Len(lines), table) = Known
      /\ on /\ lines = <<>> => Learns(internalLines, Len(internalLines), table) = Known
  BY DEF CatchUpInv
<1>4. UNCHANGED <<truth, on, replay, online>>
  BY DEF readConsole, game, typed
<1>9. table' = table
  BY <1>4
<1> HIDE DEF line, table
<1>5. CASE Suppressed(line)
  <2>1. /\ history' = history /\ lines' = lines
        /\ internalLines' = IF on THEN Append(internalLines, line) ELSE internalLines
    <3>1. /\ history' = history /\ lines' = lines /\ internalLines' = Publish(internalLines, line)
          /\ ~Full(internalLines)
      BY <1>5 DEF readConsole, line
    <3> QED BY <1>0, <3>1 DEF Publish, Full
  <2>2. Known' = Known /\ Mentioned' = Mentioned
    BY <2>1 DEF Known, Mentioned
  <2>3. Learnt(line, Known) = Known /\ Learnt(line, {}) \subseteq Mentioned
    <3>1. line.k \in {"echo", "list"}
      BY <1>0, <1>5 DEF Suppressed
    <3> QED BY <1>0, <1>2, <3>1, KnownIsMentioned DEF Learnt, Mentions, Says
  <2>4. Harmless(internalLines')
    BY <1>0, <1>1, <2>1, <2>3, HarmlessSteps
  <2>5. on /\ lines = <<>> => Learns(internalLines', Len(internalLines'), table) = Known
    <3>1. /\ Len(Append(internalLines, line)) = Len(internalLines) + 1
          /\ Learns(Append(internalLines, line), Len(internalLines) + 1, table)
               = Learnt(line, Learns(internalLines, Len(internalLines), table))
      BY <1>0, <1>1, LearnsMore, AppendProperties
    <3> QED BY <1>3, <2>1, <2>3, <3>1
  <2>6. on => internalLines' # <<>>
    <3>0. internalLines \in Seq(TtyLines) /\ line \in TtyLines
      BY <1>0, <1>1
    <3>1. Append(internalLines, line) # <<>>
      BY <3>0, AppendProperties
    <3> QED BY <2>1, <3>1
  <2>7. Honest(tty, Known)' /\ Harmless(replay)' /\ Harmless(lines)' /\ Harmless(internalLines)'
    BY <1>0, <1>2, <1>4, <2>1, <2>2, <2>3, <2>4 DEF Honest, Harmless
  <2>8. truth' = Learns(tty', Len(tty'), Known')
    BY <1>2, <1>4, <2>2, <2>3
  <2>9. (online \subseteq Mentioned)'
    BY <1>0, <1>4, <2>2
  <2>10. on' => internalLines' # <<>>
    BY <1>4, <2>6
  <2>11. on' /\ lines' = <<>> => Learns(internalLines', Len(internalLines'), table') = Known'
    BY <1>4, <1>9, <2>1, <2>2, <2>5
  <2> QED BY <2>7, <2>8, <2>9, <2>10, <2>11 DEF CatchUpInv, table
<1>6. CASE ~Suppressed(line)
  <2>1. /\ Len(history) # HistoryLines /\ history' = Append(history, line)
        /\ lines' = (IF on THEN Append(lines, line) ELSE lines) /\ internalLines' = internalLines
    <3>1. /\ history' = Newest(Append(history, line)) /\ lines' = Publish(lines, line)
          /\ ~Full(lines) /\ Len(history) # HistoryLines /\ internalLines' = internalLines
      BY <1>6 DEF readConsole, line
    <3>2. Len(Append(history, line)) = Len(history) + 1
      BY <1>0, <1>1, AppendProperties
    <3>3. ~(Len(history) + 1 > HistoryLines)
      BY <1>0, <3>1
    <3>4. Newest(Append(history, line)) = Append(history, line)
      BY <3>2, <3>3 DEF Newest
    <3>5. Publish(lines, line) = IF on THEN Append(lines, line) ELSE lines
      BY <1>0, <3>1 DEF Publish, Full
    <3> QED BY <3>1, <3>4, <3>5
  <2>2. /\ history' \in Seq(TtyLines) /\ Len(history') = Len(history) + 1
        /\ history'[Len(history) + 1] = line /\ \A i \in 1..Len(history) : history'[i] = history[i]
    BY <1>0, <1>1, <2>1, AppendProperties
  <2>3. Known' = Learnt(line, Known)
    <3>1. Learns(history', Len(history) + 1, {}) = Learnt(line, Known)
      BY <1>0, <1>1, <2>1, LearnsMore DEF Known
    <3> QED BY <2>2, <3>1 DEF Known
  <2>4. /\ Mentioned \subseteq Mentioned'
        /\ \A p \in Players : Mentions(line, p) => p \in Mentioned'
    <3>1. Len(history) + 1 \in 1..Len(history') /\ \A i \in 1..Len(history) : i \in 1..Len(history')
      BY <1>0, <2>2
    <3> QED BY <2>2, <3>1 DEF Mentioned
  <2>5. Learnt(line, {}) \subseteq Mentioned'
    BY <2>4 DEF Learnt
  <2>6. Harmless(replay)' /\ Harmless(internalLines)' /\ Harmless(lines)'
    <3>1. Harmless(replay)' /\ Harmless(internalLines)'
      BY <1>0, <1>4, <2>1, <2>4 DEF Harmless
    <3>2. ASSUME ~on PROVE Harmless(lines)'
      <4>1. lines' = lines
        BY <2>1, <3>2
      <4> QED BY <1>0, <2>4, <4>1 DEF Harmless
    <3>3. ASSUME on PROVE Harmless(lines)'
      <4>1. /\ Len(lines') = Len(lines) + 1 /\ lines'[Len(lines) + 1] = line /\ Len(lines) \in Nat
            /\ \A i \in 1..Len(lines) : lines'[i] = lines[i]
        BY <1>0, <1>1, <2>1, <3>3, AppendProperties, LenProperties
      <4>2. \A i \in 1..Len(lines') : i = Len(lines) + 1 \/ i \in 1..Len(lines)
        BY <4>1
      <4>3. \A i \in 1..Len(lines) : Learnt(lines[i], {}) \subseteq Mentioned
        BY <1>0 DEF Harmless
      <4>4. \A i \in 1..Len(lines') : Learnt(lines'[i], {}) \subseteq Mentioned'
        BY <2>4, <2>5, <4>1, <4>2, <4>3
      <4> QED BY <4>4 DEF Harmless
    <3> QED BY <3>1, <3>2, <3>3
  <2>7. on /\ internalLines = <<>> => Learns(lines', Len(lines'), table) = Known'
    <3>1. /\ Len(Append(lines, line)) = Len(lines) + 1
          /\ Learns(Append(lines, line), Len(lines) + 1, table) = Learnt(line, Learns(lines, Len(lines), table))
      BY <1>0, <1>1, LearnsMore, AppendProperties
    <3> QED BY <1>3, <2>1, <2>3, <3>1
  <2>8. on => lines' # <<>>
    <3>0. lines \in Seq(TtyLines) /\ line \in TtyLines
      BY <1>0, <1>1
    <3>1. Append(lines, line) # <<>>
      BY <3>0, AppendProperties
    <3> QED BY <2>1, <3>1
  <2>9. Honest(tty, Known)' /\ truth' = Learns(tty', Len(tty'), Known')
    BY <1>2, <1>4, <2>3 DEF Honest
  <2>10. (online \subseteq Mentioned)'
    BY <1>0, <1>4, <2>4
  <2> QED BY <1>4, <1>9, <2>1, <2>6, <2>7, <2>8, <2>9, <2>10 DEF CatchUpInv, table
<1> QED BY <1>5, <1>6

\* The control plane attaches, and handles what the connection brings.
LEMMA CatchUpHandled ==
    ASSUME ListInv, StreamTypes, CatchUpInv, ~lossy',
           attachConsole \/ Replays \/ handleConsoleLine \/ handleInternalConsoleLine \/ Restart
    PROVE  CatchUpInv'
<1>0. /\ online \subseteq Mentioned /\ Harmless(replay) /\ Harmless(lines) /\ Harmless(internalLines)
      /\ history \in Seq(TtyLines) /\ lines \in Seq(TtyLines) /\ internalLines \in Seq(TtyLines)
      /\ replay \in Seq(TtyLines) /\ online \subseteq Players
      /\ truth = Learns(tty, Len(tty), Known) /\ Honest(tty, Known)
      /\ on /\ internalLines = <<>> =>
           Learns(lines, Len(lines), Learns(replay, Len(replay), online)) = Known
      /\ on /\ lines = <<>> =>
           Learns(internalLines, Len(internalLines), Learns(replay, Len(replay), online)) = Known
  BY DEF CatchUpInv, StreamTypes
<1> USE DEF game, typed, supervisor, connection
<1>1. UNCHANGED <<truth, tty, history>>
  BY DEF attachConsole, Subscribe, Replays, handleConsoleLine, handleInternalConsoleLine, Restart
<1>2. Known' = Known /\ Mentioned' = Mentioned
  BY <1>1 DEF Known, Mentioned
<1>3. truth' = Learns(tty', Len(tty'), Known') /\ Honest(tty, Known)'
  BY <1>0, <1>1, <1>2 DEF Honest
<1>4. \A s : s = <<>> => Len(s) = 0
  OBVIOUS
<1>5. \A S \in SUBSET Players : Learns(<<>>, 0, S) = S
  BY LearnsNothing
<1>6. ASSUME NEW s, Harmless(s) PROVE \A i \in 1..Len(s) : Learnt(s[i], {}) \subseteq Mentioned'
  BY <1>2, <1>6 DEF Harmless
<1>7. ASSUME NEW l \in TtyLines, Learnt(l, {}) \subseteq Mentioned
      PROVE  Parsed(l) = Learnt(l, online) /\ Parsed(l) \subseteq Mentioned /\ Parsed(l) \subseteq Players
  BY <1>0, <1>7, ParsedIsLearnt, LearntIsMentioned DEF Mentioned
\* What one line less in a stream leaves to be learnt.
<1>8. ASSUME NEW s \in Seq(TtyLines), s # <<>>, Harmless(s)
      PROVE  /\ Head(s) \in TtyLines /\ Parsed(Head(s)) \subseteq Mentioned
             /\ Parsed(Head(s)) \subseteq Players /\ Tail(s) \in Seq(TtyLines)
             /\ Learns(Tail(s), Len(Tail(s)), Parsed(Head(s))) = Learns(s, Len(s), online)
             /\ Harmless(Tail(s))
  <2>1. /\ Head(s) \in TtyLines /\ Tail(s) \in Seq(TtyLines) /\ Len(s) = Len(Tail(s)) + 1
        /\ Len(Tail(s)) \in 0..Len(Tail(s))
    BY <1>8, TailIsRest, HeadTailProperties, LenProperties
  <2>2. Learns(Tail(s), Len(Tail(s)), Learnt(Head(s), online)) = Learns(s, Len(Tail(s)) + 1, online)
    BY <1>8, <2>1, LearnsFirst
  <2>3. Learnt(Head(s), {}) \subseteq Mentioned /\ Harmless(Tail(s))
    BY <1>8, HarmlessSteps
  <2> QED BY <1>7, <2>1, <2>2, <2>3
<1>9. CASE attachConsole
  <2>1. on' /\ lines' = <<>> /\ internalLines' = <<>> /\ replay' = history /\ online' = online
    BY <1>9 DEF attachConsole, Subscribe
  <2>2. Learns(history, Len(history), online) = Known
    <3>1. \A p \in online : \E i \in 1..Len(history) : Mentions(history[i], p)
      BY <1>0 DEF Mentioned
    <3> QED BY <3>1, LearnsAnew DEF Known
  <2>3. Known \in SUBSET Players
    BY LearnsTyped DEF Known
  <2>4. Harmless(replay)'
    <3>1. \A i \in 1..Len(history) : Learnt(history[i], {}) \subseteq Mentioned
      BY DEF Mentioned, Learnt
    <3> QED BY <1>2, <2>1, <3>1 DEF Harmless
  <2>5. Harmless(lines)' /\ Harmless(internalLines)'
    BY <2>1, <1>4 DEF Harmless
  <2>6. /\ Learns(lines', Len(lines'), Learns(replay', Len(replay'), online')) = Known'
        /\ Learns(internalLines', Len(internalLines'), Learns(replay', Len(replay'), online')) = Known'
    BY <1>2, <1>4, <1>5, <2>1, <2>2, <2>3
  <2> QED BY <1>0, <1>2, <1>3, <2>1, <2>4, <2>5, <2>6 DEF CatchUpInv
<1>10. CASE Restart
  <2>1. ~on' /\ lines' = <<>> /\ internalLines' = <<>> /\ replay' = <<>> /\ online' = online
    BY <1>10 DEF Restart
  <2>2. Harmless(lines)' /\ Harmless(internalLines)' /\ Harmless(replay)'
    BY <2>1, <1>4 DEF Harmless
  <2> QED BY <1>0, <1>2, <1>3, <2>1, <2>2 DEF CatchUpInv
<1>11. CASE Replays
  <2>1. /\ replay # <<>> /\ replay' = Tail(replay) /\ online' = Parsed(Head(replay))
        /\ UNCHANGED <<on, lines, internalLines>>
    BY <1>11 DEF Replays
  <2>2. /\ online' \subseteq Mentioned /\ Harmless(Tail(replay))
        /\ Learns(replay', Len(replay'), online') = Learns(replay, Len(replay), online)
    BY <1>0, <1>8, <2>1
  <2>3. Harmless(lines)' /\ Harmless(internalLines)' /\ Harmless(replay)'
    BY <1>0, <1>6, <2>1, <2>2 DEF Harmless
  <2> QED BY <1>0, <1>2, <1>3, <2>1, <2>2, <2>3 DEF CatchUpInv
<1>12. CASE handleConsoleLine
  <2>1. /\ replay = <<>> /\ lines # <<>> /\ lines' = Tail(lines) /\ online' = Parsed(Head(lines))
        /\ internalLines = <<>> /\ UNCHANGED <<on, replay, internalLines>>
    BY <1>12 DEF handleConsoleLine
  <2>2. /\ online' \subseteq Mentioned /\ Harmless(Tail(lines)) /\ online' \subseteq Players
        /\ Learns(lines', Len(lines'), online') = Learns(lines, Len(lines), online)
    BY <1>0, <1>8, <2>1
  <2>3. Harmless(lines)' /\ Harmless(internalLines)' /\ Harmless(replay)'
    BY <1>0, <1>6, <2>1, <2>2 DEF Harmless
  <2>4. /\ Learns(replay, Len(replay), online) = online
        /\ Learns(replay', Len(replay'), online') = online'
    BY <1>0, <1>4, <1>5, <2>1, <2>2
  <2>5. on => Learns(lines', Len(lines'), online') = Known'
    BY <1>0, <1>2, <2>1, <2>2, <2>4
  <2>6. on /\ lines' = <<>> => Learns(internalLines', Len(internalLines'), online') = Known'
    BY <2>1, <2>5
  <2> QED BY <1>0, <1>2, <1>3, <2>1, <2>2, <2>3, <2>4, <2>5, <2>6 DEF CatchUpInv
<1>13. CASE handleInternalConsoleLine
  <2>1. /\ replay = <<>> /\ internalLines # <<>> /\ internalLines' = Tail(internalLines)
        /\ online' = Parsed(Head(internalLines)) /\ lines = <<>> /\ UNCHANGED <<on, replay, lines>>
    BY <1>13 DEF handleInternalConsoleLine
  <2>2. /\ online' \subseteq Mentioned /\ Harmless(Tail(internalLines)) /\ online' \subseteq Players
        /\ Learns(internalLines', Len(internalLines'), online') = Learns(internalLines, Len(internalLines), online)
    BY <1>0, <1>8, <2>1
  <2>3. Harmless(lines)' /\ Harmless(internalLines)' /\ Harmless(replay)'
    BY <1>0, <1>6, <2>1, <2>2 DEF Harmless
  <2>4. /\ Learns(replay, Len(replay), online) = online
        /\ Learns(replay', Len(replay'), online') = online'
    BY <1>0, <1>4, <1>5, <2>1, <2>2
  <2>5. on => Learns(internalLines', Len(internalLines'), online') = Known'
    BY <1>0, <1>2, <2>1, <2>2, <2>4
  <2>6. on /\ internalLines' = <<>> => Learns(lines', Len(lines'), online') = Known'
    BY <2>1, <2>5
  <2> QED BY <1>0, <1>2, <1>3, <2>1, <2>2, <2>3, <2>4, <2>5, <2>6 DEF CatchUpInv
<1> QED BY <1>9, <1>10, <1>11, <1>12, <1>13

\* Once every line is handled the table says who plays, if no line was lost or
\* overtaken, however often the control plane was restarted.
THEOREM CaughtUpHolds == ConsoleSpec => []CaughtUp
<1>1. ConsoleInit => StreamTypes /\ (~lossy => CatchUpInv)
  <2> SUFFICES ASSUME ConsoleInit PROVE StreamTypes /\ CatchUpInv
    OBVIOUS
  <2>1. /\ truth = {} /\ tty = <<>> /\ history = <<>> /\ ~on /\ lines = <<>> /\ internalLines = <<>>
        /\ replay = <<>> /\ online = {}
    BY DEF ConsoleInit
  <2>2. <<>> \in Seq(TtyLines) /\ Len(<<>>) = 0
    BY EmptySeq
  <2>3. StreamTypes
    BY <2>1, <2>2, ConsoleAssumption DEF StreamTypes
  <2>4. Known = {} /\ Learns(tty, Len(tty), {}) = {}
    BY <2>1, <2>2, LearnsNothing DEF Known
  <2>5. Honest(tty, Known) /\ Harmless(replay) /\ Harmless(lines) /\ Harmless(internalLines)
    BY <2>1, <2>2 DEF Honest, Harmless
  <2> QED BY <2>1, <2>3, <2>4, <2>5 DEF CatchUpInv
<1>2. /\ ListInv /\ StreamTypes /\ (~lossy => CatchUpInv) /\ [ConsoleNext]_consoleVars
      => (~lossy => CatchUpInv)'
  <2> SUFFICES ASSUME ListInv, StreamTypes, ~lossy => CatchUpInv, [ConsoleNext]_consoleVars, ~lossy'
               PROVE  CatchUpInv'
    OBVIOUS
  <2> USE DEF game, typed, supervisor, connection
  <2>1. ~lossy
    BY DEF ConsoleNext, Plays, Answers, Poll, OperatorList, SuppressionEnds, LeaseEnds, readConsole,
           attachConsole, Subscribe, Replays, handleConsoleLine, handleInternalConsoleLine, Restart,
           consoleVars
  <2>2. CASE (\E p \in Players : Plays(p)) \/ \E echoes \in BOOLEAN : Answers(echoes)
    BY <2>1, <2>2, CatchUpInGame
  <2>3. CASE Poll \/ OperatorList \/ SuppressionEnds \/ LeaseEnds \/ UNCHANGED consoleVars
    <3>1. UNCHANGED <<truth, tty, history, on, lines, internalLines, replay, online>>
      BY <2>3 DEF Poll, OperatorList, SuppressionEnds, LeaseEnds, consoleVars
    <3> QED BY <2>1, <3>1 DEF CatchUpInv, Known, Mentioned, Honest, Harmless
  <2>4. CASE readConsole
    BY <2>1, <2>4, CatchUpRead
  <2>5. CASE attachConsole \/ Replays \/ handleConsoleLine \/ handleInternalConsoleLine \/ Restart
    BY <2>1, <2>5, CatchUpHandled
  <2> QED BY <2>2, <2>3, <2>4, <2>5 DEF ConsoleNext
<1>3. StreamTypes /\ (~lossy => CatchUpInv) => CaughtUp
  <2> SUFFICES ASSUME StreamTypes, CatchUpInv, on, tty = <<>>, lines = <<>>, internalLines = <<>>, replay = <<>>
               PROVE  online = truth
    BY DEF CaughtUp
  <2>1. Known \in SUBSET Players /\ online \in SUBSET Players
    BY LearnsTyped DEF Known, StreamTypes
  <2>2. Len(<<>>) = 0 /\ Learns(<<>>, 0, Known) = Known /\ Learns(<<>>, 0, online) = online
    BY <2>1, LearnsNothing
  <2> QED BY <2>2 DEF CatchUpInv
<1> QED BY <1>1, <1>2, <1>3, ListInvHolds, StreamStep, PTL DEF ConsoleSpec

-----------------------------------------------------------------------------
(* RolePermissions *)

\* Every variable keeps its type.
THEOREM RolesTypeCorrect == RolesSpec => []RolesTypeOK
<1> USE RolePermissionsAssumption DEF RolesTypeOK, Roles, Builds
<1>1. RolesInit => RolesTypeOK
  BY DEF RolesInit, Nowhere
<1>2. RolesTypeOK /\ [RolesNext]_roleVars => RolesTypeOK'
  <2> SUFFICES ASSUME RolesTypeOK, [RolesNext]_roleVars PROVE RolesTypeOK'
    OBVIOUS
  <2>1. ASSUME NEW e \in Editors, NEW r \in Roles, handleRolePermissions(e, r)
        PROVE  RolesTypeOK'
    BY <2>1 DEF handleRolePermissions
  <2>2. ASSUME NEW e \in Editors, NEW by \in {"owner", "admin"}, NEW desired \in SUBSET Permissions,
               handleRolePermissionsUpdate(e, by, desired)
        PROVE  RolesTypeOK'
    <3>1. /\ profile[page[e].role].revision < MaxEdits /\ page[e].role \in Roles
          /\ Store(page[e].role, desired) /\ page' = [page EXCEPT ![e] = Nowhere] /\ build' = build
      BY <2>2 DEF handleRolePermissionsUpdate
    <3>2. profile' \in [Roles -> [revision : 0..MaxEdits, customized : BOOLEAN,
                                  allowed : SUBSET Permissions]]
      BY <3>1 DEF Store
    <3>3. /\ Nowhere.role = "none" /\ Nowhere.revision = 0 /\ Nowhere.build = "old"
      BY DEF Nowhere
    <3>4. page' = [x \in Editors |-> page'[x]]
      BY <3>1
    <3>5. \A x \in Editors : page'[x] = IF x = e THEN Nowhere ELSE page[x]
      BY <3>1
    <3>6. \A x \in Editors : /\ page'[x].role \in Roles \cup {"none"}
                            /\ page'[x].revision \in 0..MaxEdits /\ page'[x].build \in Builds
      BY <3>3, <3>5
    <3> QED BY <3>1, <3>2, <3>4, <3>6
  <2>3. CASE Upgrade
    BY <2>3 DEF Upgrade
  <2>4. CASE UNCHANGED roleVars
    BY <2>4 DEF roleVars
  <2> QED BY <2>1, <2>2, <2>3, <2>4 DEF RolesNext
<1> QED BY <1>1, <1>2, PTL DEF RolesSpec

-----------------------------------------------------------------------------
\* A page is never ahead of its role's profile; one whose revision is still the
\* profile's holds what the profile amounts to, under the build that served it.
\* Nothing was served by a build that has not run yet.
PagesAreCurrent ==
    \A e \in Editors : page[e].role \in Roles =>
        LET held == profile[page[e].role] IN
        /\ page[e].revision <= held.revision
        /\ page[e].revision = held.revision =>
             page[e].permissions = Effective(page[e].build, held, page[e].role)
NothingFromTheFuture ==
    build = "old" => lastEdit.build = "old" /\ \A e \in Editors : page[e].build = "old"
EditInv == PagesAreCurrent /\ NothingFromTheFuture /\ NoEditIsLost

\* An edit replaces what its page had loaded.
THEOREM NoEditIsLostHolds == RolesSpec => []NoEditIsLost
<1> USE DEF EditInv, PagesAreCurrent, NothingFromTheFuture, NoEditIsLost
<1>1. RolesInit => EditInv
  BY DEF RolesInit, Nowhere, Roles
<1>2. RolesTypeOK /\ EditInv /\ [RolesNext]_roleVars => EditInv'
  <2> SUFFICES ASSUME RolesTypeOK, EditInv, [RolesNext]_roleVars PROVE EditInv'
    OBVIOUS
  <2>0. /\ profile \in [Roles -> [revision : 0..MaxEdits, customized : BOOLEAN,
                                  allowed : SUBSET Permissions]]
        /\ page = [x \in Editors |-> page[x]]
        /\ \A x \in Editors : page[x].revision \in 0..MaxEdits
        /\ build \in Builds /\ MaxEdits \in Nat
    BY RolePermissionsAssumption DEF RolesTypeOK
  <2>1. ASSUME NEW e \in Editors, NEW r \in Roles, handleRolePermissions(e, r)
        PROVE  EditInv'
    <3>1. /\ page'[e] = [role |-> r, revision |-> profile[r].revision,
                         permissions |-> Effective(build, profile[r], r), build |-> build]
          /\ \A x \in Editors \ {e} : page'[x] = page[x]
          /\ UNCHANGED <<build, profile, lastEdit>>
      BY <2>0, <2>1 DEF handleRolePermissions, loadRolePermissionState
    <3>2. PagesAreCurrent'
      BY <2>0, <3>1
    <3>3. NothingFromTheFuture' /\ NoEditIsLost'
      BY <3>1
    <3> QED BY <3>2, <3>3
  <2>2. ASSUME NEW e \in Editors, NEW by \in {"owner", "admin"}, NEW desired \in SUBSET Permissions,
               handleRolePermissionsUpdate(e, by, desired)
        PROVE  EditInv'
    <3> DEFINE r == page[e].role
    <3>1. /\ r \in Roles /\ profile[r].revision = page[e].revision
          /\ Store(r, desired) /\ build' = build /\ page' = [page EXCEPT ![e] = Nowhere]
          /\ lastEdit' = [seen |-> page[e].permissions, build |-> page[e].build,
                          replaced |-> Effective(build, profile[r], r)]
      BY <2>2 DEF handleRolePermissionsUpdate, loadRolePermissionState, RolesTypeOK
    <3>2. page[e].permissions = Effective(page[e].build, profile[r], r)
      BY <2>0, <3>1
    <3>3. NoEditIsLost'
      BY <3>1, <3>2
    <3>4. NothingFromTheFuture'
      BY <2>0, <3>1 DEF Nowhere
    <3>5. /\ profile'[r].revision = profile[r].revision + 1
          /\ \A x \in Roles \ {r} : profile'[x] = profile[x]
      BY <2>0, <3>1 DEF Store
    <3>6. page'[e] = Nowhere /\ \A x \in Editors \ {e} : page'[x] = page[x]
      BY <2>0, <3>1
    <3>7. ASSUME NEW x \in Editors, page'[x].role \in Roles
          PROVE  /\ page'[x].revision <= profile'[page'[x].role].revision
                 /\ page'[x].revision = profile'[page'[x].role].revision =>
                      page'[x].permissions = Effective(page'[x].build, profile'[page'[x].role], page'[x].role)
      <4>1. x # e /\ page'[x] = page[x]
        BY <3>6, <3>7 DEF Nowhere, Roles
      <4>2. CASE page[x].role = r
        BY <2>0, <3>1, <3>5, <4>1, <4>2
      <4>3. CASE page[x].role # r
        BY <3>5, <3>7, <4>1, <4>3
      <4> QED BY <4>2, <4>3
    <3>8. PagesAreCurrent'
      BY <3>7
    <3> QED BY <3>3, <3>4, <3>8
  <2>3. CASE Upgrade
    BY <2>3 DEF Upgrade
  <2>4. CASE UNCHANGED roleVars
    BY <2>4 DEF roleVars
  <2> QED BY <2>1, <2>2, <2>3, <2>4 DEF RolesNext
<1>3. EditInv => NoEditIsLost
  OBVIOUS
<1> QED BY <1>1, <1>2, <1>3, RolesTypeCorrect, PTL DEF RolesSpec

-----------------------------------------------------------------------------
(* RolePermissions: what a profile amounts to *)

\* The least of some naturals.
LEMMA LeastNatural ==
    ASSUME NEW T \in SUBSET Nat, T # {}
    PROVE  \E x \in T : \A y \in T : x <= y
<1> DEFINE less == {ss \in Nat \X Nat : ss[1] < ss[2]}
<1>1. IsWellFoundedOn(less, Nat)
  BY NatLessThanWellFounded DEF OpToRel
<1> HIDE DEF less
<1>2. PICK x \in T : \A y \in T : ~(<<y, x>> \in less)
  BY <1>1, WFMin
<1>3. \A y \in T : ~(y < x)
  BY <1>2 DEF less
<1> QED BY <1>3

HoldsTogether(b, S) == Unsupported(b, S) = {}
Greatest(b, T) == UNION {U \in SUBSET T : HoldsTogether(b, U)}
Dropped(b, T) == T \ {CHOOSE p \in Unsupported(b, T) : TRUE}

\* The greatest part of a set that holds together is the set, or is not touched
\* by dropping what lacks a requirement.
LEMMA GreatestStep ==
    ASSUME NEW b, NEW T
    PROVE  /\ HoldsTogether(b, T) => Greatest(b, T) = T
           /\ ~HoldsTogether(b, T) => Greatest(b, T) = Greatest(b, Dropped(b, T))
<1>1. ASSUME HoldsTogether(b, T) PROVE Greatest(b, T) = T
  <2>1. T \in {U \in SUBSET T : HoldsTogether(b, U)}
    BY <1>1
  <2> QED BY <2>1 DEF Greatest
<1>2. ASSUME ~HoldsTogether(b, T) PROVE Greatest(b, T) = Greatest(b, Dropped(b, T))
  <2> DEFINE q == CHOOSE p \in Unsupported(b, T) : TRUE
  <2>1. q \in T /\ ~(Requires(b, q) \subseteq T)
    <3>1. q \in Unsupported(b, T)
      BY <1>2 DEF HoldsTogether
    <3> QED BY <3>1 DEF Unsupported
  <2>2. Dropped(b, T) = T \ {q}
    BY DEF Dropped
  <2> HIDE DEF q
  <2>3. ASSUME NEW U \in SUBSET T, HoldsTogether(b, U) PROVE q \notin U
    BY <2>1, <2>3 DEF HoldsTogether, Unsupported
  <2>4. {U \in SUBSET T : HoldsTogether(b, U)} = {U \in SUBSET (T \ {q}) : HoldsTogether(b, U)}
    <3>1. ASSUME NEW U, HoldsTogether(b, U) PROVE U \in SUBSET T <=> U \in SUBSET (T \ {q})
      BY <2>3, <3>1
    <3> QED BY <3>1
  <2> QED BY <2>2, <2>4 DEF Greatest
<1> QED BY <1>1, <1>2

\* Whatever is dropped first, the greatest part that holds together is left.
LEMMA EnforcedIsGreatest ==
    ASSUME NEW b, NEW S \in SUBSET Permissions
    PROVE  enforcePermissionDependencies(b, S) = Greatest(b, S)
<1> DEFINE Recurses(e) ==
      e = [T \in SUBSET Permissions |->
             IF Unsupported(b, T) = {} THEN T ELSE e[T \ {CHOOSE p \in Unsupported(b, T) : TRUE}]]
    enforced == CHOOSE e : Recurses(e)
<1>1. enforcePermissionDependencies(b, S) = enforced[S]
  BY DEF enforcePermissionDependencies
<1>2. \E e : Recurses(e)
  <2> DEFINE g == [T \in SUBSET Permissions |-> Greatest(b, T)]
  <2>1. ASSUME NEW T \in SUBSET Permissions
        PROVE  g[T] = IF Unsupported(b, T) = {} THEN T ELSE g[T \ {CHOOSE p \in Unsupported(b, T) : TRUE}]
    <3>1. Dropped(b, T) \in SUBSET Permissions
      BY DEF Dropped
    <3> QED BY <3>1, GreatestStep DEF HoldsTogether, Dropped
  <2>2. Recurses(g)
    BY <2>1
  <2> QED BY <2>2
<1>3. Recurses(enforced)
  BY <1>2
<1> HIDE DEF enforced
<1>4. ASSUME NEW T \in SUBSET Permissions
      PROVE  enforced[T] = IF HoldsTogether(b, T) THEN T ELSE enforced[Dropped(b, T)]
  BY <1>3 DEF HoldsTogether, Dropped
<1> HIDE DEF Recurses
<1> DEFINE Wrong == {T \in SUBSET Permissions : enforced[T] # Greatest(b, T)}
           sizes == {Cardinality(T) : T \in Wrong}
<1>5. \A T \in SUBSET Permissions : IsFiniteSet(T) /\ Cardinality(T) \in Nat
  BY FS_Subset, FS_CardinalityType, RolePermissionsAssumption
<1>6. ASSUME Wrong # {} PROVE FALSE
  <2>1. sizes \in SUBSET Nat /\ sizes # {}
    BY <1>5, <1>6
  <2>2. PICK T \in Wrong : \A U \in Wrong : Cardinality(T) <= Cardinality(U)
    <3> HIDE DEF Wrong
    <3>1. PICK x \in sizes : \A y \in sizes : x <= y
      BY <2>1, LeastNatural
    <3> QED BY <3>1
  <2>3. ~HoldsTogether(b, T)
    BY <1>4, <2>2, GreatestStep
  <2>4. /\ Dropped(b, T) \in SUBSET Permissions /\ Cardinality(Dropped(b, T)) < Cardinality(T)
    <3> DEFINE q == CHOOSE p \in Unsupported(b, T) : TRUE
    <3>1. q \in T /\ Dropped(b, T) = T \ {q}
      BY <2>3 DEF HoldsTogether, Unsupported, Dropped
    <3> HIDE DEF q
    <3>2. Cardinality(T \ {q}) = Cardinality(T) - 1 /\ Cardinality(T) \in Nat
      BY <1>5, <2>2, <3>1, FS_RemoveElement
    <3> QED BY <2>2, <3>1, <3>2
  <2>5. Dropped(b, T) \notin Wrong
    BY <1>5, <2>2, <2>4
  <2>6. enforced[T] = Greatest(b, T)
    BY <1>4, <2>2, <2>3, <2>4, <2>5, GreatestStep
  <2> QED BY <2>2, <2>6
<1> QED BY <1>1, <1>6

\* The greatest part holds together.
LEMMA GreatestHoldsTogether ==
    ASSUME NEW b, NEW T
    PROVE  /\ Greatest(b, T) \subseteq T
           /\ \A p \in Greatest(b, T) : Requires(b, p) \subseteq Greatest(b, T)
           /\ \A U \in SUBSET T : (\A p \in U : Requires(b, p) \subseteq U) => U \subseteq Greatest(b, T)
<1>1. \A U : HoldsTogether(b, U) <=> \A p \in U : Requires(b, p) \subseteq U
  BY DEF HoldsTogether, Unsupported
<1>2. ASSUME NEW p \in Greatest(b, T) PROVE Requires(b, p) \subseteq Greatest(b, T)
  <2>1. PICK U \in SUBSET T : HoldsTogether(b, U) /\ p \in U
    BY <1>2 DEF Greatest
  <2>2. U \subseteq Greatest(b, T)
    BY <2>1 DEF Greatest
  <2> QED BY <1>1, <2>1, <2>2
<1>3. ASSUME NEW U \in SUBSET T, HoldsTogether(b, U) PROVE U \subseteq Greatest(b, T)
  BY <1>3 DEF Greatest
<1>4. Greatest(b, T) \subseteq T
  BY DEF Greatest
<1> QED BY <1>1, <1>2, <1>3, <1>4

\* What a role may do holds together, and is all that its profile leaves of it.
THEOREM EffectiveHoldsTogetherHolds == RolesSpec => []EffectiveHoldsTogether
<1>1. RolesTypeOK => EffectiveHoldsTogether
  <2> SUFFICES ASSUME RolesTypeOK, NEW r \in Roles
               PROVE  LET effective == loadRolePermissionState(r) IN
                      /\ effective \subseteq DOMAIN Catalog[build]
                      /\ \A p \in effective : Requires(build, p) \subseteq effective
                      /\ profile[r].customized =>
                           /\ effective \subseteq Assignable(build, r)
                           /\ \A S \in SUBSET (profile[r].allowed \cap Assignable(build, r)) :
                                (\A p \in S : Requires(build, p) \subseteq S) => S \subseteq effective
    BY DEF EffectiveHoldsTogether
  <2> DEFINE effective == loadRolePermissionState(r)
             offered == profile[r].allowed \cap Assignable(build, r)
  <2>1. build \in Builds /\ profile[r].customized \in BOOLEAN
    BY DEF RolesTypeOK
  <2>2. Assignable(build, r) \subseteq DOMAIN Catalog[build] /\ offered \in SUBSET Permissions
    BY <2>1, RolePermissionsAssumption DEF Assignable
  <2>3. CASE profile[r].customized
    <3>1. effective = Greatest(build, offered)
      BY <2>2, <2>3, EnforcedIsGreatest DEF loadRolePermissionState, Effective
    <3>2. offered \subseteq Assignable(build, r)
      OBVIOUS
    <3> HIDE DEF effective, offered
    <3>3. /\ effective \subseteq offered
          /\ \A p \in effective : Requires(build, p) \subseteq effective
          /\ \A S \in SUBSET offered : (\A p \in S : Requires(build, p) \subseteq S) => S \subseteq effective
      BY <3>1, GreatestHoldsTogether
    <3> QED BY <2>2, <3>2, <3>3 DEF effective, offered
  <2>4. CASE ~profile[r].customized
    <3>1. effective = Defaults[build][r]
      BY <2>4 DEF loadRolePermissionState, Effective
    <3>2. /\ Defaults[build][r] \subseteq DOMAIN Catalog[build]
          /\ \A p \in Defaults[build][r] : Requires(build, p) \subseteq Defaults[build][r]
      BY <2>1, RolePermissionsAssumption DEF Requires
    <3> QED BY <2>4, <3>1, <3>2
  <2> QED BY <2>1, <2>3, <2>4
<1> QED BY <1>1, RolesTypeCorrect, PTL

-----------------------------------------------------------------------------
(* DiscordGateway *)

\* The steps of one worker's goroutines and of its peer.
WorkerStep(w) ==
    \/ Setup(w) \/ Dial(w) \/ Backoff(w) \/ Stopped(w) \/ Heartbeat(w) \/ Takes(w)
    \/ ReaderEnds(w) \/ Disconnected(w) \/ GoesMute(w)
    \/ \E p \in Packets : Reads(w, p)

LEMMA GatewayNextSplits ==
    GatewayNext <=>
        \/ \E s \in Settings \cup {None} : Edit(s)
        \/ reconcile
        \/ \E w \in Workers : WorkerStep(w)
BY DEF GatewayNext, WorkerStep

\* The variables keep their types (all of discord_commands.go's gateway).
THEOREM GatewayTypeCorrect == GatewaySpec => []GatewayTypeOK
<1>1. GatewayInit => GatewayTypeOK
  BY GatewayAssumption DEF GatewayInit, GatewayTypeOK
<1>2. GatewayTypeOK /\ [GatewayNext]_gatewayVars => GatewayTypeOK'
  <2> SUFFICES ASSUME GatewayTypeOK, [GatewayNext]_gatewayVars
               PROVE  GatewayTypeOK'
    OBVIOUS
  <2> USE DEF GatewayTypeOK
  <2>1. ASSUME NEW s \in Settings \cup {None}, Edit(s)
        PROVE  GatewayTypeOK'
    BY <2>1 DEF Edit, loopVars
  <2>2. ASSUME reconcile
        PROVE  GatewayTypeOK'
    <3>1. CASE bot = None
      BY <2>2, <3>1 DEF reconcile, loopVars
    <3>2. CASE bot # None
      BY <2>2, <3>2 DEF reconcile, Started, Goes, Free, loopVars
    <3> QED BY <3>1, <3>2
  <2>3. ASSUME NEW w \in Workers, WorkerStep(w)
        PROVE  GatewayTypeOK'
    <3> USE DEF Goes, boss, loopVars, Return
    <3>1. CASE Setup(w) BY <3>1 DEF Setup
    <3>2. CASE Dial(w) BY <3>2 DEF Dial
    <3>3. CASE Backoff(w) BY <3>3 DEF Backoff
    <3>4. CASE Stopped(w) BY <3>4 DEF Stopped
    <3>5. CASE Heartbeat(w)
      <4>1. CASE acked[w] BY <3>5, <4>1 DEF Heartbeat
      <4>2. CASE ~acked[w] BY <3>5, <4>2 DEF Heartbeat
      <4> QED BY <4>1, <4>2
    <3>6. CASE Takes(w) BY <3>6 DEF Takes
    <3>7. CASE ReaderEnds(w) BY <3>7 DEF ReaderEnds
    <3>8. CASE Disconnected(w) BY <3>8 DEF Disconnected
    <3>9. CASE GoesMute(w) BY <3>9 DEF GoesMute
    <3>10. ASSUME NEW p \in Packets, Reads(w, p) PROVE GatewayTypeOK'
      BY <3>10 DEF Reads
    <3> QED BY <2>3, <3>1, <3>2, <3>3, <3>4, <3>5, <3>6, <3>7, <3>8, <3>9, <3>10 DEF WorkerStep
  <2>4. CASE UNCHANGED gatewayVars
    BY <2>4 DEF gatewayVars
  <2> QED BY <2>1, <2>2, <2>3, <2>4, GatewayNextSplits
<1> QED BY <1>1, <1>2, PTL DEF GatewaySpec

\* A worker neither changes who is managed or cancelled, nor starts by itself.
LEMMA WorkersBystand ==
    ASSUME GatewayTypeOK, NEW w \in Workers, WorkerStep(w)
    PROVE  /\ managed' = managed /\ cancelled' = cancelled
           /\ \A v \in Workers : at[v] = "off" => at'[v] = "off"
<1> USE DEF GatewayTypeOK, Goes, boss, loopVars, Return
<1>1. CASE Setup(w) BY <1>1 DEF Setup
<1>2. CASE Dial(w) BY <1>2 DEF Dial
<1>3. CASE Backoff(w) BY <1>3 DEF Backoff
<1>4. CASE Stopped(w) BY <1>4 DEF Stopped
<1>5. CASE Heartbeat(w) BY <1>5 DEF Heartbeat
<1>6. CASE Takes(w) BY <1>6 DEF Takes
<1>7. CASE ReaderEnds(w) BY <1>7 DEF ReaderEnds
<1>8. CASE Disconnected(w) BY <1>8 DEF Disconnected
<1>9. CASE GoesMute(w) BY <1>9 DEF GoesMute
<1>10. CASE \E p \in Packets : Reads(w, p) BY <1>10 DEF Reads
<1> QED BY <1>1, <1>2, <1>3, <1>4, <1>5, <1>6, <1>7, <1>8, <1>9, <1>10 DEF WorkerStep

\* One worker at most is meant to listen: reconcile cancels the one it replaces.
THEOREM OneListenerHolds == GatewaySpec => []OneListener
<1>1. GatewayInit => OneListener
  BY DEF GatewayInit, OneListener
<1>2. GatewayTypeOK /\ OneListener /\ [GatewayNext]_gatewayVars => OneListener'
  <2> SUFFICES ASSUME GatewayTypeOK, OneListener, [GatewayNext]_gatewayVars
               PROVE  OneListener'
    OBVIOUS
  <2>1. ASSUME NEW s \in Settings \cup {None}, Edit(s)
        PROVE  OneListener'
    BY <2>1 DEF Edit, OneListener
  <2>2. ASSUME reconcile
        PROVE  OneListener'
    <3>1. CASE bot = None
      BY <2>2, <3>1 DEF reconcile, OneListener
    <3>2. CASE bot # None
      <4>1. PICK w \in Free : Started(w) /\ cancelled' = (cancelled \cup {managed}) \ {w, None}
        BY <2>2, <3>2 DEF reconcile
      <4>2. \A v \in Workers \ {w} : at'[v] = at[v]
        BY <4>1 DEF Started, Goes, GatewayTypeOK
      <4>3. \A v \in Workers \ {w} : at[v] # "off" => v \in cancelled'
        BY <4>1, GatewayAssumption DEF OneListener
      <4> QED BY <4>1, <4>2, <4>3 DEF OneListener, Started
    <3> QED BY <3>1, <3>2
  <2>3. ASSUME NEW w \in Workers, WorkerStep(w)
        PROVE  OneListener'
    BY <2>3, WorkersBystand DEF OneListener
  <2>4. CASE UNCHANGED gatewayVars
    BY <2>4 DEF gatewayVars, OneListener
  <2> QED BY <2>1, <2>2, <2>3, <2>4, GatewayNextSplits
<1> QED BY <1>1, <1>2, GatewayTypeCorrect, PTL DEF GatewaySpec

-----------------------------------------------------------------------------
(* Lifecycle *)

FileStates == Up \cup Ended \cup {"none", "stopping", "restarting"}
Frames == {"status", "done", "joined", "end"}

ServerTyped ==
    /\ file \in FileStates /\ sup \in {"none", "spawned", "begin", "up", "reaped", "delay"}
    /\ counts \in [starts : 0..MaxStarts, turns : 0..MaxTurns]
    /\ op \in {"idle", "started", "asked", "stopping", "killing"}
MemoryTyped ==
    /\ active \in Projects /\ someone \subseteq Projects
    /\ last \in [state : FileStates \cup {""}, project : Projects]
    /\ missed \subseteq {"players", "bots"}
BotsTyped ==
    /\ saw \in BOOLEAN /\ readySent \in BOOLEAN /\ stoppedSent \in BOOLEAN
    /\ told \in BOOLEAN /\ watched \in BOOLEAN
FramesTyped == frames \in [Clients -> Seq(Frames)]
AttachedTyped == console \in Clients \cup {"none"} /\ client \in [Clients -> {"off", "dialing", "on"}]
CallTyped == call \in [Threads -> [at : {"idle", "read", "observe"}, seen : FileStates \cup {""}]]
LifecycleTypeOK == ServerTyped /\ MemoryTyped /\ BotsTyped /\ FramesTyped /\ AttachedTyped /\ CallTyped

LEMMA StateType == ASSUME LifecycleTypeOK PROVE State \in FileStates
  BY DEF LifecycleTypeOK, ServerTyped, State, FileStates, Up, Ended

\* A supervisor that is gone is read as ended, whatever it left in its file.
LEMMA GoneIsOver == ASSUME LifecycleTypeOK, sup = "none" PROVE State \in Ended
  BY DEF LifecycleTypeOK, ServerTyped, State, FileStates, Up, Ended

\* What a step leaves alone keeps its type.
LEMMA LifecycleBystands ==
    ASSUME LifecycleTypeOK
    PROVE  /\ UNCHANGED <<process, counts, op>> => ServerTyped'
           /\ UNCHANGED <<active, someone, last, missed>> => MemoryTyped'
           /\ UNCHANGED bots => BotsTyped'
           /\ UNCHANGED frames => FramesTyped'
           /\ UNCHANGED <<console, client>> => AttachedTyped'
           /\ UNCHANGED call => CallTyped'
<1>1. UNCHANGED <<process, counts, op>> => ServerTyped'
  BY DEF LifecycleTypeOK, ServerTyped, process
<1>2. UNCHANGED <<active, someone, last, missed>> => MemoryTyped'
  BY DEF LifecycleTypeOK, MemoryTyped
<1>3. UNCHANGED bots => BotsTyped'
  BY DEF LifecycleTypeOK, BotsTyped, bots
<1>4. UNCHANGED frames => FramesTyped'
  BY DEF LifecycleTypeOK, FramesTyped
<1>5. UNCHANGED <<console, client>> => AttachedTyped'
  BY DEF LifecycleTypeOK, AttachedTyped
<1>6. UNCHANGED call => CallTyped'
  BY DEF LifecycleTypeOK, CallTyped
<1> QED BY <1>1, <1>2, <1>3, <1>4, <1>5, <1>6

LEMMA CallsTypes == ASSUME LifecycleTypeOK, NEW t \in Threads, Calls(t) PROVE CallTyped'
<1>1. [at |-> "observe", seen |-> State] \in [at : {"idle", "read", "observe"}, seen : FileStates \cup {""}]
  BY StateType
<1> QED BY <1>1 DEF Calls, LifecycleTypeOK, CallTyped

LEMMA SentTypes == ASSUME LifecycleTypeOK, NEW f \in Frames, Sent(f) PROVE FramesTyped'
<1>1. \A k \in Clients : frames[k] \in Seq(Frames) /\ Append(frames[k], f) \in Seq(Frames)
  BY AppendProperties DEF LifecycleTypeOK, FramesTyped
<1> QED BY <1>1 DEF Sent, FramesTyped

LEMMA CountsTypes ==
    ASSUME LifecycleTypeOK
    PROVE  /\ counts.starts < MaxStarts => [counts EXCEPT !.starts = @ + 1] \in [starts : 0..MaxStarts, turns : 0..MaxTurns]
           /\ counts.turns < MaxTurns => [counts EXCEPT !.turns = @ + 1] \in [starts : 0..MaxStarts, turns : 0..MaxTurns]
<1>1. /\ counts = [starts |-> counts.starts, turns |-> counts.turns]
      /\ counts.starts \in 0..MaxStarts /\ counts.turns \in 0..MaxTurns
  BY DEF LifecycleTypeOK, ServerTyped
<1>2. /\ counts.starts < MaxStarts => counts.starts + 1 \in 0..MaxStarts
      /\ counts.turns < MaxTurns => counts.turns + 1 \in 0..MaxTurns
  BY <1>1, LifecycleAssumption
<1>3. /\ [counts EXCEPT !.starts = @ + 1] = [starts |-> counts.starts + 1, turns |-> counts.turns]
      /\ [counts EXCEPT !.turns = @ + 1] = [starts |-> counts.starts, turns |-> counts.turns + 1]
  BY <1>1
<1> QED BY <1>1, <1>2, <1>3

\* The bots' memory.
LEMMA BotsTypes ==
    ASSUME LifecycleTypeOK, \/ \E s : observeBotLifecycle(s)
                            \/ markBotReady
    PROVE  BotsTyped'
<1> USE DEF BotsTyped
<1>1. ASSUME NEW s, observeBotLifecycle(s) PROVE BotsTyped'
  <2>1. CASE s \in Up
    BY <1>1, <2>1 DEF LifecycleTypeOK, observeBotLifecycle
  <2>2. CASE s \notin Up
    BY <1>1, <2>2 DEF LifecycleTypeOK, observeBotLifecycle, notifyBotEvent
  <2> QED BY <2>1, <2>2
<1>2. CASE markBotReady
  BY <1>2 DEF LifecycleTypeOK, markBotReady, bots
<1> QED BY <1>1, <1>2

LEMMA LifecycleTypeStep == LifecycleTypeOK /\ [LifecycleNext]_lifecycleVars => LifecycleTypeOK'
<1> SUFFICES ASSUME LifecycleTypeOK, [LifecycleNext]_lifecycleVars PROVE LifecycleTypeOK'
  OBVIOUS
<1>0. "op" \in Threads /\ "select" \in Threads /\ "metrics" \in Threads /\ Clients \subseteq Threads
  BY DEF Threads
<1>u. LifecycleTypeOK' <=> ServerTyped' /\ MemoryTyped' /\ BotsTyped' /\ FramesTyped' /\ AttachedTyped' /\ CallTyped'
  BY DEF LifecycleTypeOK
<1>t. ServerTyped /\ MemoryTyped /\ FramesTyped /\ AttachedTyped /\ CallTyped
  BY DEF LifecycleTypeOK
<1> USE DEF process, bots, attached, ours, mind, theirs, Operates
<1>1. CASE Launches \/ Exits \/ PersistsTheEnd \/ RestartVerb
  <2>1. ServerTyped' /\ UNCHANGED <<active, someone, last, missed, bots, attached, call>>
    <3>1. CASE Launches
      BY <1>t, <3>1 DEF Launches, ServerTyped, FileStates, Up, Ended
    <3>2. CASE Exits
      BY <1>t, <3>2 DEF Exits, ServerTyped
    <3>3. CASE PersistsTheEnd
      BY <1>t, <3>3 DEF PersistsTheEnd, ServerTyped, FileStates, Ended
    <3>4. CASE RestartVerb
      BY <1>t, <3>4 DEF RestartVerb, Verb, ServerTyped, FileStates
    <3> QED BY <1>1, <3>1, <3>2, <3>3, <3>4
  <2> QED BY <1>u, <2>1, LifecycleBystands
<1>2. CASE Done
  <2>1. ServerTyped'
    BY <1>2, <1>t DEF Done, ServerTyped, FileStates, Up
  <2>2. FramesTyped'
    BY <1>2, SentTypes DEF Done, Frames
  <2> QED BY <1>u, <1>2, <2>1, <2>2, LifecycleBystands DEF Done
<1>3. CASE Joins
  <2>1. FramesTyped'
    BY <1>3, SentTypes DEF Joins, Frames
  <2> QED BY <1>u, <1>3, <2>1, LifecycleBystands DEF Joins
<1>4. CASE Again
  <2>1. counts' \in [starts : 0..MaxStarts, turns : 0..MaxTurns]
    BY <1>4, CountsTypes DEF Again
  <2>2. ServerTyped'
    BY <1>4, <1>t, <2>1 DEF Again, ServerTyped, FileStates, Up
  <2> QED BY <1>u, <1>4, <2>2, LifecycleBystands DEF Again
<1>5. CASE Leaves
  <2>1. FramesTyped'
    BY <1>5, SentTypes DEF Leaves, Frames
  <2>2. ServerTyped' /\ MemoryTyped'
    BY <1>5, <1>t DEF Leaves, Unseen, ServerTyped, MemoryTyped
  <2> QED BY <1>u, <1>5, <2>1, <2>2, LifecycleBystands DEF Leaves
<1>6. CASE Start
  <2>1. counts' \in [starts : 0..MaxStarts, turns : 0..MaxTurns]
    BY <1>6, CountsTypes DEF Start
  <2>2. ServerTyped'
    BY <1>6, <1>t, <2>1 DEF Start, ServerTyped, FileStates
  <2>3. BotsTyped'
    BY <1>6 DEF Start, BotsTyped, LifecycleTypeOK
  <2>4. CallTyped'
    <3>1. call["op"] \in [at : {"idle", "read", "observe"}, seen : FileStates \cup {""}]
      BY <1>0, <1>t DEF CallTyped
    <3>2. [call["op"] EXCEPT !.at = "read"] \in [at : {"idle", "read", "observe"}, seen : FileStates \cup {""}]
      BY <3>1
    <3>3. call' = [call EXCEPT !["op"] = [call["op"] EXCEPT !.at = "read"]]
      BY <1>6 DEF Start
    <3> QED BY <1>0, <1>t, <3>2, <3>3 DEF CallTyped
  <2> QED BY <1>u, <1>6, <2>2, <2>3, <2>4, LifecycleBystands DEF Start
<1>7. CASE AwaitsStart
  <2>1. ServerTyped'
    BY <1>7, <1>t DEF AwaitsStart, ServerTyped
  <2>2. AttachedTyped'
    BY <1>7, <1>t DEF AwaitsStart, AttachedTyped, Loops, FreeLoops
  <2> QED BY <1>u, <1>7, <2>1, <2>2, LifecycleBystands DEF AwaitsStart
<1>8. CASE Stop
  <2>1. ServerTyped'
    BY <1>8, <1>t DEF Stop, Verb, ServerTyped, FileStates
  <2> QED BY <1>u, <1>8, <2>1, LifecycleBystands DEF Stop
<1>9. CASE StopIsNoted
  <2>1. ServerTyped'
    BY <1>9, <1>t DEF StopIsNoted, ServerTyped
  <2>2. BotsTyped'
    BY <1>9, BotsTypes DEF StopIsNoted
  <2> QED BY <1>u, <1>9, <2>1, <2>2, LifecycleBystands DEF StopIsNoted
<1>10. CASE AwaitsStop
  <2>1. ServerTyped'
    BY <1>10, <1>t DEF AwaitsStop, ServerTyped
  <2>2. CallTyped'
    BY <1>0, <1>10, CallsTypes, LifecycleBystands DEF AwaitsStop
  <2> QED BY <1>u, <1>10, <2>1, <2>2, LifecycleBystands DEF AwaitsStop
<1>11. CASE ForceStop
  <2>1. ServerTyped'
    BY <1>11, <1>t DEF ForceStop, ServerTyped
  <2>2. BotsTyped'
    BY <1>11, BotsTypes, LifecycleBystands DEF ForceStop
  <2> QED BY <1>u, <1>11, <2>1, <2>2, LifecycleBystands DEF ForceStop
<1>12. CASE Kills
  <2>1. ServerTyped'
    BY <1>12, <1>t DEF Kills, ServerTyped
  <2>2. MemoryTyped'
    BY <1>12, <1>t, StateType DEF Kills, rememberServerState, MemoryTyped
  <2>3. CallTyped'
    BY <1>0, <1>12, CallsTypes DEF Kills
  <2> QED BY <1>u, <1>12, <2>1, <2>2, <2>3, LifecycleBystands DEF Kills
<1>13. CASE noteStopCommand
  <2>1. BotsTyped'
    BY <1>13, BotsTypes DEF noteStopCommand
  <2> QED BY <1>u, <1>13, <2>1, LifecycleBystands DEF noteStopCommand
<1>14. CASE handleServerSelect
  <2>1. counts' \in [starts : 0..MaxStarts, turns : 0..MaxTurns]
    BY <1>14, CountsTypes DEF handleServerSelect
  <2>2. ServerTyped'
    BY <1>14, <1>t, <2>1 DEF handleServerSelect, ServerTyped
  <2>3. MemoryTyped'
    BY <1>14, <1>t DEF handleServerSelect, MemoryTyped
  <2>4. CallTyped'
    BY <1>0, <1>14, CallsTypes DEF handleServerSelect
  <2> QED BY <1>u, <1>14, <2>2, <2>3, <2>4, LifecycleBystands DEF handleServerSelect
<1>15. ASSUME NEW k \in Clients, Dials(k) PROVE LifecycleTypeOK'
  <2>1. <<"status">> \in Seq(Frames)
    <3>1. "status" \in Frames
      BY DEF Frames
    <3> QED BY <3>1
  <2>2. FramesTyped'
    BY <1>15, <1>t, <2>1 DEF Dials, FramesTyped
  <2>3. AttachedTyped'
    BY <1>15, <1>t DEF Dials, AttachedTyped
  <2> QED BY <1>u, <1>15, <2>2, <2>3, LifecycleBystands DEF Dials
<1>16. ASSUME NEW k \in Clients, GivesUp(k) PROVE LifecycleTypeOK'
  <2>1. AttachedTyped'
    BY <1>16, <1>t DEF GivesUp, AttachedTyped
  <2> QED BY <1>u, <1>16, <2>1, LifecycleBystands DEF GivesUp
<1>17. ASSUME NEW k \in Clients, Handles(k) PROVE LifecycleTypeOK'
  <2>1. FramesTyped'
    <3>1. frames[k] \in Seq(Frames)
      BY <1>t DEF FramesTyped
    <3>2. Tail(frames[k]) \in Seq(Frames)
      BY <1>17, <3>1, HeadTailProperties DEF Handles
    <3>3. frames' = [frames EXCEPT ![k] = Tail(frames[k])]
      BY <1>17 DEF Handles
    <3> QED BY <1>t, <3>2, <3>3 DEF FramesTyped
  <2>2. CallTyped'
    BY <1>0, <1>17, CallsTypes, LifecycleBystands DEF Handles, Broadcasts
  <2>3. BotsTyped'
    BY <1>17, BotsTypes, LifecycleBystands DEF Handles
  <2>4. MemoryTyped'
    BY <1>17, <1>t DEF Handles, MemoryTyped
  <2>5. AttachedTyped'
    BY <1>17, <1>t DEF Handles, AttachedTyped
  <2> QED BY <1>u, <1>17, <2>1, <2>2, <2>3, <2>4, <2>5, LifecycleBystands DEF Handles
<1>18. ASSUME NEW t \in Threads, ReadsState(t) PROVE LifecycleTypeOK'
  <2>1. CallTyped'
    BY <1>18, CallsTypes DEF ReadsState
  <2> QED BY <1>u, <1>18, <2>1, LifecycleBystands DEF ReadsState
<1>19. ASSUME NEW t \in Threads, Applies(t) PROVE LifecycleTypeOK'
  <2>1. BotsTyped'
    BY <1>19, BotsTypes, LifecycleBystands DEF Applies
  <2>2. MemoryTyped'
    <3>1. call[t].seen \in FileStates \cup {""}
      BY <1>t DEF CallTyped
    <3>2. /\ last' = [state |-> call[t].seen, project |-> active]
          /\ someone' \subseteq someone /\ active' = active
          /\ missed' = missed \/ missed' = {"players", "bots"}
      BY <1>19 DEF Applies, observeServerState, rememberServerState, markAllPlayersOffline
    <3> QED BY <1>t, <3>1, <3>2 DEF MemoryTyped
  <2>3. CallTyped'
    BY <1>19, <1>t DEF Applies, Quits, CallTyped
  <2> QED BY <1>u, <1>19, <2>1, <2>2, <2>3, LifecycleBystands DEF Applies
<1>20. CASE UNCHANGED lifecycleVars
  BY <1>u, <1>20, LifecycleBystands DEF lifecycleVars
<1> QED BY <1>1, <1>2, <1>3, <1>4, <1>5, <1>6, <1>7, <1>8, <1>9, <1>10, <1>11, <1>12, <1>13,
           <1>14, <1>15, <1>16, <1>17, <1>18, <1>19, <1>20 DEF LifecycleNext

\* Every variable of the control plane's memory keeps its type.
THEOREM LifecycleTypeCorrect == LifecycleSpec => []LifecycleTypeOK
<1>1. LifecycleInit => LifecycleTypeOK
  <2> SUFFICES ASSUME LifecycleInit PROVE LifecycleTypeOK
    OBVIOUS
  <2>1. active \in Projects
    BY LifecycleAssumption DEF LifecycleInit
  <2>2. counts \in [starts : 0..MaxStarts, turns : 0..MaxTurns]
    <3>1. 0 \in 0..MaxStarts /\ 0 \in 0..MaxTurns
      BY LifecycleAssumption
    <3> QED BY <3>1 DEF LifecycleInit
  <2>3. FramesTyped
    <3>1. <<>> \in Seq(Frames)
      OBVIOUS
    <3> QED BY <3>1 DEF LifecycleInit, FramesTyped
  <2>4. ServerTyped
    BY <2>2 DEF LifecycleInit, ServerTyped, FileStates
  <2>5. MemoryTyped
    BY <2>1 DEF LifecycleInit, MemoryTyped
  <2>6. BotsTyped
    BY DEF LifecycleInit, BotsTyped
  <2>7. AttachedTyped
    BY DEF LifecycleInit, AttachedTyped
  <2>8. CallTyped
    BY DEF LifecycleInit, CallTyped, Quits
  <2> QED BY <2>3, <2>4, <2>5, <2>6, <2>7, <2>8 DEF LifecycleTypeOK
<1> QED BY <1>1, LifecycleTypeStep, PTL DEF LifecycleSpec

-----------------------------------------------------------------------------
\* A connection or a reading that is still to come, the metrics loop's excepted:
\* it tells the bots nothing.
Watchers == {k \in Clients : client[k] = "on"}
Readings == {t \in Threads \ {"metrics"} : call[t] # Quits}

\* A run the bots saw has an end they were told or wait for; while they wait and
\* the supervisor is gone, somebody is left who will look at it.
ToldInv ==
    /\ ~(saw /\ stoppedSent)
    /\ watched => told \/ saw
    /\ saw /\ sup = "none" /\ "bots" \notin missed => Watchers # {} \/ Readings # {}

LEMMA ToldStep == LifecycleTypeOK /\ ToldInv /\ [LifecycleNext]_lifecycleVars => ToldInv'
<1> SUFFICES ASSUME LifecycleTypeOK, ToldInv, [LifecycleNext]_lifecycleVars PROVE ToldInv'
  OBVIOUS
<1> USE DEF process, bots, attached, ours, mind, theirs, Operates
<1>0. /\ "op" \in Threads \ {"metrics"} /\ "select" \in Threads \ {"metrics"}
      /\ Clients \subseteq Threads \ {"metrics"}
      /\ client \in [Clients -> {"off", "dialing", "on"}] /\ DOMAIN call = Threads
  BY LifecycleAssumption DEF Threads, LifecycleTypeOK, AttachedTyped, CallTyped
\* Whoever reads the state is not done yet.
<1>1. ASSUME NEW t \in Threads, Calls(t) PROVE Readings \ {"metrics"} \subseteq Readings' /\ (t # "metrics" => Readings' # {})
  BY <1>0, <1>1 DEF Calls, Readings, Quits
<1>2. ASSUME UNCHANGED <<saw, stoppedSent, told, watched>>, missed \subseteq missed',
             sup' = "none" => sup = "none", Watchers \subseteq Watchers', Readings \subseteq Readings'
      PROVE ToldInv'
  BY <1>2 DEF ToldInv
<1>3. ASSUME UNCHANGED <<client, call>> PROVE Watchers' = Watchers /\ Readings' = Readings
  BY <1>3 DEF Watchers, Readings
<1>4. CASE \/ Launches \/ Done \/ Joins \/ Exits \/ PersistsTheEnd \/ Again \/ RestartVerb
  BY <1>2, <1>3, <1>4 DEF Launches, Done, Joins, Exits, PersistsTheEnd, Again, RestartVerb, Verb
<1>5. CASE Leaves
  <2>1. Watchers = {} => "bots" \in missed'
    BY <1>5 DEF Leaves, Unseen, Watchers
  <2>2. Watchers' = Watchers
    BY <1>5, <1>3 DEF Leaves
  <2> QED BY <1>5, <2>1, <2>2 DEF Leaves, ToldInv
<1>6. CASE Start
  <2>1. sup' # "none"
    BY <1>6 DEF Start
  <2> QED BY <1>6, <2>1 DEF Start, ToldInv
<1>7. CASE AwaitsStart
  <2>1. Watchers \subseteq Watchers' /\ Readings' = Readings
    BY <1>7, <1>0 DEF AwaitsStart, Watchers, Readings, Loops, FreeLoops
  <2> QED BY <1>2, <1>7, <2>1 DEF AwaitsStart
<1>8. CASE Stop
  BY <1>2, <1>3, <1>8 DEF Stop, Verb
\* A stop that is noted ends what the bots wait for.
<1>9. ASSUME observeBotLifecycle("stopping") PROVE ToldInv'
  BY <1>9 DEF observeBotLifecycle, notifyBotEvent, ToldInv, Up
<1>10. CASE StopIsNoted \/ noteStopCommand
  BY <1>9, <1>10 DEF StopIsNoted, noteStopCommand
<1>11. CASE AwaitsStop
  <2>1. Readings \subseteq Readings'
    BY <1>0, <1>1, <1>3, <1>11 DEF AwaitsStop, Readings
  <2>2. Watchers' = Watchers
    BY <1>11 DEF AwaitsStop, Watchers
  <2> QED BY <1>2, <1>11, <2>1, <2>2 DEF AwaitsStop
<1>12. CASE ForceStop
  BY <1>2, <1>3, <1>9, <1>12 DEF ForceStop
<1>13. CASE Kills
  <2>1. Readings \subseteq Readings' /\ Watchers' = Watchers
    BY <1>0, <1>1, <1>13 DEF Kills, Watchers, Readings
  <2>2. missed \subseteq missed'
    BY <1>13 DEF Kills
  <2> QED BY <1>2, <1>13, <2>1, <2>2 DEF Kills
<1>14. CASE handleServerSelect
  <2>1. Readings \subseteq Readings' /\ Watchers' = Watchers
    BY <1>0, <1>1, <1>14 DEF handleServerSelect, Watchers, Readings
  <2> QED BY <1>2, <1>14, <2>1 DEF handleServerSelect
<1>15. ASSUME NEW k \in Clients, Dials(k) \/ GivesUp(k) PROVE ToldInv'
  <2>1. Watchers \subseteq Watchers' /\ Readings' = Readings
    BY <1>0, <1>15 DEF Dials, GivesUp, Watchers, Readings
  <2> QED BY <1>2, <1>15, <2>1 DEF Dials, GivesUp
<1>16. ASSUME NEW k \in Clients, Handles(k) PROVE ToldInv'
  <2>1. Watchers' # {} \/ Readings' # {}
    <3>1. CASE Head(frames[k]) = "end"
      BY <1>0, <1>1, <1>16, <3>1 DEF Handles, Broadcasts
    <3>2. CASE Head(frames[k]) # "end"
      BY <1>0, <1>16, <3>2 DEF Handles, Watchers
    <3> QED BY <3>1, <3>2
  <2>2. ~(saw' /\ stoppedSent') /\ (watched' => told' \/ saw')
    BY <1>16 DEF Handles, markBotReady, ToldInv
  <2> QED BY <2>1, <2>2 DEF ToldInv
<1>17. ASSUME NEW t \in Threads, ReadsState(t) PROVE ToldInv'
  <2>1. Readings \subseteq Readings' /\ Watchers' = Watchers
    BY <1>0, <1>1, <1>17 DEF ReadsState, Watchers, Readings
  <2> QED BY <1>2, <1>17, <2>1 DEF ReadsState
<1>18. ASSUME NEW t \in Threads, Applies(t) PROVE ToldInv'
  <2>1. CASE t = "metrics"
    <3>1. Readings' = Readings /\ Watchers' = Watchers
      BY <1>0, <1>18, <2>1 DEF Applies, Readings, Watchers
    <3>2. missed \subseteq missed'
      BY <1>18 DEF Applies, LifecycleTypeOK, MemoryTyped
    <3> QED BY <1>2, <1>18, <2>1, <3>1, <3>2 DEF Applies
  <2>2. CASE t # "metrics"
    <3>1. observeBotLifecycle(call[t].seen) /\ UNCHANGED sup
      BY <1>18, <2>2 DEF Applies
    <3>2. ~(saw' /\ stoppedSent') /\ (watched' => told' \/ saw')
      BY <3>1 DEF observeBotLifecycle, notifyBotEvent, ToldInv
    <3>3. saw' => call[t].seen \in Up
      BY <3>1 DEF observeBotLifecycle
    <3>4. call[t].seen \in Up /\ sup = "none" => "bots" \in missed'
      <4>1. call[t].seen \in Up => call[t].seen \notin Ended
        BY DEF Up, Ended
      <4> QED BY <1>18, <4>1, GoneIsOver DEF Applies
    <3> QED BY <3>1, <3>2, <3>3, <3>4 DEF ToldInv
  <2> QED BY <2>1, <2>2
<1>19. CASE UNCHANGED lifecycleVars
  BY <1>2, <1>3, <1>19 DEF lifecycleVars
<1> QED BY <1>4, <1>5, <1>6, <1>7, <1>8, <1>10, <1>11, <1>12, <1>13, <1>14, <1>15, <1>16, <1>17,
           <1>18, <1>19 DEF LifecycleNext

\* A run the bots saw online and nobody is left to look at was reported to them.
THEOREM StopIsToldHolds == LifecycleSpec => []StopIsTold
<1>1. LifecycleInit => ToldInv
  BY DEF LifecycleInit, ToldInv
<1>2. ToldInv => StopIsTold
  BY DEF ToldInv, StopIsTold, Watchers, Readings
<1> QED BY <1>1, <1>2, ToldStep, LifecycleTypeCorrect, PTL DEF LifecycleSpec
=============================================================================
