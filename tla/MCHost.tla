------------------------------- MODULE MCHost -------------------------------
EXTENDS Host

CONSTANTS v1, main          \* names
CONSTANTS c1, c2, t1        \* two commits and an annotated tag of the first
CONSTANTS p1, p2, p3

MCPeel == [o \in {t1} |-> c1]
MCHistory == [c \in {c1, c2} |-> IF c = c1 THEN {c1} ELSE {c1, c2}]

Idle == [p \in Procs |-> NoRun]
RunOf(uses, output, secrets) == [uses |-> uses, output |-> output, secrets |-> secrets]
Scene(run, tag, branch, bound) ==
  [run |-> run, moves |-> bound,
   tags |-> [n \in Names |-> IF n = v1 THEN tag ELSE NoObject],
   branches |-> [n \in Names |-> IF n = main THEN branch ELSE NoObject]]

Tag == [kind |-> "name", name |-> v1]
Branch == [kind |-> "name", name |-> main]
Sha(o) == [kind |-> "sha", name |-> o]
Malformed == [kind |-> "malformed", name |-> NoObject]

\* Two processes with one or two references each, at a repository whose tag is
\* annotated, plain or missing, and which is pushed to once.
Fetches ==
  LET uses == {<<Tag>>, <<Sha(c2)>>, <<Branch>>, <<Sha(c1), Tag>>, <<Sha(t1), Malformed>>}
  IN  {Scene([Idle EXCEPT ![p1] = RunOf(u, <<>>, {}), ![p2] = RunOf(v, <<>>, {})], tag, c1, 1) :
         u \in uses, v \in {<<Tag>>, <<Sha(c1)>>}, tag \in {t1, c2, NoObject}}

\* Three processes without keys.
Starts == {Scene([p \in Procs |-> RunOf(<<>>, <<>>, {})], NoObject, NoObject, 0)}

MCSymbols == 1..3

\* One process whose job writes five symbols, c at most once, and has up to two
\* of six secrets: of which some overlap and some contain another.
Streams ==
  LET a == 1
      b == 2
      c == 3
      values  == {<<a>>, <<a, b>>, <<a, a, b>>, <<a, b, c>>, <<b, c, a>>, <<a, b, a>>}
      secrets == {{s, t} : s, t \in values \cup {<<>>}}
  IN  {Scene([Idle EXCEPT ![p1] = RunOf(<<>>, o, s)], NoObject, NoObject, 0) :
         o \in {o \in [1..5 -> {a, b, c}] : Cardinality({i \in 1..5 : o[i] = c}) <= 1},
         s \in secrets}

MCScenes == {Fetches, Starts, Streams}
=============================================================================
