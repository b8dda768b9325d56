------------------------------- MODULE MCPlan -------------------------------
EXTENDS Plan

Plain(needs) ==
  [needs   |-> needs,
   inherit |-> [j \in DOMAIN needs |-> NoJob],
   matrix  |-> [j \in DOMAIN needs |-> <<>>],
   label   |-> <<>>,
   steps   |-> <<[kind |-> "run"]>>,
   when    |-> NoCondition]

\* Every map over three jobs whose needs lists have at most two entries (so
\* also self-dependencies and repeated needs), and every map over four jobs
\* whose needs are distinct other jobs.
Graphs ==
  LET lists == UNION {[1..n -> 1..3] : n \in 0..2}
      sets  == {d \in [1..4 -> SUBSET (1..4)] : \A j \in 1..4 : j \notin d[j]}
  IN  [1..3 -> lists] \cup {[j \in 1..4 |-> SetToSeq(d[j])] : d \in sets}

\* Three jobs under five graphs, each plain or a matrix of one key, one key
\* with a value twice, one with no value, or two keys; at most six expansions.
Three == {100, 200, 300}
Of(first, second, third) == 100 :> first @@ 200 :> second @@ 300 :> third

Matrices ==
  LET choices == {<<>>, <<<<1, 2>>>>, <<<<1, 1>>>>, <<<<>>>>, <<<<1, 2>>, <<1, 2>>>>}
      size(m) == Len(Combos(m))
  IN  {m \in [Three -> choices] : size(m[100]) + size(m[200]) + size(m[300]) <= 6}

\* IDs behind that of their job, in the order of their values.
Apart(matrix) ==
  [copy \in UNION {{j} \X Range(Combos(matrix[j])) : j \in Three} |->
     copy[1] + FoldSeq(LAMBDA value, sum : 10 * sum + value, 0, Reverse(copy[2]))]

\* The first combination of the first job may have the ID of another job, that of
\* another job's combination or, with two keys, that of its own job's last one.
Labels(matrix) ==
  LET apart == Apart(matrix)
      same  == IF Len(matrix[100]) = 2 THEN {<<100, <<2, 2>>>>} ELSE {}
      other == {c \in DOMAIN apart : c[1] # 100 /\ c[2] \in {<<>>, <<1>>, <<1, 1>>}}
  IN  {apart} \cup {[apart EXCEPT ![c] = apart[d]] :
                     c \in DOMAIN apart \cap {<<100, <<1>>>>, <<100, <<1, 1>>>>}, d \in same \cup other}

Expansions ==
  UNION {{[Plain(needs) EXCEPT !.matrix = m, !.inherit = Of(NoJob, p, q), !.label = l] :
            needs \in {Of(<<>>, <<100>>, <<200>>), Of(<<>>, <<>>, <<100, 200>>),
                       Of(<<>>, <<100>>, <<100, 100>>), Of(<<>>, <<100>>, <<200, 100>>),
                       Of(<<300>>, <<100>>, <<200>>)},
            p \in {NoJob, 100}, q \in {NoJob, 100, 200}, l \in Labels(m)} : m \in Matrices}

\* One job: lists of up to four steps without calls, of up to three with them,
\* calling functions with four bodies.
StepLists ==
  LET plain == {[kind |-> k] : k \in {"run", "if", "elif", "else"}}
      calls == {[kind |-> "call", body |-> b] :
                  b \in {<<"run">>, <<"if">>, <<"if", "else">>, <<"elif">>}}
      lists == [1..4 -> plain] \cup UNION {[1..n -> plain \cup calls] : n \in 0..3}
  IN  {[Plain(<<<<>>>>) EXCEPT !.steps = s] : s \in lists}

\* One job with a condition: every list of up to five of eight tokens.
Conditions ==
  LET tokens == {Op(kind) : kind \in Operators \ {"ne"}} \cup {Var("branch"), Lit("main")}
      lists  == UNION {[1..n -> tokens] : n \in 0..5}
  IN  {[Plain(<<<<>>>>) EXCEPT !.when = c] : c \in lists}

\* The variable is not set, true, or false in one of three ways.
MCEnvironments == {<<>>} \cup {[branch |-> t] : t \in {"main", "", "0", "False"}}

MCFamilies == {StepLists, Conditions, Expansions, {Plain(needs) : needs \in Graphs}}
=============================================================================
