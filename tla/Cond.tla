-------------------------------- MODULE Cond --------------------------------
(***************************************************************************)
(* The conditions of jobs and steps (internal/cond): the recursive-descent *)
(* parser that Check and Eval share, over the tokens that lex makes of the *)
(* text.  What a node evaluates to is computed where the code builds it.   *)
(***************************************************************************)
EXTENDS Integers, Sequences

CONSTANTS
  Texts,   \* the texts values can have, the empty one among them
  Empty,   \* ""
  Falsy    \* "", "0", and "false" in any case

ASSUME CondAssumption == Empty \in Falsy /\ Falsy \subseteq Texts

Operators == {"or", "and", "not", "eq", "ne", "(", ")"}

\* A variable is known by its name, a literal by its text.
Op(kind) == [kind |-> kind]
Var(name) == [kind |-> "var", name |-> name]
Lit(text) == [kind |-> "lit", text |-> text]

IsValue(token) == token.kind \in {"var", "lit"}

Resolve(token, env) ==
  CASE token.kind = "lit"        -> token.text
    [] token.name \in DOMAIN env -> env[token.name]
    [] OTHER                     -> Empty

Truthy(text) == text \notin Falsy

Failed == [ok |-> FALSE]
Parsed(true, end) == [ok |-> TRUE, true |-> true, end |-> end]

\* lex ends the list with a token of kind tEOF.
KindAt(tokens, i) == IF i \in DOMAIN tokens THEN tokens[i].kind ELSE "end"
ValueAt(tokens, i) == i \in DOMAIN tokens /\ IsValue(tokens[i])

\* A negation takes all that follows it (seeded fault).
NegatesRest(found) == found.or

\* parseUnary calls itself for what it negates.
Negates(found) == found.unary

\* parser.parseX at position i: whether it succeeds, what the node evaluates
\* to, and the position it leaves.  later[k] is what they find at a position k
\* behind i: later[k].or what parseOr finds.
ParsePrimary(tokens, env, later, i) ==
  LET text(k) == Resolve(tokens[k], env)
      n == later[i + 1].or
  IN  CASE KindAt(tokens, i) = "(" ->
             IF n.ok /\ KindAt(tokens, n.end) = ")" THEN Parsed(n.true, n.end + 1) ELSE Failed
        [] ValueAt(tokens, i) /\ KindAt(tokens, i + 1) \in {"eq", "ne"} ->
             IF ValueAt(tokens, i + 2)
             THEN Parsed((text(i) = text(i + 2)) <=> (KindAt(tokens, i + 1) = "eq"), i + 3)
             ELSE Failed
        [] ValueAt(tokens, i) /\ KindAt(tokens, i + 1) \notin {"eq", "ne"} ->
             Parsed(Truthy(text(i)), i + 1)
        [] OTHER -> Failed

ParseUnary(tokens, env, later, i) ==
  LET x == Negates(later[i + 1])
  IN  IF KindAt(tokens, i) # "not" THEN ParsePrimary(tokens, env, later, i)
      ELSE IF x.ok THEN Parsed(~x.true, x.end) ELSE Failed

\* The loops of parseOr and parseAnd are written as recursion: both connectives
\* are associative and evaluate without effects.
ParseAnd(tokens, env, later, i) ==
  LET l == ParseUnary(tokens, env, later, i)
      r == later[l.end + 1].and
  IN  IF ~l.ok \/ KindAt(tokens, l.end) # "and" THEN l
      ELSE IF r.ok THEN Parsed(l.true /\ r.true, r.end) ELSE Failed

ParseOr(tokens, env, later, i) ==
  LET l == ParseAnd(tokens, env, later, i)
      r == later[l.end + 1].or
  IN  IF ~l.ok \/ KindAt(tokens, l.end) # "or" THEN l
      ELSE IF r.ok THEN Parsed(l.true \/ r.true, r.end) ELSE Failed

ParserOf(tokens, env) ==
  LET parse[i \in 1..Len(tokens) + 1] ==
        [or    |-> ParseOr(tokens, env, parse, i),
         and   |-> ParseAnd(tokens, env, parse, i),
         unary |-> ParseUnary(tokens, env, parse, i)]
  IN  parse

\* parse: one expression, and nothing behind it.
Parse(tokens, env) ==
  LET n == ParserOf(tokens, env)[1].or
  IN  IF n.ok /\ n.end = Len(tokens) + 1 THEN n ELSE Failed

Check(tokens) == Parse(tokens, <<>>).ok
Eval(tokens, env) == Parse(tokens, env).true

----------------------------------------------------------------------------
(* The reference: the grammar of the package's comment (cond.go:8-14), read *)
(* as what the tokens from i to j can mean under each of its productions,   *)
(* given what the shorter spans, parts[<<h, k>>], can mean.                 *)

MeansPrimary(tokens, env, parts, i, j) ==
  (IF KindAt(tokens, i) = "(" /\ KindAt(tokens, j) = ")" /\ i + 1 < j
   THEN parts[<<i + 1, j - 1>>].or ELSE {})
  \cup (IF i = j /\ IsValue(tokens[i]) THEN {Truthy(Resolve(tokens[i], env))} ELSE {})
  \cup (IF j = i + 2 /\ IsValue(tokens[i]) /\ IsValue(tokens[j])
           /\ KindAt(tokens, i + 1) \in {"eq", "ne"}
        THEN {(KindAt(tokens, i + 1) = "eq") <=>
                Resolve(tokens[i], env) = Resolve(tokens[j], env)}
        ELSE {})

MeansUnary(tokens, env, parts, i, j) ==
  MeansPrimary(tokens, env, parts, i, j) \cup
  (IF KindAt(tokens, i) = "not" /\ i < j THEN {~p : p \in parts[<<i + 1, j>>].unary} ELSE {})

\* The places between i and j where the span may be split by a connective.
Splits(tokens, kind, i, j) == {k \in i+1..j-1 : KindAt(tokens, k) = kind}

MeansAnd(tokens, env, parts, i, j) ==
  MeansUnary(tokens, env, parts, i, j) \cup
  UNION {{p /\ q : p \in parts[<<i, k - 1>>].and, q \in parts[<<k + 1, j>>].unary} :
           k \in Splits(tokens, "and", i, j)}

MeansOr(tokens, env, parts, i, j) ==
  MeansAnd(tokens, env, parts, i, j) \cup
  UNION {{p \/ q : p \in parts[<<i, k - 1>>].or, q \in parts[<<k + 1, j>>].and} :
           k \in Splits(tokens, "or", i, j)}

Spans(tokens) == {s \in (DOMAIN tokens) \X (DOMAIN tokens) : s[1] <= s[2]}

SpansOf(tokens, env) ==
  LET spans[s \in Spans(tokens)] ==
        [or    |-> MeansOr(tokens, env, spans, s[1], s[2]),
         and   |-> MeansAnd(tokens, env, spans, s[1], s[2]),
         unary |-> MeansUnary(tokens, env, spans, s[1], s[2])]
  IN  spans

Meanings(tokens, env) ==
  IF tokens = <<>> THEN {} ELSE SpansOf(tokens, env)[<<1, Len(tokens)>>].or
=============================================================================
