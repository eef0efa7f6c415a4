--------------------------- MODULE QueryNormalizer --------------------------
(***************************************************************************)
(* A query on its way from tokens to norm queries: antlr4::parse_query()   *)
(* and the passes of QueryNormalizer::normalize(), one action each.        *)
(***************************************************************************)
EXTENDS QueryParsing, Normalizing

CONSTANTS
  Inputs,          \* lists of tokens
  Queries,         \* the queries whose tokens are among them
  OptionSets,      \* options of calls, see Normalizing
  Vocabulary       \* the words that phrases are made of, for the properties

VARIABLES
  tokens,          \* the input
  options,
  phase,           \* the next pass, "done", or the exception that was thrown
  query,           \* the parsed query
  simple,          \* the simple query
  norms,           \* the norm queries
  cut              \* a regex was replaced by less words than match it

vars == <<tokens, options, phase, query, simple, norms, cut>>

Init ==
  /\ tokens \in Inputs
  /\ options \in OptionSets
  /\ phase = "parse"
  /\ query = Alternation(<<>>)
  /\ simple = Alternation(<<>>)
  /\ norms = <<>>
  /\ cut = FALSE

Parse ==
  /\ phase = "parse"
  /\ LET parsed == ParseQuery(tokens)
     IN /\ query' = parsed.tree
        /\ phase' = IF parsed.ok THEN "simplify" ELSE "syntax error"
  /\ UNCHANGED <<tokens, options, simple, norms, cut>>

(* A query that cannot have a norm query of the wanted lengths has none.   *)
RejectLength ==
  /\ phase = "simplify"
  /\ LET range == LengthRange(query)
     IN \/ IsEmpty(range)
        \/ range.max < options.minLength
        \/ range.min > options.maxLength
  /\ phase' = "done"
  /\ UNCHANGED <<tokens, options, query, simple, norms, cut>>

Simplify ==
  /\ phase = "simplify"
  /\ LET range == LengthRange(query)
     IN /\ ~IsEmpty(range)
        /\ range.max >= options.minLength
        /\ range.min <= options.maxLength
  /\ LET made == ToSimple(query, options)
     IN IF IsInvalid(made) THEN /\ phase' = "order set too large"
                                /\ UNCHANGED simple
                           ELSE /\ phase' = "regexes"
                                /\ simple' = Optimized(made)
  /\ UNCHANGED <<tokens, options, query, norms, cut>>

(* The search in the regex index can run out of time: then a regex has     *)
(* fewer words than it could have.                                         *)
NormalizeRegexes ==
  /\ phase = "regexes"
  /\ LET best == BestMaxMatches(simple, options)
     IN CASE ~HasRegex(simple) -> /\ phase' = "expand"
                                  /\ UNCHANGED <<simple, cut>>
          [] HasRegex(simple) /\ best = 0 -> /\ phase' = "too complex"
                                             /\ UNCHANGED <<simple, cut>>
          [] OTHER -> /\ phase' = "expand"
                      /\ \E n \in 0 .. best :
                           /\ simple' = WithoutRegexes(simple, n)
                           /\ cut' = \E r \in DOMAIN RegexMatches : n < Len(RegexMatches[r])
  /\ UNCHANGED <<tokens, options, query, norms>>

Expand ==
  /\ phase = "expand"
  /\ LET made == ToNormQueries(simple, options)
     IN /\ norms' = made.norms
        /\ phase' = IF made.ok THEN "done" ELSE "too many norm queries"
  /\ UNCHANGED <<tokens, options, query, simple, cut>>

Next == Parse \/ RejectLength \/ Simplify \/ NormalizeRegexes \/ Expand

Spec == Init /\ [][Next]_vars

---------------------------------------------------------------------------
(* The tokens of a query.                                                  *)
RECURSIVE Written(_)
Written(u) ==
  LET kids == FlattenSeq([i \in DOMAIN u.kids |-> Written(u.kids[i])])
      Between(left, right) == <<Token(left, left)>> \o kids \o <<Token(right, right)>>
  IN CASE u.tag = "WORD" -> <<Token("WORD", u.text)>>
       [] u.tag = "REGEX" -> <<Token("REGEXWORD", u.text)>>
       [] u.tag = "DICTSET" -> <<Token("HASH", "HASH"), Token("WORD", u.text)>>
       [] u.tag = "QMARK" -> <<Token("QMARK", u.text)>>
       [] u.tag = "STAR" -> <<Token("ASTERISK", u.text)>>
       [] u.tag = "PLUS" -> <<Token("PLUS", u.text)>>
       [] u.tag = "OPTIONSET" -> Between("LBRACKET", "RBRACKET")
       [] u.tag = "ORDERSET" -> Between("LBRACE", "RBRACE")
       [] u.tag = "CONCAT" -> Between("DBLQUOTE", "DBLQUOTE")
       [] u.tag = "ALTERNATION" ->
            FlattenSeq([i \in DOMAIN u.kids |->
              LET of == u.kids[i].kids
              IN (IF i = 1 THEN <<>> ELSE <<Token("ASSOCIATION", "ASSOCIATION")>>)
                 \o FlattenSeq([j \in DOMAIN of |-> Written(of[j])])])

(* What a query means: the phrases that it accepts, each with how many of  *)
(* its words no star stands for.                                           *)
PhrasesUpTo(n) == UNION {[1 .. k -> Vocabulary] : k \in 0 .. n}

Joined(X, Y, n) ==
  {<<x[1] \o y[1], x[2] + y[2]>> : x \in X, y \in {z \in Y : Len(z[1]) <= n}}

RECURSIVE Meaning(_, _)
Meaning(u, o) ==
  LET n == o.maxLength
      Exactly(phrase) == {<<phrase, Len(phrase)>>}
      Words(W) == UNION {Exactly(<<w>>) : w \in W}
      Kid(i) == Meaning(u.kids[i], o)
      OfAnyKid == UNION {Kid(i) : i \in DOMAIN u.kids}
      InOrder(p) == FoldLeft(LAMBDA X, i : {x \in Joined(X, Kid(p[i]), n) : Len(x[1]) <= n},
                             Exactly(<<>>), [i \in DOMAIN p |-> i])
      Positions == DOMAIN u.kids
  IN CASE u.tag = "WORD" -> Words({TextOf(u, o)})
       [] u.tag = "QMARK" -> Words(Vocabulary)
       [] u.tag = "STAR" -> {<<p, 0>> : p \in PhrasesUpTo(n)}
       [] u.tag = "PLUS" -> {<<p, 1>> : p \in PhrasesUpTo(n) \ {<<>>}}
       [] u.tag = "REGEX" -> IF o.allowRegex THEN Words(ToSet(RegexMatches[TextOf(u, o)])) ELSE {}
       [] u.tag = "DICTSET" ->
            Words({TextOf(u, o)}) \cup
            (IF <<TextOf(u, o)>> \in DOMAIN Synonyms
             THEN UNION {Exactly(s) : s \in ToSet(Synonyms[<<TextOf(u, o)>>])} ELSE {})
       [] u.tag = "OPTIONSET" -> OfAnyKid \cup (IF Len(u.kids) <= 1 THEN Exactly(<<>>) ELSE {})
       [] u.tag = "ORDERSET" ->
            UNION {InOrder(p) : p \in {q \in [Positions -> Positions] : IsInjective(q)}}
       [] u.tag = "ALTERNATION" -> OfAnyKid
       [] u.tag = "CONCAT" -> InOrder([i \in Positions |-> i])

(* The phrases of the wanted lengths.                                      *)
Wanted ==
  {m \in Meaning(query, options) :
     Len(m[1]) \in options.minLength .. options.maxLength /\ m[1] \in PhrasesUpTo(options.maxLength)}

AcceptedBy(norm, p) ==
  /\ Len(norm) = Len(p)
  /\ \A i \in DOMAIN p : norm[i].tag = "QMARK" \/ norm[i] = Word(p[i])

Found(p) == \E k \in DOMAIN norms : AcceptedBy(norms[k], p)

(* The tree of a query is the one that its tokens were written from, and   *)
(* the tokens of a query are never refused: nothing is lost, added or put  *)
(* elsewhere by the stack and the dictset flag of the listener.            *)
ParsedAsWritten ==
  /\ phase = "syntax error" => \A q \in Queries : Written(q) # tokens
  /\ phase \notin {"parse", "syntax error"} => Written(query) = tokens

(* Whatever a norm query accepts is a phrase of a wanted length that the   *)
(* query as it was written accepts: all passes together add nothing.       *)
NormQueriesSound ==
  phase = "done" =>
    /\ \A k \in DOMAIN norms : Len(norms[k]) \in options.minLength .. options.maxLength
    /\ \A p \in PhrasesUpTo(options.maxLength) : Found(p) => \E m \in Wanted : m[1] = p

(* A phrase that the query accepts is missed only if a star was needed to  *)
(* reach the least length, or a regex was cut: to_norm_queries() drops a   *)
(* star query whose words alone are too few (QueryNormalizer.cpp:1001),     *)
(* although its stars could be expanded to enough words.                   *)
MissedOnlyByStars ==
  phase = "done" /\ ~cut =>
    \A m \in Wanted : ~Found(m[1]) => \E w \in Wanted : w[1] = m[1] /\ w[2] < options.minLength

(* The estimate is never too low, also where sums and products overflow or *)
(* a length is negative: a query with regexes that passed it is expanded   *)
(* within the budget.  Regexes get as many words as the budget allows by   *)
(* the estimate, and no more: one word more would exceed it.               *)
EstimateCovers ==
  /\ phase = "too many norm queries" => ~HasRegex(Optimized(ToSimple(query, options)))
  /\ phase = "regexes" /\ HasRegex(simple) =>
       LET best == BestMaxMatches(simple, options)
       IN /\ best > 0 => Fits(simple, best, options)
          /\ best < options.maxRegexMatches => ~Fits(simple, best + 1, options)

=============================================================================
