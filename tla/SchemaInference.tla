--------------------------- MODULE SchemaInference --------------------------
(* A schema inferred from samples (dshub-tools/src/infer-schema.mjs).  The  *)
(* sampler keeps, of each path, what a few flags, counts and a capped set   *)
(* of values tell; the artifact is made of that, and not of the messages.   *)
(* A message is looked at path by path.  Least, largest and sample values,  *)
(* which are for the person who reviews, are left out.                      *)
EXTENDS Naturals, FiniteSets, Sequences

CONSTANTS
    SamplePaths,    \* paths of values in the messages
    MaxNesting,     \* 12 in the code: deeper is not looked at
    SampleValues,   \* values, and what each is:
    JsType,         \* typeof, "null" or "array"
    Fractions, IsoLike, NumericLooking, BooleanTokens,
    MinNonNull,     \* minNonNullPerLeaf
    CardinalityCap, \* 20000 in the code
    SetFilterMax,   \* 10000 in the code
    Evidence,       \* 20 in the code
    IsoPercent,     \* 99 in the code: of strings that are taken for dates
    MaxSamples      \* bound: values sampled

ASSUME InferenceAssumption ==
    /\ {MaxNesting, MinNonNull, CardinalityCap, SetFilterMax, Evidence, MaxSamples} \subseteq Nat \ {0}
    /\ IsoPercent \in 51 .. 100
    /\ JsType \in [SampleValues -> {"null", "array", "number", "string", "boolean"}]
    /\ IsFiniteSet(SampleValues) /\ SamplePaths \subseteq Seq(STRING)
    /\ \A v \in SampleValues :
           /\ v \in Fractions => JsType[v] = "number"
           /\ v \in IsoLike \cup NumericLooking \cup BooleanTokens => JsType[v] = "string"
    /\ SetFilterMax >= 2 /\ Cardinality({v \in SampleValues : JsType[v] = "boolean"}) <= 2

VARIABLES
    leafStats,      \* leaves, of the paths seen
    observed        \* the values sampled, with their paths; a value that came before
                    \* has the next number (ghost)

inferenceVars == <<leafStats, observed>>

-----------------------------------------------------------------------------
(* LeafStats.                                                               *)
NoStats == [count |-> 0, nulls |-> 0, types |-> {}, fraction |-> FALSE, iso |-> 0,
            distinct |-> {}, overflowed |-> FALSE]

NonNull(s) == s.count - s.nulls
CardinalityOf(s) == IF s.overflowed THEN CardinalityCap ELSE Cardinality(s.distinct)

(* Past the cap the values are let go for good.                             *)
Gathered(s, v) ==
    LET now == s.distinct \cup {v}
        over == s.overflowed \/ Cardinality(now) > CardinalityCap
    IN  [s EXCEPT !.distinct = IF over THEN {} ELSE now, !.overflowed = over]

\* Mutant of Noted: the last number says whether there are fractions.
NotedLastFraction(s, v) ==
    LET noted == [s EXCEPT !.count = @ + 1, !.types = @ \cup {JsType[v]}] IN
    CASE JsType[v] = "array" -> noted
      [] JsType[v] = "null"  -> [noted EXCEPT !.nulls = @ + 1]
      [] OTHER -> Gathered([noted EXCEPT !.fraction = v \in Fractions,
                                         !.iso = IF v \in IsoLike THEN @ + 1 ELSE @], v)

(* observe, and for an array what walk does in its place.                   *)
Noted(s, v) ==
    LET noted == [s EXCEPT !.count = @ + 1, !.types = @ \cup {JsType[v]}] IN
    CASE JsType[v] = "array" -> noted
      [] JsType[v] = "null"  -> [noted EXCEPT !.nulls = @ + 1]
      [] OTHER -> Gathered([noted EXCEPT !.fraction = @ \/ v \in Fractions,
                                         !.iso = IF v \in IsoLike THEN @ + 1 ELSE @], v)

-----------------------------------------------------------------------------
(* A guess: a type, and the reason for a review, "" without one.            *)
Guess(type, reason) == [type |-> type, reason |-> reason]

GuessOfStrings(s) ==
    IF s.distinct # {} /\ Cardinality(s.distinct) <= 2 /\ s.distinct \subseteq BooleanTokens
    THEN Guess("boolean", "flag")
    ELSE IF s.iso * 100 >= NonNull(s) * IsoPercent THEN Guess("datetime", "iso")
    ELSE IF s.iso * 2 > NonNull(s) THEN Guess("string", "iso")
    ELSE IF s.distinct # {} /\ s.distinct \subseteq NumericLooking THEN Guess("string", "numeric")
    ELSE Guess("string", "")

GuessFrom(s) ==
    IF {"string", "number"} \subseteq s.types THEN Guess("string", "mixed")
    ELSE IF "boolean" \in s.types THEN Guess("boolean", "")
    ELSE IF "number" \notin s.types THEN GuessOfStrings(s)
    ELSE IF s.fraction THEN Guess("float", "") ELSE Guess("integer", "whole")

InferType(s) ==
    IF "array" \in s.types THEN Guess("string", "array")
    ELSE IF s.types \subseteq {"null"} THEN Guess("string", "never")
    ELSE IF NonNull(s) < MinNonNull THEN Guess(GuessFrom(s).type, "few")
    ELSE GuessFrom(s)

LooksUnbounded(s) ==
    \/ s.overflowed
    \/ NonNull(s) >= Evidence /\ CardinalityOf(s) * 10 >= NonNull(s) * 9

FilterStrategyFor(type, s) ==
    CASE type = "boolean" -> "set"
      [] type = "datetime" -> "date"
      [] type \in {"integer", "float"} -> "number"
      [] OTHER -> IF CardinalityOf(s) > SetFilterMax \/ LooksUnbounded(s) THEN "search-select" ELSE "set"

InferOne(s) ==
    LET guess == InferType(s)
        filter == FilterStrategyFor(guess.type, s)
    IN  [type |-> guess.type, filter |-> filter, nullable |-> s.nulls > 0,
         review |-> ({guess.reason} \ {""})
                    \cup (IF s.overflowed \/ (filter = "search-select" /\ LooksUnbounded(s))
                          THEN {"cardinality"} ELSE {})]

(* infer: the columns by path.                                              *)
Artifact == [p \in DOMAIN leafStats |-> InferOne(leafStats[p])]

SamplingComplete ==
    leafStats # <<>> /\ \A p \in DOMAIN leafStats : NonNull(leafStats[p]) >= MinNonNull

(* findUnknownPaths, in a message with values at these paths.               *)
UnknownPaths(paths) == {p \in paths : Len(p) <= MaxNesting} \ DOMAIN Artifact

-----------------------------------------------------------------------------
Samples(p, values) == {x \in observed : x.path = p /\ x.value \in values}
TimesSampled(p, values) == Cardinality(Samples(p, values))

InferenceInit ==
    /\ leafStats = <<>>
    /\ observed = {}

(* walk, at a value of a message.                                           *)
Sample(p, v) ==
    /\ Cardinality(observed) < MaxSamples
    /\ observed' = observed \cup {[path |-> p, value |-> v, nth |-> TimesSampled(p, {v}) + 1]}
    /\ leafStats' =
           IF Len(p) > MaxNesting THEN leafStats
           ELSE [q \in DOMAIN leafStats \cup {p} |->
                    IF q # p THEN leafStats[q]
                    ELSE Noted(IF p \in DOMAIN leafStats THEN leafStats[p] ELSE NoStats, v)]

InferenceNext == \E p \in SamplePaths, v \in SampleValues : Sample(p, v)

InferenceSpec == InferenceInit /\ [][InferenceNext]_inferenceVars

-----------------------------------------------------------------------------
InferenceTypeOK ==
    /\ DOMAIN leafStats \subseteq SamplePaths
    /\ \A p \in DOMAIN leafStats :
           /\ {leafStats[p].count, leafStats[p].nulls, leafStats[p].iso} \subseteq 0 .. MaxSamples
           /\ leafStats[p].distinct \subseteq SampleValues

SampledAt(p) == {v \in SampleValues : Samples(p, {v}) # {}}
ValuesOf(p) == {v \in SampledAt(p) : JsType[v] # "null"}
TypesOf(p) == {JsType[v] : v \in ValuesOf(p)}

(* What a column of the type can hold and give back.                        *)
Holds(type, v) ==
    CASE type = "string"   -> TRUE
      [] type = "float"    -> JsType[v] = "number"
      [] type = "integer"  -> JsType[v] = "number" /\ v \notin Fractions
      [] type = "boolean"  -> JsType[v] = "boolean" \/ v \in BooleanTokens
      [] type = "datetime" -> v \in IsoLike

(* What the artifact says holds of everything that was sampled, although    *)
(* only the flags were kept: no column has a type that loses a value, a     *)
(* column with a null is nullable, a set filter is over a list that is      *)
(* known to be short, no path that was sampled is unknown, and when         *)
(* sampling is complete no column is in review for want of values.  Dates   *)
(* are the exception: of a column of dates the share of the samples that    *)
(* are none is small, and it is in review.  Not so, and excused: booleans   *)
(* beside other values are taken for a boolean column (guessFrom), with no  *)
(* review.                                                                  *)
ArtifactFitsSamples ==
    /\ UnknownPaths({x.path : x \in observed}) = {}
    /\ \A p \in DOMAIN leafStats :
        LET column == InferOne(leafStats[p])
            values == ValuesOf(p)
            types == TypesOf(p)
            mixed == "boolean" \in types /\ types # {"boolean"}
        IN  /\ \A v \in values : Holds(column.type, v) \/ mixed \/ column.type = "datetime"
            /\ column.type = "datetime" =>
                   /\ column.review # {}
                   /\ TimesSampled(p, values \cap IsoLike) * 100 >= TimesSampled(p, values) * IsoPercent
            /\ (column.nullable <=> \E v \in SampledAt(p) : JsType[v] = "null")
            /\ column.filter = "set" /\ "array" \notin types /\ ~mixed => Cardinality(values) <= SetFilterMax
            /\ column.review = {} /\ ~mixed => Cardinality(types) = 1
            /\ SamplingComplete => "few" \notin column.review
=============================================================================
