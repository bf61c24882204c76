------------------------------ MODULE MCReaders ------------------------------
(* Small instances of the two readers that work on what the database has given *)
(* them: matching and printing (Render), and sampling (Sampler).  They share   *)
(* no state, so that a behaviour here is one of the one, with the other at     *)
(* rest, or one of the other.                                                  *)
EXTENDS Render, Sampler

CONSTANTS x, y, f, g, noun, e1, e2, k1, k2

-----------------------------------------------------------------------------
(* All sentences of up to four tokens and all expressions of up to three items *)
(* over a few tokens and items, printed in books where words follow each other *)
(* closely, on several lines, or are several tokens.  A distance of 3 is next  *)
(* to the largest int, so that it overflows behind the third token.            *)

Tok(l, tag) == [lemma |-> l, tag |-> tag, pos |-> noun]
Tokens == {Tok(x, {}), Tok(x, {f}), Tok(y, {f, g})}
MCSentences == UNION {[1 .. n -> Tokens] : n \in 0 .. 4}

Lemma(ls) == [is |-> "lemma", lemmas |-> ls]
Tag(sep, tags) == [is |-> "tag", sep |-> sep, tags |-> tags]
Number(n) == [is |-> "number", number |-> n]

Words == {Lemma({x}), Lemma({x, y}), Tag("|", {f, g}), Tag("+", {f, g})}
Numbers == {Number(n) : n \in -1 .. 3}
MCInputs ==
    UNION {[1 .. n -> Words \cup Numbers] : n \in 0 .. 3}
    \cup {<<Lemma({x}), Number(n), Tag("|", {f}), Number(m), w>> :
            n, m \in 1 .. 2, w \in Words}

\* Lemma and tag in one item, and a part of speech, are found in topics only.
It(near, ls, tags, ps) ==
    [near |-> near, lemmas |-> ls, sep |-> "|", tags |-> tags, pos |-> ps]
Items(n) == {It(n, {x}, {}, {noun}), It(n, {y}, {f}, {}), It(n, {x, y}, {g}, {})}
MCExpressions ==
    {<<it>> : it \in Items(0)}
    \cup {<<it, jt>> : it \in Items(0), jt \in UNION {Items(n) : n \in -1 .. 3}}

At(text, idx) == [text |-> text, idx |-> idx]
MCLayouts ==
    {<<At(<<"a">>, n), At(<<"b">>, n + 1), At(<<"c", "d">>, n + 4), At(<<"e">>, n + 7)>> :
        n \in {0, 5}}
    \cup {<<At(<<"a", "newline">>, 3), At(<<"b", "c">>, 6), At(<<"b", "c">>, 6), At(<<"d">>, 8)>>,
          <<At(<<"a", "b">>, 2), At(<<"a", "b">>, 2), At(<<"a", "b">>, 2), At(<<"c">>, 5)>>}

-----------------------------------------------------------------------------
(* All sets of candidates and matches of two expressions, which String tells   *)
(* apart or does not.                                                          *)

MCKeyings == {[e \in Exprs |-> IF e = e1 THEN k1 ELSE k] : k \in {k1, k2}}

\* The last one has more to reserve than room, when both expressions match.
Opt(size, minExprs, minEach, budget) ==
    [size |-> size, minExprs |-> minExprs, minEach |-> minEach, budget |-> budget]
MCOptions == {Opt(2, 1, 1, 2), Opt(2, 2, 1, 4), Opt(2, 0, 1, 7),
              Opt(1, 2, 1, 1), Opt(2, 1, 2, 4)}

-----------------------------------------------------------------------------

\* The matcher at rest: no argument, no item.
NoMatch ==
    /\ pc = "parse" /\ args = <<>> /\ expr = <<>> /\ read = 0
    /\ sentence = <<>> /\ done = 0
    /\ chains = <<>> /\ extended = <<>> /\ chain = 1 /\ step = 0
    /\ layout = <<>> /\ format = "" /\ printed = <<>>

\* The sampler at rest: it has returned at once.
NoSample ==
    /\ opts = Opt(1, 0, 1, 0) /\ key = [e \in Exprs |-> k1]
    /\ labelled = {} /\ cand = [e \in Exprs |-> {}] /\ accepts = [e \in Exprs |-> {}]
    /\ s = [pc |-> "ok", todo |-> <<>>, random |-> 0, cursor |-> 0, last |-> 0,
            fetched |-> 0, handed |-> 0, batch |-> 0, found |-> <<>>, matched |-> {},
            results |-> [k \in Strings |-> <<>>], tried |-> {}, sample |-> {}]

ReadersInit == (RenderInit /\ NoSample) \/ (NoMatch /\ SamplerInit)

ReadersNext ==
    \/ RenderNext /\ UNCHANGED samplerVars
    \/ SamplerNext /\ UNCHANGED renderVars

ReadersSpec ==
    ReadersInit /\ [][ReadersNext]_<<renderVars, samplerVars>> /\ WF_samplerVars(SamplerNext)
=============================================================================
