--------------------------- MODULE MCSelfUpdate ---------------------------
(* Two commands at a time, on Windows and elsewhere.  The versions are in  *)
(* the order of semver.org's own example, around a step from 0.9 to 0.10.  *)
EXTENDS SelfUpdate, Functions

Texts == <<"0", "1", "10", "2", "9", "alpha", "beta", "rc">>  \* in byte order

MCIdent == Range(Texts)
MCNum   == [i \in MCIdent |-> CASE i = "0" -> 0 [] i = "1" -> 1 [] i = "2" -> 2
                                [] i = "9" -> 9 [] i = "10" -> 10 [] OTHER -> NaN]
MCBytes == [i \in MCIdent |-> CHOOSE n \in DOMAIN Texts : Texts[n] = i]

V(core, pre) == [core |-> core, pre |-> pre]
V9      == V(<<"0", "9", "0">>, <<>>)
V10     == V(<<"0", "10", "0">>, <<>>)
Vbeta2  == V(<<"0", "10", "0">>, <<"beta", "2">>)
V10rc2  == V(<<"0", "10", "0">>, <<"rc", "2">>)
V101    == V(<<"0", "10", "1">>, <<>>)

(* Versions of one set are of the same precedence. *)
Ranks == <<{V9},
           {V(<<"0", "10", "0">>, <<"alpha">>)},
           {V(<<"0", "10", "0">>, <<"alpha", "1">>)},
           {V(<<"0", "10", "0">>, <<"alpha", "beta">>)},
           {V(<<"0", "10", "0">>, <<"beta">>)},
           {Vbeta2, V(<<"0", "10">>, <<"beta", "2">>)},
           {V(<<"0", "10", "0">>, <<"beta", "10">>)},
           {V(<<"0", "10", "0">>, <<"beta", "beta">>)},
           {V10rc2},
           {V10, V(<<"0", "10">>, <<>>)},
           {V101},
           {V(<<"0", "10", "2">>, <<>>)},
           {V(<<"1">>, <<>>)}>>

MCVersion == UNION Range(Ranks)
MCOrder   == [v \in MCVersion |-> CHOOSE n \in DOMAIN Ranks : v \in Ranks[n]]
MCInstalled == {V9, Vbeta2}

Genuine(v)   == [tag |-> v, archive |-> v, sums |-> [of |-> v, lists |-> v], sig |-> v]
Truncated(v) == [Genuine(v) EXCEPT !.archive = Bad]
Unsigned(v)  == [Truncated(v) EXCEPT !.sums.lists = Bad, !.sig = None]
(* The assets of another release under the tag. *)
MixedUp(v, w) == [Genuine(w) EXCEPT !.tag = v]

MCAnswers == {Genuine(V9), Genuine(V10rc2), Genuine(V10),
              Truncated(V10), Unsigned(V10), MixedUp(V101, V9)}
============================================================================
