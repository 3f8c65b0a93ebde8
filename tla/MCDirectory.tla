---------------------------- MODULE MCDirectory ----------------------------
(* Directories of a cluster and a few entries under the root of a freshly  *)
(* formatted volume.                                                       *)
EXTENDS Directory

FormattedRoot == <<2>>
Clusters4     == [k \in 1 .. 4 |-> k + 2]
Clusters5     == [k \in 1 .. 5 |-> k + 2]
Clusters2     == [k \in 1 .. 2 |-> k + 2]

TwoNames   == {"a", "b"}
ThreeNames == {"a", "b", "c"}
LongName   == {"eleventeams"}

Absolute(S) == [abs : {TRUE}, comps : S]
Relative(S) == [abs : {FALSE}, comps : S]

SomePaths ==
  Absolute({<<>>, <<"a">>, <<"b">>, <<"a", "a">>, <<"a", "b">>, <<"b", "a">>})
    \cup Relative({<<"a">>, <<"b">>, <<DotDot>>, <<DotDot, "a">>,
                   <<"a", DotDot>>, <<"b", Dot>>})
PlainPaths == Absolute({<<"a">>, <<"b">>, <<"c">>, <<"a", "b">>})
LongPaths  == Absolute({<<n>> : n \in LongName})
=============================================================================
