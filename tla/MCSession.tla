------------------------------ MODULE MCSession ------------------------------
(***************************************************************************)
(* Every setting wrong in every way, two at a time where they could be       *)
(* confused, and tokens as operators write them.  The widths are scaled      *)
(* down; the builds that are released are 64-bit, where an int holds an      *)
(* int64.                                                                    *)
(***************************************************************************)
EXTENDS Session

MCDefault == [x \in Bounds |-> CASE x = "PDPTimeout"  -> 5
                                 [] x = "RegoTimeout" -> 4
                                 [] OTHER             -> 3]

NothingSet == [x \in Settings |-> Unset]

Wrong == {Malformed, Number(-1), Number(0), Number(Int64Max + 1)}
Right == {Number(1), Number(Int64Max)}

Environments ==
    {NothingSet}
    \cup {[NothingSet EXCEPT ![x] = v] : x \in Bounds, v \in Wrong \cup {Number(1)}}
    \cup {[NothingSet EXCEPT !["AllowNetworkBuiltins"] = v] :
             v \in {Malformed, Number(0), Number(1), Number(2)}}
    \cup {[NothingSet EXCEPT !["PDPMaxBytes"] = v, !["MaxArgBytes"] = w] :
             v \in Wrong \cup Right, w \in {Unset, Malformed, Number(2)}}
    \cup {[NothingSet EXCEPT !["RegoTimeout"] = Malformed,
                             !["AllowNetworkBuiltins"] = Malformed]}

Tokens ==
    {<<>>, <<" ">>, <<"secret">>, <<"secret", "tab">>,
     <<"Bearer", " ", "secret">>, <<" ", "Bearer", " ", "secret">>,
     <<"BASIC", " ", " ", "secret">>, <<"DPoP", " ", "secret", " ">>,
     <<"opaque", " ", "token">>}

ASSUME TokensAssumption == \A t \in Tokens : IsToken(t)

Start(arg, env, token) == [arg |-> arg, env |-> env, token |-> token]

MCStarts ==
    {Start(a, NothingSet, <<"secret">>) : a \in Arguments}
    \cup {Start("", e, <<"secret">>) : e \in Environments}
    \cup {Start("", NothingSet, t) : t \in Tokens}
=============================================================================
