------------------------- MODULE AuthorizationHeader -------------------------
(***************************************************************************)
(* The Authorization header the PDP client makes of AUTHZEN_PDP_TOKEN       *)
(* (setAuth and hasAuthScheme, authzen.go).  A token is the sequence of its *)
(* words and of the white space between them.                               *)
(***************************************************************************)
EXTENDS Naturals, SequencesExt

Space == {" ", "tab"}

\* strings.ToLower, of the words that occur.
ToLower(w) ==
    CASE w \in {"Bearer", "BEARER"} -> "bearer"
      [] w \in {"Basic", "BASIC"}   -> "basic"
      [] w = "DPoP"                 -> "dpop"
      [] OTHER                      -> w

Schemes == {"bearer", "basic", "dpop"}

\* The words of a token, in their order: kept[i] are those of its first i parts.
Words(t) ==
    LET kept[i \in 0..Len(t)] ==
          IF i = 0 THEN <<>>
          ELSE IF t[i] \in Space THEN kept[i - 1] ELSE Append(kept[i - 1], t[i])
    IN  kept[Len(t)]

TrimSpace(t) ==
    LET own == {i \in DOMAIN t : t[i] \notin Space}
    IN  IF own = {} THEN <<>> ELSE SubSeq(t, Min(own), Max(own))

hasAuthScheme_AsWritten(t) == Len(t) > 1 /\ t[2] = " " /\ t[1] \in Schemes

\* What is before the first blank names a scheme, in any case.
hasAuthScheme(t) == Len(t) > 1 /\ t[2] = " " /\ ToLower(t[1]) \in Schemes

setAuth_Untrimmed(token) ==
    IF token = <<>> \/ hasAuthScheme(token) THEN token
    ELSE <<"Bearer", " ">> \o token

\* <<>>: no header is set.
setAuth(token) ==
    LET t == TrimSpace(token)
    IN  IF t = <<>> \/ hasAuthScheme(t) THEN t ELSE <<"Bearer", " ">> \o t

\* A token as an operator means it: nothing, one credential, or a scheme, as any
\* server spells it, and what goes with it.
Meant(t) ==
    LET w == Words(t)
    IN  IF w = <<>> \/ ToLower(w[1]) \in Schemes THEN w ELSE <<"Bearer">> \o w

\* A token that begins with the name of a scheme goes on as setAuth expects it to:
\* with a blank, and a credential.
IsToken(t) ==
    \A i \in DOMAIN t :
        t[i] \notin Space /\ ToLower(t[i]) \in Schemes /\ (\A j \in 1..(i - 1) : t[j] \in Space)
            => i + 1 \in DOMAIN t /\ t[i + 1] = " " /\ \E j \in DOMAIN t : j > i /\ t[j] \notin Space
=============================================================================
