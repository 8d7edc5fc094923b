------------------------- MODULE RefreshTokensProofs -------------------------
(***************************************************************************)
(* Lemmas about the statements that are run on the table of refresh        *)
(* tokens: what they leave alone, and what they make of the rest.          *)
(***************************************************************************)
EXTENDS RefreshTokens, TLAPS

(* Revoking changes no family and frees no row; it leaves a row alone or     *)
(* makes it revoked.                                                         *)
LEMMA RevokedRows ==
    ASSUME NEW table \in [TokenIds -> Row], NEW S
    PROVE  /\ Revoked(table, S) \in [TokenIds -> Row]
           /\ \A t \in TokenIds :
                /\ Revoked(table, S)[t].family = table[t].family
                /\ Revoked(table, S)[t].user = table[t].user
                /\ Revoked(table, S)[t].status = "free" <=> table[t].status = "free"
                /\ Revoked(table, S)[t].status = "live" <=> table[t].status = "live" /\ t \notin S
                /\ Unrevoked(Revoked(table, S)[t]) <=> Unrevoked(table[t]) /\ t \notin S
BY DEF Revoked, Row, Unrevoked, Status

(* Storing a token writes its row and no other. *)
LEMMA StoredRows ==
    ASSUME NEW table \in [TokenIds -> Row], NEW n \in TokenIds,
           NEW u \in Users \cup {NoUser}, NEW f \in TokenIds
    PROVE  /\ Stored(table, n, u, f) \in [TokenIds -> Row]
           /\ Stored(table, n, u, f)[n] = [status |-> "live", user |-> u, family |-> f]
           /\ \A t \in TokenIds \ {n} : Stored(table, n, u, f)[t] = table[t]
BY DEF Stored, Row, Status

(* A token that expires keeps its family and is still not revoked. *)
LEMMA ExpiredRows ==
    ASSUME TokensTyped, NEW t \in TokenIds, Live(t)
    PROVE  /\ Expired(t) \in [TokenIds -> Row]
           /\ \A s \in TokenIds :
                /\ Expired(t)[s].family = tokens[s].family
                /\ Expired(t)[s].user = tokens[s].user
                /\ Expired(t)[s].status = "free" <=> tokens[s].status = "free"
                /\ Expired(t)[s].status = "live" => tokens[s].status = "live"
                /\ Unrevoked(Expired(t)[s]) <=> Unrevoked(tokens[s])
BY DEF Expired, TokensTyped, Row, Unrevoked, Status, Live

=============================================================================
