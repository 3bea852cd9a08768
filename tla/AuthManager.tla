----------------------------- MODULE AuthManager -----------------------------
(***************************************************************************)
(* internal/auth: the API keys of the server and the tunnels each key      *)
(* holds.  Every method takes am.mu, so each is one atomic step here; the  *)
(* hazard is between two calls of the server (CheckTunnelLimit ...         *)
(* AddTunnel), which TunnelRegistry keeps apart.  ReloadApiKeys and the    *)
(* Get* methods have no caller.                                            *)
(***************************************************************************)
EXTENDS Integers, SequencesExt

CONSTANTS Tokens,          \* non-empty token strings a client may present
          NoToken,         \* the empty token ""
          ApiKeysConfig,   \* the entries of the API keys file, in file order
          TunnelIds        \* strings recorded as tunnel ids

ASSUME AuthAssumption ==
    /\ NoToken \notin Tokens
    /\ ApiKeysConfig \in Seq([key : Tokens \cup {NoToken}, limit : Int])

VARIABLE tunnelsPerKey     \* am.tunnelsPerKey: the tunnel ids of each token

(* loadApiKeys: the map the file's entries build; a later entry for the    *)
(* same key overwrites an earlier one.                                     *)
apiKeys == [k \in {ApiKeysConfig[i].key : i \in DOMAIN ApiKeysConfig} |->
              ApiKeysConfig[SelectLastInSeq(ApiKeysConfig,
                                            LAMBDA e : e.key = k)].limit]

AuthTypeOK == tunnelsPerKey \in [Tokens -> Seq(TunnelIds)]

NewAuthManager == tunnelsPerKey = [k \in Tokens |-> <<>>]

ValidateToken(token) == token # NoToken /\ token \in DOMAIN apiKeys

CheckTunnelLimit(token) == Len(tunnelsPerKey[token]) >= apiKeys[token]

AddTunnel(token, id) ==
    tunnelsPerKey' = [tunnelsPerKey EXCEPT ![token] = Append(@, id)]

RemoveEveryTunnel(token, id) ==                        \* mutant: no break
    tunnelsPerKey' = [tunnelsPerKey EXCEPT ![token] = SelectSeq(@, LAMBDA t : t # id)]

RemoveTunnel(token, id) ==
    tunnelsPerKey' = [tunnelsPerKey EXCEPT ![token] = RemoveFirst(@, id)]
=============================================================================
