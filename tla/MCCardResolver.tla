---------------------------- MODULE MCCardResolver ----------------------------
(***************************************************************************)
(* Two tokens, one password, one or two schemes in either order, for TLC.  *)
(***************************************************************************)
EXTENDS CardResolver

MCAuths == {<<>>, <<"bearer">>, <<"Bearer", "basic">>, <<"basic", "bearer">>,
            <<"digest">>}

Data(token, username) ==
    [token |-> token, username |-> username, password |-> "pw"]

(* A Secret with a token, with a new token, with both kinds of keys, and   *)
(* with an empty user name.                                                *)
MCSecrets == {Data("t1", NoKey), Data("t2", "user"), Data(NoKey, "user"),
              Data("t1", "empty")}

MCDemands == {<<"Bearer", "t1">>, <<"Bearer", "t2">>, <<"Basic", "user", "pw">>}

=============================================================================
