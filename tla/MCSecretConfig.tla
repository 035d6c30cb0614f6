--------------------------- MODULE MCSecretConfig ---------------------------
(* Two secrets, each given in any of these ways, and a storage backend whose *)
(* settings and list are resolved within maps.                               *)
EXTENDS SecretConfig, TLC

MCNames == {"secrets", "csrf_secret", "jwt_secret", "storage", "s3", "localfiles",
            "path", "scopes", "0"}
MCTexts == {"a", "b", "c"}
MCEnv == ("a" :> "b") @@ ("b" :> "a")
MCFiles == ("a" :> "c") @@ ("b" :> "other")

Secrets == <<<<"secrets">>>>
Under(at, name, suffixes, value) == Append(at, <<name>> \o suffixes) :> value

Ways(at, name) ==
  LET K(suffixes, value) == Under(at, name, suffixes, value)
  IN {<<>>, K(<<>>, "a"), K(<<>>, "other"),
      K(<<"_fromenv">>, "a"), K(<<"_fromenv">>, "c"), K(<<"_fromenv">>, "other"),
      K(<<"_fromfile">>, "a"),
      K(<<"_fromenv">>, "a") @@ K(<<"_fromfile">>, "a"),
      K(<<>>, "a") @@ K(<<"_fromfile">>, "a"),
      K(<<"_fromenv", "_fromenv">>, "a"),
      K(<<>>, "a") @@ K(<<"_fromfile", "_fromenv">>, "b")}

Storage == <<<<"storage">>>>
Local == Append(Storage, <<"localfiles">>)
Scopes == <<<<"scopes">>>>
StorageWays ==
  LET local == (Storage :> "map") @@ (Local :> "map")
  IN {<<>>,
      local @@ Under(Local, "path", <<"_fromenv">>, "a"),
      local @@ Under(Local, "path", <<>>, "a") @@ Under(Storage, "localfiles", <<"_fromenv">>, "a"),
      local @@ Under(Storage, "s3", <<>>, "map"),
      (Scopes :> "map") @@ (Append(Scopes, <<"0">>) :> "map")
        @@ Under(Append(Scopes, <<"0">>), "path", <<"_fromfile">>, "b"),
      (Scopes :> "map") @@ Under(Scopes, "path", <<"_fromfile", "_fromenv", "_fromenv">>, "a")
        @@ Under(Scopes, "path", <<"_fromfile">>, "map")
        @@ Under(Append(Scopes, <<"path", "_fromfile">>), "0", <<>>, "a")}

MCConfigs ==
  {(Secrets :> "map") @@ csrf @@ jwt @@ storage :
     csrf \in Ways(Secrets, "csrf_secret"), jwt \in Ways(Secrets, "jwt_secret"),
     storage \in StorageWays}
=============================================================================
