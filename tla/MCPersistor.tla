----------------------------- MODULE MCPersistor -----------------------------
(***************************************************************************)
(* Instances of the output persistor for TLC.                              *)
(***************************************************************************)
EXTENDS OutputPersistor, TLC

MCContainers == {"c1", "c2"}
MCNames == {"a", "b", "bx"}
MCKeys == [f \in {"f1", "f2", "f3"} |-> {"x", "y"}]

\* Names as they are spelled, but "b" with the key "x" is sanitized to "bx".
MCSecrets == {"a", "bx", "by"}
MCSecretName == (<<"a">> :> "a") @@ (<<"bx">> :> "bx") @@
                (<<"b", "x">> :> "bx") @@ (<<"b", "y">> :> "by")

\* A container with two files, one of them fanned out into two Secrets, and one
\* with a single file, whose Secret has the name of another one.
MCFiles == {"f1", "f2", "f3"}
MCOutputMap == ("c1" :> (NewFileToSecret("f1", "a") @@ NewFileToSecrets("f2", "b"))) @@
               ("c2" :> NewFileToSecret("f3", "bx"))

\* A container with two files, each of which may be found by the look or by the
\* watch, and one that has an entry without a file.
LiveFiles == {"f1", "f2"}
LiveOutputMap == ("c1" :> (NewFileToSecret("f1", "a") @@ NewFileToSecrets("f2", "b"))) @@
                 ("c2" :> <<>>)

\* One container that has no entry in the output map.
SidecarFiles == {"f3"}
SidecarOutputMap == "c2" :> NewFileToSecret("f3", "a")
=============================================================================
