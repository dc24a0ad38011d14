------------------------------- MODULE KeyFile -------------------------------
(***************************************************************************)
(* How nodes get their encryption key (the start of AxoneNode.__init__,    *)
(* encryption.py): from the file the configuration names, if there is one, *)
(* and otherwise from a file in /tmp, which the first node makes. The file *)
(* the configuration names is made by a tool, encryption.py run as a       *)
(* program. Nodes and the tool run at once and may crash; nothing removes  *)
(* a file, so load_encryption_key never falls back.                        *)
(***************************************************************************)
EXTENDS MachineNodes

CONSTANTS
  Tool,         (* The program that makes the configured file.             *)
  Empty         (* A file without text; None is no file.                   *)

ASSUME KeyFileAssumption ==
  Tool # Empty /\ None \notin {Tool, Empty} /\ Nodes \cap {Tool, Empty} = {}

Makers  == Nodes \cup {Tool}
Files   == {"configured", "temporary"}

VARIABLES
  file,         (* The content of each file: None, Empty, or who made its  *)
                (* key.                                                    *)
  keyPc,        (* Control point of each maker.                            *)
  key,          (* The key it has got, or None ...                         *)
  source,       (* ... and the file it got it from.                        *)
  raced         (* History: two were making the same file at once.         *)

keyVars == <<file, keyPc, key, source, raced>>

KeyInit ==
  /\ file \in [Files -> {None, Empty}]
  /\ keyPc = [u \in Makers |-> "start"]
  /\ key = [u \in Makers |-> None]
  /\ source = [u \in Makers |-> "temporary"]
  /\ raced = FALSE

KeyGo(u, label) == keyPc' = [keyPc EXCEPT ![u] = label]

Got(u, k) == key' = [key EXCEPT ![u] = k] /\ KeyGo(u, "ready")

\* The tool has nothing to load.
CheckPath(u) ==
  /\ keyPc[u] = "start"
  /\ IF u = Tool
       THEN source' = [source EXCEPT ![u] = "configured"] /\ KeyGo(u, "generate")
       ELSE IF file["configured"] # None
         THEN source' = [source EXCEPT ![u] = "configured"] /\ KeyGo(u, "load")
         ELSE source' = [source EXCEPT ![u] = "temporary"] /\ KeyGo(u, "generate")
  /\ UNCHANGED <<file, key, raced>>

\* load_encryption_key returns what is in the file, if nothing then nothing.
LoadKey(u) ==
  /\ keyPc[u] = "load"
  /\ Got(u, file["configured"])
  /\ UNCHANGED <<file, source, raced>>

Making(u) == {w \in Makers \ {u} : keyPc[w] \in {"open", "write"} /\ source[w] = source[u]}

\* Mutant: a key that is there is not used.
GenerateAlways(u) ==
  /\ keyPc[u] = "generate"
  /\ KeyGo(u, "open")
  /\ raced' = (raced \/ Making(u) # {})
  /\ UNCHANGED <<file, key, source>>

\* generate_encryption_key takes the key in the file, ...
Generate(u) ==
  /\ keyPc[u] = "generate"
  /\ IF file[source[u]] \notin {None, Empty}
       THEN Got(u, file[source[u]]) /\ UNCHANGED raced
       ELSE /\ KeyGo(u, "open")
            /\ raced' = (raced \/ Making(u) # {})
            /\ UNCHANGED key
  /\ UNCHANGED <<file, source>>

\* ... or makes one: open() leaves an empty file, ...
OpenFile(u) ==
  /\ keyPc[u] = "open"
  /\ file' = [file EXCEPT ![source[u]] = Empty]
  /\ KeyGo(u, "write")
  /\ UNCHANGED <<key, source, raced>>

\* ... to which the key is written.
WriteKey(u) ==
  /\ keyPc[u] = "write"
  /\ file' = [file EXCEPT ![source[u]] = u]
  /\ Got(u, u)
  /\ UNCHANGED <<source, raced>>

CrashMaking(u) ==
  /\ keyPc[u] \in {"open", "write"}
  /\ KeyGo(u, "crashed")
  /\ UNCHANGED <<file, key, source, raced>>

GetKey(u) ==
  \/ CheckPath(u) \/ LoadKey(u) \/ Generate(u) \/ OpenFile(u) \/ WriteKey(u)
  \/ CrashMaking(u)

\* A node that is started again gets its key again.
ForgetKey(u) ==
  /\ KeyGo(u, "start")
  /\ key' = [key EXCEPT ![u] = None]
  /\ UNCHANGED <<file, source, raced>>

-----------------------------------------------------------------------------
(* Properties.                                                             *)

\* Nodes that got their keys from the same file have the same key, unless two
\* of them found it missing at once, and no node goes on without a key; except
\* those that load the configured file while the tool has only opened it.
KeysAgree ==
  \A u, w \in Makers :
    keyPc[u] = "ready" /\ keyPc[w] = "ready" /\ source[u] = source[w] =>
      \/ key[u] = key[w] /\ key[u] # Empty
      \/ raced
      \/ source[u] = "configured" /\ Empty \in {key[u], key[w]}

=============================================================================
