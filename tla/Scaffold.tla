-------------------------------- MODULE Scaffold --------------------------------
(***************************************************************************)
(* The scaffolding of verification-agent-factory: init-agent checks a      *)
(* manifest and writes the files of a new agent into a directory, one      *)
(* after another.  A write can fail and the program can be killed between  *)
(* two writes or inside one; nothing is cleaned up, and the command is run *)
(* again, with or without --overwrite and with the same or another         *)
(* manifest.  Between two runs people edit the tree.                       *)
(*                                                                         *)
(* A file is a path; its content is the manifest it was rendered from.     *)
(***************************************************************************)
EXTENDS Naturals, Sequences, SequencesExt

CONSTANTS
    Manifests,      \* the manifest files at hand
    MaxRuns         \* bound on the runs of init-agent

VARIABLES
    tree,           \* the destination: path -> agent it is rendered from
    before,         \* the destination when the last run began
    job,            \* the running command: manifest and files still to write
    exit,           \* how the last run ended
    overwrote,      \* whether some run had --overwrite
    runCount        \* runs so far

scaffoldVars == <<tree, before, job, exit, overwrote, runCount>>

LlmRole == [deterministic_check : {"named", "blank"}]

Manifest ==
    [agent_id     : [name : STRING, kebab : BOOLEAN],
     version      : {"semantic", "other"},
     category     : {"sva_generation", "rtl_analysis"},
     claim_policy : {"explicit", "placeholder"},
     credentials  : BOOLEAN,
     release      : {"public", "private"},
     roles        : SUBSET LlmRole]

\* The validators of the fields run first; those of the model only when no field
\* is wrong.
FieldErrors(m) ==
    {e \in {"agent_id", "version", "claim_policy", "requires_credentials"} :
        \/ e = "agent_id" /\ ~m.agent_id.kebab
        \/ e = "version" /\ m.version # "semantic"
        \/ e = "claim_policy" /\ m.claim_policy = "placeholder"
        \/ e = "requires_credentials" /\ m.credentials}

RolesUnchecked(m) ==
    /\ m.release = "public"
    /\ \E r \in m.roles : r.deterministic_check = "blank"

ManifestErrors(m) ==
    IF FieldErrors(m) # {} THEN FieldErrors(m)
    ELSE IF RolesUnchecked(m) THEN {"root"} ELSE {}

PackageName(m) == m.agent_id.name

Docs ==
    <<"README.md", "LICENSE", "ARCHITECTURE.md", "THREAT_MODEL.md", "EVIDENCE.md",
      "CONTRIBUTING.md", "SECURITY.md", "RELEASE_CHECKLIST.md", ".gitignore",
      "Dockerfile", "pyproject.toml", "ci.yml">>

Metadata == <<"agent_manifest.json", "manifest.schema.json", "benchmark_manifest.json">>

InPackage(m, files) == [i \in DOMAIN files |-> <<PackageName(m), files[i]>>]
AtTop(files) == [i \in DOMAIN files |-> <<"", files[i]>>]

CategoryFiles(m) ==
    InPackage(m, <<"agent.py", "validators.py", "cli.py">>)
    \o AtTop(IF m.category = "sva_generation"
               THEN <<"requirement_handshake.json", "rtl_symbols.json",
                      "tests/__init__.py", "test_agent.py", "test_models.py">>
               ELSE <<"input_example.json", "tests/__init__.py", "test_agent.py">>)

\* The files of an agent in the order they are written.
FilesOf(m) ==
    AtTop(Docs \o Metadata)
    \o InPackage(m, <<"__init__.py", "models.py", "mock_llm.py">>)
    \o CategoryFiles(m)
    \o AtTop(<<"index.md">>)

Notes == <<"", "NOTES.md">>
Paths == {Notes} \cup UNION {Range(FilesOf(m)) : m \in Manifests}

NoJob == [m |-> {}, todo |-> <<>>]

ScaffoldInit ==
    /\ tree = [p \in Paths |-> "absent"]
    /\ before = tree /\ job = NoJob
    /\ exit = "none" /\ overwrote = FALSE /\ runCount = 0

Present(t) == {p \in Paths : t[p] # "absent"}

\* Mutation: only a tree with a manifest of an agent in it counts as filled.
RefusedFinished(overwrite) ==
    tree[<<"", "agent_manifest.json">>] # "absent" /\ ~overwrite

\* A non-empty destination is refused, whoever filled it.
Refused(overwrite) == Present(tree) # {} /\ ~overwrite

InitAgent(m, overwrite) ==
    /\ job = NoJob /\ runCount < MaxRuns
    /\ runCount' = runCount + 1
    /\ before' = tree
    /\ IF ManifestErrors(m) # {} \/ Refused(overwrite)
         THEN exit' = "failed" /\ UNCHANGED <<job, overwrote>>
         ELSE /\ job' = [m |-> {m}, todo |-> FilesOf(m)]
              /\ exit' = "none"
              /\ overwrote' = (overwrote \/ overwrite)
    /\ UNCHANGED tree

Running == CHOOSE m \in job.m : TRUE

WriteFile ==
    /\ job.todo # <<>>
    /\ tree' = [tree EXCEPT ![Head(job.todo)] = PackageName(Running)]
    /\ job' = IF Len(job.todo) = 1 THEN NoJob ELSE [job EXCEPT !.todo = Tail(@)]
    /\ exit' = IF Len(job.todo) = 1 THEN "ok" ELSE "none"
    /\ UNCHANGED <<before, overwrote, runCount>>

\* An OSError, a KeyError of a template, or a kill: the file is as it was, or
\* truncated and not yet written.
StopWriting ==
    /\ job.todo # <<>>
    /\ \/ UNCHANGED tree
       \/ tree' = [tree EXCEPT ![Head(job.todo)] = "torn"]
    /\ job' = NoJob
    /\ exit' = "failed"
    /\ UNCHANGED <<before, overwrote, runCount>>

\* Between runs somebody adds a file of his own or empties the directory.
EditTree ==
    /\ job = NoJob
    /\ tree' \in {[tree EXCEPT ![Notes] = "user"], [p \in Paths |-> "absent"]}
    /\ exit' = "none"
    /\ overwrote' = (overwrote /\ Present(tree') # {})
    /\ UNCHANGED <<before, job, runCount>>

ScaffoldNext ==
    \/ \E m \in Manifests, overwrite \in BOOLEAN : InitAgent(m, overwrite)
    \/ WriteFile
    \/ StopWriting
    \/ EditTree

ScaffoldSpec == ScaffoldInit /\ [][ScaffoldNext]_scaffoldVars

------------------------------------------------------------------------------
(* Properties *)

\* A run that ends well leaves every file of its agent rendered from its manifest
\* and everything else as it was: with --overwrite an older agent's files of other
\* names stay, which is the reader's business, not that of a half-finished run.
CompleteWhenOk ==
    exit = "ok" =>
        \E m \in Manifests :
            /\ ManifestErrors(m) = {}
            /\ \A p \in Range(FilesOf(m)) : tree[p] = PackageName(m)
            /\ \A p \in Paths \ Range(FilesOf(m)) : tree[p] = before[p]

\* Without --overwrite no run, finished or interrupted, mixes the files of two
\* agents or truncates what somebody else wrote: whatever the tree holds besides
\* one agent's files was put there by a user, and after the run.
OneAgentUnlessOverwritten ==
    ~overwrote =>
        /\ \A p, q \in Present(tree) \ {Notes} :
              "torn" \notin {tree[p], tree[q]} => tree[p] = tree[q]
        /\ job # NoJob => Present(before) = {}

\* The scaffold writes whole agents, and mixes nothing unasked.
ScaffoldSound == CompleteWhenOk /\ OneAgentUnlessOverwritten

=============================================================================
