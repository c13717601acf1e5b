------------------------------ MODULE HermesHome ------------------------------
(***************************************************************************)
(* The files of a Hermes home that Chronalyn changes, and what its file    *)
(* helpers do to them: the backup set, the provider entries, the steps of  *)
(* an installation and of a restore.  A home is a function from nodes to   *)
(* contents; a content is abstracted to who wrote it, or to the value the  *)
(* commands read back from it.                                             *)
(***************************************************************************)
EXTENDS Naturals, Sequences

Absent == "absent"

Canonical == "chronalyn"
Legacy == "hermes_memory_router"
ProviderIds == {Canonical, Legacy}

\* The Hermes configuration, the router's, Hindsight's, and the secrets.
Yaml == <<"home", "config.yaml">>
Router == <<"home", "memory-router/config.json">>
Hindsight == <<"home", "hindsight/config.json">>
Env == <<"home", ".env">>

Entry(id) == {<<id, "__init__.py">>, <<id, "plugin.yaml">>, <<id, "marker">>}
Marker(id) == <<id, "marker">>
Dir(id) == <<id, "directory">>

ConfigPaths == {Yaml, Router, Hindsight, Env}
EntryPaths == Entry(Canonical) \cup Entry(Legacy)
Dirs == {Dir(id) : id \in ProviderIds}
Paths == ConfigPaths \cup EntryPaths
Nodes == Paths \cup Dirs

\* managed_backup_paths: every file a backup covers, in the order it is copied.
ManagedBackupPaths ==
  <<Yaml, Router, Hindsight, Env,
    <<Canonical, "__init__.py">>, <<Canonical, "plugin.yaml">>, Marker(Canonical),
    <<Legacy, "__init__.py">>, <<Legacy, "plugin.yaml">>, Marker(Legacy)>>

Policies == {"hindsight-only", "dual"}

\* What each node can hold: config.yaml names the active providers ("both" is
\* a list with a second provider), the router's config its policy or the old
\* schema, and every other file who wrote it.
Contents(n) ==
  CASE n = Yaml -> {Absent, "hindsight", Canonical, Legacy, "both"}
    [] n = Router -> {Absent, "v1"} \cup Policies
    [] n \in Dirs -> {Absent, "present"}
    [] OTHER -> {Absent, "user", "chronalyn"}

Content == UNION {Contents(n) : n \in Nodes}
Home == {h \in [Nodes -> Content] : \A n \in Nodes : h[n] \in Contents(n)}
Snapshots == {h \in [Paths -> Content] : \A p \in Paths : h[p] \in Contents(p)}

(***************************************************************************)
(* Steps.  A command is a sequence of steps; each leaves the home as it    *)
(* will be found if the process dies before the next one.                  *)
(***************************************************************************)
Step(kind, at, value) == [kind |-> kind, at |-> at, value |-> value]
Kinds == {"put", "rmtree", "assert_writable", "external", "activate", "make_backup", "seal_backup",
          "copy back", "unlink"}
\* Every step a command can be made of; what is put somewhere can be held there.
Steps == {s \in [kind : Kinds, at : Nodes, value : Content \cup {""}] :
            s.kind = "put" => s.value \in Contents(s.at)}
Put(at, value) == Step("put", at, value)
AssertWritable == Step("assert_writable", Yaml, "")   \* `at' is not used
External == Step("external", Yaml, "")
CopyBack == Step("copy back", Yaml, "")
UnlinkAbsent == Step("unlink", Yaml, "")
Activate == Step("activate", Yaml, Canonical)
WriteConfig(policy) == Put(Router, policy)
WriteHindsightProfile == Put(Hindsight, "chronalyn")
WriteSecretEnv == Put(Env, "chronalyn")
InstallRouter == External         \* pip or uv, into Hermes' Python
InstallDependencies == External   \* Mnemosyne, and the managed Hindsight
VerifyRouter == External          \* chronalyn status in Hermes' Python
LinkCommand == External

\* backup_configuration: make the directory, copy, write backup.json last.
Backup == <<Step("make_backup", Yaml, ""), Step("seal_backup", Yaml, "")>>

\* Mutant: only the first target is checked.
WritableCanonicalOnly(h) == h[Dir(Canonical)] = Absent \/ h[Marker(Canonical)] # Absent

\* _assert_writable, for every target.
Writable(h) ==
  \A id \in ProviderIds : h[Dir(id)] = Absent \/ h[Marker(id)] # Absent

\* install_plugin_entries: check every target, then write entry by entry.
InstallEntry(id) ==
  <<Put(Dir(id), "present"), Put(Marker(id), "chronalyn"),
    Put(<<id, "__init__.py">>, "chronalyn"), Put(<<id, "plugin.yaml">>, "chronalyn")>>
InstallPluginEntries == <<AssertWritable>> \o InstallEntry(Canonical) \o InstallEntry(Legacy)

\* rmtree of one entry: its files one by one, then the directory.
RemoveEntry(id) == Step("rmtree", Dir(id), Absent)
\* installed_entries: the entries that carry the marker.
InstalledEntries(h) == {id \in ProviderIds : h[Marker(id)] # Absent}

\* Mutant: what was absent stays.
RestoreBackupCopiesOnly == <<CopyBack>>

\* restore_backup: copy back what was copied, then unlink what was absent.
RestoreBackup == <<CopyBack, UnlinkAbsent>>

\* The files that a step of a restore has still to change, and the first of
\* them in the order of managed_backup_paths.
LeftToRestore(h, snapshot, kind) ==
  {p \in Paths : h[p] # snapshot[p] /\ (kind = "unlink" <=> snapshot[p] = Absent)}
FirstOf(left) ==
  {ManagedBackupPaths[i] : i \in {k \in DOMAIN ManagedBackupPaths :
     ManagedBackupPaths[k] \in left /\ \A j \in 1..(k-1) : ManagedBackupPaths[j] \notin left}}

\* One file put back: a copy creates the parent directory, an unlink leaves it.
RestoreFile(h, at, value) ==
  [n \in Nodes |-> IF n = at THEN value
                   ELSE IF value # Absent /\ \E id \in ProviderIds : n = Dir(id) /\ at \in Entry(id)
                        THEN "present" ELSE h[n]]

\* active_memory_providers, from the provider or the providers of config.yaml.
ActiveProviders(h) ==
  CASE h[Yaml] = Absent -> <<>>
    [] h[Yaml] = "both" -> <<"hindsight", Canonical>>
    [] OTHER -> <<h[Yaml]>>

\* discover: Chronalyn beside another provider, or a name given twice.
Conflicts(h) ==
  LET providers == ActiveProviders(h)
      IsProviderId(name) == name \in ProviderIds
      routers == SelectSeq(providers, IsProviderId)
  IN \/ routers # <<>> /\ providers # <<Head(routers)>>
     \/ \E i, j \in 1..Len(providers) : i # j /\ providers[i] = providers[j]

\* load_config: a config without a schema version is a dual one (_upgrade_v1).
LoadConfig(h) == IF h[Router] = "v1" THEN "dual" ELSE h[Router]
=============================================================================
