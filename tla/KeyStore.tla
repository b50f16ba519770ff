------------------------------- MODULE KeyStore -------------------------------
(***************************************************************************)
(* Saved identities (src/saved_key.cpp) and the commands that make and use  *)
(* them: `tailcat genkey` (src/extra_commands.cpp), a server that boots     *)
(* with a saved key (make_server_bootstrap, src/cli.cpp), a client          *)
(* (runtime_identity), and the SSH host key (ensure_ssh_host_key,           *)
(* src/embedded_ssh.cpp), which is saved in the same manner.  Each command  *)
(* is a process; processes run side by side over one file system, and may   *)
(* be killed between any two system calls.                                  *)
(*                                                                          *)
(* A key's file is a sequence of blocks <<key, index>>: the longer the      *)
(* JSON text, the more blocks.  Keys are numbered as they are generated.    *)
(***************************************************************************)
EXTENDS Naturals, Sequences, FiniteSets

CONSTANTS
  Procs,   \* processes that may run side by side
  Jobs,    \* the command lines they may be given
  Names,   \* the names (or paths) of keys
  Regions, \* the regions that DERP maps list
  MaxRuns, \* bound: commands started
  Faults   \* whether commands are killed and system calls fail

(* A command line: of which command, for which key ("" is none), and the    *)
(* options of genkey.                                                       *)
Job == [cmd: {"genkey", "serve", "client", "ssh"}, key: Names \cup {"", "new"},
        list: BOOLEAN, delete: BOOLEAN, client: BOOLEAN, force: BOOLEAN,
        psk: {"unset", "true", "false"}, region: Nat, fixed: BOOLEAN,
        embed: BOOLEAN]

ASSUME KeyStoreAssumption ==
  /\ {"default", "client-default"} \subseteq Names /\ {"", "new"} \cap Names = {}
  /\ Jobs \subseteq Job /\ \A j \in Jobs : j.cmd = "ssh" => j.key \in Names
  /\ Regions \subseteq Nat \ {0} /\ MaxRuns \in Nat /\ Faults \in BOOLEAN

VARIABLES
  dir,     \* the inode each name stands for, or 0
  inodes,  \* what each inode holds
  keys,    \* what was generated: [psk, region]
  proc,    \* each process: its command, where it is, whether it saw no file
  runs,
  printed, \* the addresses genkey has printed: [key, psk, region, kept]
  serving, \* the servers that were started with a saved key, likewise
  torn     \* history: inodes that a command left without the whole key

files == <<dir, inodes, torn>>
facts == <<printed, serving>>
vars == <<files, keys, proc, runs, facts>>

Idle == [pc |-> "idle"]

Init ==
  /\ dir = [n \in Names |-> 0] /\ inodes = <<>> /\ keys = <<>>
  /\ proc = [p \in Procs |-> Idle] /\ runs = 0
  /\ printed = {} /\ serving = {}
  /\ torn = {}

Flag(b) == IF b THEN 1 ELSE 0

(* save_tailcat_key's text for a key.                                       *)
Text(k) ==
  [i \in 1..1 + Flag(keys[k].psk) + Flag(keys[k].region # 0) |-> <<k, i>>]

(* Mutant: whatever follows the JSON value is an error.                     *)
SavedStrict(n) ==
  {k \in 1..Len(keys) : dir[n] # 0 /\ inodes[dir[n]] = Text(k)}

(* What load_saved_tailcat_key makes of the file: the parser stops at the   *)
(* end of the JSON value, what follows it does not matter.                  *)
Saved(n) ==
  {k \in 1..Len(keys) :
     dir[n] # 0 /\ Len(inodes[dir[n]]) >= Len(Text(k))
     /\ SubSeq(inodes[dir[n]], 1, Len(Text(k))) = Text(k)}

(* DERP maps differ from one fetch to the next.                             *)
DerpMaps == SUBSET Regions \ {{}}
SelectDerpRegion(map) == CHOOSE r \in map : \A s \in map : r <= s

(***************************************************************************)
(* The options of genkey.                                                   *)
(***************************************************************************)
Generates(j) == j.region # 0 \/ j.psk # "unset" \/ j.fixed \/ j.embed

(* The options that are to tie the key to its region.                       *)
RegionAsked(j) == TRUE \in {j.region # 0, j.fixed, j.embed}

Mode(j) ==
  IF j.list
  THEN IF j.delete \/ j.client \/ j.key # "" \/ Generates(j)
       THEN "rejected" ELSE "list"
  ELSE IF j.key \in {"", "new"} \/ ((j.delete \/ j.client) /\ Generates(j))
       THEN "rejected"
  ELSE IF j.delete THEN IF j.client THEN "rejected" ELSE "delete"
  ELSE IF j.client THEN IF j.key = "default" THEN "rejected" ELSE "client"
  ELSE "server"

(***************************************************************************)
(* The steps of a process.  A command that fails just ends.                 *)
(***************************************************************************)
At(p, pc) == proc[p].pc = pc
Goto(p, pc) == proc' = [proc EXCEPT ![p].pc = pc]
End(p) == proc' = [proc EXCEPT ![p] = Idle]

Start(p, j) ==
  /\ At(p, "idle") /\ runs < MaxRuns
  /\ runs' = runs + 1
  /\ proc' = [proc EXCEPT ![p] =
                [pc |-> j.cmd, job |-> j, key |-> 0, region |-> 0,
                 inode |-> 0,
                 absent |-> FALSE]]
  /\ UNCHANGED <<files, keys, facts>>

Crash(p) ==
  /\ Faults /\ ~At(p, "idle")
  /\ End(p)
  /\ torn' = IF At(p, "write") THEN torn \cup {proc[p].inode} ELSE torn
  /\ UNCHANGED <<dir, inodes, keys, runs, facts>>

Reject(p) ==
  /\ At(p, "genkey") /\ Mode(proc[p].job) \in {"rejected", "list"}
  /\ End(p)
  /\ UNCHANGED <<files, keys, runs, facts>>

Delete(p) ==
  /\ At(p, "genkey") /\ Mode(proc[p].job) = "delete"
  /\ dir' = [dir EXCEPT ![proc[p].job.key] = 0]
  /\ End(p)
  /\ UNCHANGED <<inodes, keys, runs, torn, facts>>

(* Mutant: --force is not asked for.                                        *)
TestAbsentForced(p) ==
  /\ At(p, "genkey") /\ Mode(proc[p].job) \in {"client", "server"}
  /\ Goto(p, "generate")
  /\ UNCHANGED <<files, keys, runs, facts>>

TestAbsent(p) ==
  /\ At(p, "genkey") /\ Mode(proc[p].job) \in {"client", "server"}
  /\ IF dir[proc[p].job.key] # 0 /\ ~proc[p].job.force
     THEN End(p)
     ELSE proc' = [proc EXCEPT ![p].pc = "generate",
                               ![p].absent = dir[proc[p].job.key] = 0]
  /\ UNCHANGED <<files, keys, runs, facts>>

NewKey(p, psk, persisted, selected, absent) ==
  /\ keys' = Append(keys, [psk |-> psk, region |-> persisted])
  /\ proc' = [proc EXCEPT ![p].pc = "create", ![p].key = Len(keys'),
                          ![p].region = selected, ![p].absent = absent]

(* Mutant: --embed-derp-map does not fix the region.                        *)
PersistsUnlessEmbedded(j) == j.region # 0 \/ j.fixed

(* Whether the region is saved with the key.                                *)
Persists(j) == j.region # 0 \/ j.fixed \/ j.embed

Generate(p) ==
  LET j == proc[p].job IN
  /\ At(p, "generate")
  /\ \/ Mode(j) = "client" /\ NewKey(p, FALSE, 0, 0, proc[p].absent)
     \/ /\ Mode(j) = "server"
        /\ \E map \in DerpMaps :
             LET r == IF j.region = 0 THEN SelectDerpRegion(map) ELSE j.region
             IN IF r \in map
                THEN NewKey(p, j.psk # "false", IF Persists(j) THEN r ELSE 0, r,
                            proc[p].absent)
                ELSE End(p) /\ UNCHANGED keys
  /\ UNCHANGED <<files, runs, facts>>

(* The file is opened with O_CREAT and O_TRUNC.                             *)
Create(p) ==
  /\ At(p, "create")
  /\ LET n == proc[p].job.key
         i == IF dir[n] = 0 THEN Len(inodes) + 1 ELSE dir[n]
     IN /\ dir' = [dir EXCEPT ![n] = i]
        /\ inodes' = IF dir[n] = 0 THEN Append(inodes, <<>>)
                     ELSE [inodes EXCEPT ![i] = <<>>]
        /\ proc' = [proc EXCEPT ![p].pc = "write", ![p].inode = i]
  /\ UNCHANGED <<keys, runs, torn, facts>>

(* One write() from the start of the file, whatever else it holds by now;   *)
(* a full disk takes some of it.                                            *)
Write(p) ==
  /\ At(p, "write")
  /\ LET old == inodes[proc[p].inode]
         text == Text(proc[p].key)
     IN \E n \in (IF Faults THEN 0 ELSE Len(text))..Len(text) :
          /\ inodes' = [inodes EXCEPT ![proc[p].inode] =
                          SubSeq(text, 1, n) \o SubSeq(old, n + 1, Len(old))]
          /\ IF n = Len(text)
             THEN Goto(p, "chmod") /\ torn' = torn \ {proc[p].inode}
             ELSE End(p) /\ torn' = torn \cup {proc[p].inode}
  /\ UNCHANGED <<dir, keys, runs, facts>>

(* make_private() goes by the name, and fails if the file is gone.          *)
Chmod(p) ==
  LET k == proc[p].key
      j == proc[p].job
  IN /\ At(p, "chmod") /\ j.cmd = "genkey"
     /\ End(p)
     /\ printed' = IF dir[j.key] = 0 THEN printed
                   ELSE printed \cup {[key |-> k, psk |-> keys[k].psk,
                                       region |-> proc[p].region,
                                       kept |-> RegionAsked(j)]}
     /\ UNCHANGED <<files, keys, runs, serving>>

(* A server or a client without --key looks for its default key.            *)
ChooseKey(p) ==
  LET j == proc[p].job
      default == IF j.cmd = "serve" THEN "default" ELSE "client-default"
  IN /\ proc[p].pc \in {"serve", "client"}
     /\ IF j.key = "new" \/ (j.key = "" /\ dir[default] = 0)
        THEN End(p)
        ELSE proc' = [proc EXCEPT ![p].pc = "load", ![p].job.key =
                        IF j.key = "" THEN default ELSE j.key]
     /\ UNCHANGED <<files, keys, runs, facts>>

Load(p) ==
  LET j == proc[p].job IN
  /\ At(p, "load")
  /\ \/ /\ j.cmd = "client" \/ Saved(j.key) = {}
        /\ End(p)
     \/ /\ j.cmd = "serve"
        /\ \E k \in Saved(j.key) :
             IF j.psk = "true" /\ ~keys[k].psk THEN End(p)
             ELSE proc' = [proc EXCEPT ![p].pc = "region", ![p].key = k]
  /\ UNCHANGED <<files, keys, runs, facts>>

Bootstrap(p) ==
  LET k == proc[p].key
      saved == keys[k].region
  IN /\ At(p, "region")
     /\ End(p)
     /\ \E map \in DerpMaps :
          serving' = IF saved \notin map \cup {0} THEN serving
                     ELSE serving \cup
                       {[key |-> k,
                         region |-> IF saved # 0 THEN saved
                                    ELSE SelectDerpRegion(map),
                         plain |-> proc[p].job.psk = "unset",
                         psk |-> keys[k].psk /\ proc[p].job.psk # "false"]}
     /\ UNCHANGED <<files, keys, runs, printed>>

(* ensure_ssh_host_key: a key is made when there is none, its mode does not *)
(* matter, and every session later loads it by its name.                    *)
EnsureHostKey(p) ==
  /\ At(p, "ssh")
  /\ IF dir[proc[p].job.key] # 0 THEN End(p) /\ UNCHANGED keys
     ELSE NewKey(p, FALSE, 0, 0, TRUE)
  /\ UNCHANGED <<files, runs, facts>>

HostKeyReady(p) ==
  /\ At(p, "chmod") /\ proc[p].job.cmd = "ssh"
  /\ End(p)
  /\ UNCHANGED <<files, keys, runs, facts>>

Step(p) ==
  \/ \E j \in Jobs : Start(p, j)
  \/ Crash(p) \/ Reject(p) \/ Delete(p) \/ TestAbsent(p) \/ Generate(p)
  \/ Create(p) \/ Write(p) \/ Chmod(p) \/ ChooseKey(p) \/ Load(p)
  \/ Bootstrap(p) \/ EnsureHostKey(p) \/ HostKeyReady(p)

Next == \E p \in Procs : Step(p)

Spec == Init /\ [][Next]_vars

(***************************************************************************)
(* Properties.                                                              *)
(***************************************************************************)
(* A saved key, the SSH host key included, is replaced or removed only by   *)
(* genkey with --force or --delete ("key file already exists; use --force   *)
(* to replace it"), or by a command that looked for it before it was there, *)
(* whichever options are combined and wherever a command is killed or       *)
(* fails.                                                                   *)
ReplacedOnlyByForce ==
  [][\A n \in Names :
       Saved(n) # {} /\ Saved(n)' # Saved(n) =>
         \E p \in Procs : ~At(p, "idle") /\
           (proc[p].job.force \/ proc[p].job.delete \/ proc[p].absent)]_vars

(* Commands that race over one name leave a file that loads, as soon as     *)
(* none of them is about to write it: the truncations come before the       *)
(* writes or a write covers the file, and the rest of a longer text behind  *)
(* a shorter one is not read.  (A command that is killed before its write,  *)
(* or whose write fails, leaves a file that does not.)                      *)
RacedFileLoads ==
  \A n \in Names :
    dir[n] \notin torn \cup {0}
      /\ (\A p \in Procs : At(p, "write") => proc[p].inode # dir[n])
      => Saved(n) # {}

(* An address that genkey printed for a key with a fixed region is the      *)
(* address of every server that runs on this key with no --psk of its own:  *)
(* the region is the same whatever map the server fetches, and the address  *)
(* carries a PSK if and only if the server expects it.                      *)
AddressReachesServer ==
  \A a \in printed, s \in serving :
    a.key = s.key /\ a.kept =>
      a.region = s.region /\ (s.plain => s.psk = a.psk)

=============================================================================
