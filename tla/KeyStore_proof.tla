---------------------------- MODULE KeyStore_proof ----------------------------
(***************************************************************************)
(* Proofs about KeyStore: any number of commands, of any options, over any  *)
(* names, killed anywhere.                                                  *)
(***************************************************************************)
EXTENDS KeyStore, SequenceTheorems, TLAPS

(* A process between its first step and its last.                           *)
Running == [pc: {"genkey", "serve", "client", "ssh", "generate", "create",
                 "write", "chmod", "load", "region"},
            job: Job, key: Nat, region: Nat, inode: Nat, absent: BOOLEAN]

(* A block of a file, and what was generated under a number.                *)
Block == Nat \X Nat
Key == [psk: BOOLEAN, region: Nat]

(* The types of the variables.                                              *)
TypeOK ==
  /\ dir \in [Names -> Nat]
  /\ inodes \in Seq(Seq(Block))
  /\ keys \in Seq(Key)
  /\ proc \in [Procs -> Running \cup {Idle}]

(* What the files hold.                                                     *)
Files(d, files_, ks) ==
  /\ \A n \in Names : d[n] \in 0..Len(files_)
  /\ \A i \in 1..Len(files_) : \A b \in 1..Len(files_[i]) :
       files_[i][b][1] \in 1..Len(ks)

(* What a process that is about to write or has written stands on.          *)
Entitled(q, ks, m) ==
  /\ q.pc = "ssh" => q.job.cmd = "ssh" /\ q.job.key \in Names
  /\ q.pc = "generate" =>
       /\ Mode(q.job) \in {"client", "server"}
       /\ q.job.force \/ q.absent
  /\ q.pc \in {"create", "write", "chmod"} =>
       /\ q.key \in 1..Len(ks) /\ q.job.key \in Names
       /\ q.job.force \/ q.absent
       /\ q.job.cmd = "genkey" /\ RegionAsked(q.job) =>
            q.region = ks[q.key].region /\ q.region # 0
  /\ q.pc = "write" => q.inode \in 1..m
  /\ q.pc = "region" => q.key \in 1..Len(ks)

(* s begins with the whole text of some key: the parser reads that one.     *)
Loads(s) ==
  \E k \in 1..Len(keys) : Len(s) >= Len(Text(k)) /\ SubSeq(s, 1,
      Len(Text(k))) = Text(k)

(* Every file that was created loads, unless a process is about to write it *)
(* or a command left it torn.                                               *)
Whole ==
  \A i \in 1..Len(inodes) :
    \/ i \in torn
    \/ \E p \in Procs : At(p, "write") /\ proc[p].inode = i
    \/ Loads(inodes[i])

(* The addresses that were printed and the servers that were started agree  *)
(* with the keys they are of.                                               *)
Addresses ==
  /\ \A a \in printed :
       /\ a.key \in 1..Len(keys) /\ a.psk = keys[a.key].psk
       /\ a.kept => a.region = keys[a.key].region /\ a.region # 0
  /\ \A s \in serving :
       /\ s.key \in 1..Len(keys)
       /\ keys[s.key].region # 0 => s.region = keys[s.key].region
       /\ s.plain => s.psk = keys[s.key].psk

(* What every step keeps, besides the types.                                *)
Kept ==
  /\ Files(dir, inodes, keys)
  /\ \A p \in Procs : Entitled(proc[p], keys, Len(inodes))
  /\ Whole /\ Addresses

(* The inductive invariant.                                                 *)
Inv == TypeOK /\ Kept

(* The text of any key is a non-empty sequence of blocks that carry the     *)
(* key's number.                                                            *)
LEMMA Blocks ==
  ASSUME NEW c, NEW k \in Nat
  PROVE  LET t == [i \in 1..1 + Flag(c.psk) + Flag(c.region # 0) |-> <<k, i>>]
         IN /\ t \in Seq(Block) /\ Len(t) >= 1
            /\ \A i \in 1..Len(t) : t[i] = <<k, i>>
<1> DEFINE n == 1 + Flag(c.psk) + Flag(c.region # 0)
           t == [i \in 1..n |-> <<k, i>>]
<1>1. n \in Nat /\ n >= 1
  BY DEF Flag
<1> HIDE DEF n
<1>2. \A i \in 1..n : <<k, i>> \in Block
  BY DEF Block
<1>3. t \in Seq(Block) /\ Len(t) = n /\ \A i \in 1..n : t[i] = <<k, i>>
  BY <1>1, <1>2
<1>4. QED
  BY <1>1, <1>3 DEF n

(* Likewise of a key that was generated, in this state...                   *)
LEMMA TextOf ==
  ASSUME TypeOK, NEW k \in 1..Len(keys)
  PROVE  /\ keys[k] \in Key
         /\ Text(k) \in Seq(Block) /\ Len(Text(k)) >= 1
         /\ \A i \in 1..Len(Text(k)) : Text(k)[i] = <<k, i>>
<1>1. keys[k] \in Key /\ k \in Nat
  BY ElementOfSeq DEF TypeOK
<1>2. QED
  BY <1>1, Blocks DEF Text

(* ... and in the next.                                                     *)
LEMMA TextOfNext ==
  ASSUME TypeOK', NEW k \in 1..Len(keys')
  PROVE  /\ Text(k)' \in Seq(Block) /\ Len(Text(k)') >= 1
         /\ \A i \in 1..Len(Text(k)') : Text(k)'[i] = <<k, i>>
<1>1. k \in Nat
  BY DEF TypeOK
<1>2. QED
  BY <1>1, Blocks DEF Text

(* The record of a process that is not idle.                                *)
LEMMA RunningType ==
  ASSUME TypeOK, NEW p \in Procs
  PROVE  /\ proc[p] \in Running \cup {Idle}
         /\ ~At(p, "idle") => proc[p] \in Running
         /\ \A q \in Running \cup {Idle} :
              [proc EXCEPT ![p] = q] \in [Procs -> Running \cup {Idle}]
  BY DEF TypeOK, At, Idle

(* A process that is not writing moves on; the files and the keys stay.     *)
LEMMA Moves ==
  ASSUME Inv, NEW p \in Procs, ~At(p, "write"),
         NEW q \in Running \cup {Idle}, q.pc # "write",
         Entitled(q, keys, Len(inodes)), proc' = [proc EXCEPT ![p] = q],
         UNCHANGED <<files, keys>>
  PROVE  /\ TypeOK' /\ Whole' /\ Files(dir, inodes, keys)'
         /\ \A r \in Procs : Entitled(proc[r], keys, Len(inodes))'
<1> USE DEF files
<1>1. TypeOK'
  BY RunningType DEF Inv, TypeOK
<1>2. \A r \in Procs : proc'[r] = IF r = p THEN q ELSE proc[r]
  BY DEF Inv, TypeOK
<1>3. \A r \in Procs : Entitled(proc'[r], keys, Len(inodes))
  BY <1>2 DEF Inv, Kept
<1>4. \A r \in Procs : At(r, "write") => r # p /\ proc'[r] = proc[r]
  BY <1>2
<1>5. \A i : Loads(i) => Loads(i)'
  BY DEF Loads, Text
<1>6. Whole'
  BY <1>4, <1>5 DEF Inv, Kept, Whole, At
<1>7. Files(dir, inodes, keys)'
  BY DEF Inv, Kept
<1>8. QED
  BY <1>1, <1>3, <1>6, <1>7

(* Likewise if nothing was printed or started either.                       *)
LEMMA Quiet ==
  ASSUME Inv, NEW p \in Procs, ~At(p, "write"),
         NEW q \in Running \cup {Idle}, q.pc # "write",
         Entitled(q, keys, Len(inodes)), proc' = [proc EXCEPT ![p] = q],
         UNCHANGED <<files, keys, facts>>
  PROVE  Inv'
<1>1. Addresses'
  BY DEF Inv, Kept, Addresses, facts
<1>2. UNCHANGED <<files, keys>>
  OBVIOUS
<1>3. QED
  BY <1>1, <1>2, Moves DEF Inv, Kept

(* A process that ended stands on nothing.                                  *)
LEMMA IdleEntitled ==
  /\ Idle \in Running \cup {Idle} /\ Idle.pc = "idle"
  /\ \A ks, m : Entitled(Idle, ks, m)
BY DEF Idle, Entitled

(* The steps that change nothing but the process that takes them.           *)
LEMMA QuietSteps ==
  ASSUME Inv, NEW p \in Procs
  PROVE  /\ (\E j \in Jobs : Start(p, j)) => Inv'
         /\ Reject(p) => Inv'
         /\ TestAbsent(p) => Inv'
         /\ ChooseKey(p) => Inv'
         /\ Load(p) => Inv'
         /\ HostKeyReady(p) => Inv'
<1>e. ASSUME ~At(p, "write"), End(p), UNCHANGED <<files, keys, facts>>
      PROVE  Inv'
  BY <1>e, IdleEntitled, Quiet DEF End
<1>0. ~At(p, "idle") => proc[p] \in Running
  BY RunningType DEF Inv
<1>1. ASSUME NEW j \in Jobs, Start(p, j) PROVE Inv'
  <2> DEFINE q == [pc |-> j.cmd, job |-> j, key |-> 0, region |-> 0,
                   inode |-> 0, absent |-> FALSE]
  <2>0. j \in Job /\ (j.cmd = "ssh" => j.key \in Names)
    BY KeyStoreAssumption
  <2>2. j.cmd \in {"genkey", "serve", "client", "ssh"}
    BY <2>0 DEF Job
  <2>1. q \in Running /\ q.pc = j.cmd /\ q.job = j
    BY <2>0, <2>2 DEF Running
  <2>3. proc' = [proc EXCEPT ![p] = q] /\ ~At(p, "write")
    BY <1>1 DEF Start, At
  <2>u. UNCHANGED <<files, keys, facts>>
    BY <1>1 DEF Start
  <2> HIDE DEF q
  <2>4. Entitled(q, keys, Len(inodes))
    BY <2>0, <2>1, <2>2 DEF Entitled
  <2>5. QED
    BY <2>1, <2>2, <2>3, <2>4, <2>u, Quiet
<1>2. Reject(p) => Inv'
  BY <1>e DEF Reject, At
<1>3. ASSUME TestAbsent(p) PROVE Inv'
  <2>1. CASE dir[proc[p].job.key] # 0 /\ ~proc[p].job.force
    BY <1>3, <1>e, <2>1 DEF TestAbsent, At
  <2>2. CASE ~(dir[proc[p].job.key] # 0 /\ ~proc[p].job.force)
    <3> DEFINE a == dir[proc[p].job.key] = 0
               q == [proc[p] EXCEPT !.pc = "generate", !.absent = a]
    <3>1. /\ proc' = [proc EXCEPT ![p] = q] /\ At(p, "genkey")
          /\ Mode(proc[p].job) \in {"client", "server"}
      BY <1>3, <2>2 DEF TestAbsent
    <3>2. proc[p] \in Running
      BY <1>0, <3>1 DEF At
    <3>3. (~a => proc[p].job.force) /\ a \in BOOLEAN
      BY <2>2
    <3> HIDE DEF a
    <3>4. q \in Running /\ q.pc = "generate" /\ q.job = proc[p].job
      BY <3>2, <3>3 DEF Running
    <3>5. a => q.absent
      BY <3>2 DEF Running
    <3> HIDE DEF q
    <3>6. Entitled(q, keys, Len(inodes))
      BY <3>1, <3>3, <3>4, <3>5 DEF Entitled
    <3>7. UNCHANGED <<files, keys, facts>> /\ ~At(p, "write")
      BY <1>3, <3>1 DEF TestAbsent, At
    <3>8. QED
      BY <3>1, <3>4, <3>6, <3>7, Quiet
  <2>3. QED
    BY <2>1, <2>2
<1>4. ASSUME ChooseKey(p) PROVE Inv'
  <2> DEFINE j == proc[p].job
             default == IF j.cmd = "serve" THEN "default" ELSE "client-default"
  <2>0. /\ UNCHANGED <<files, keys, facts>> /\ ~At(p, "write")
        /\ proc[p] \in Running
    BY <1>0, <1>4 DEF ChooseKey, At
  <2>1. CASE j.key = "new" \/ (j.key = "" /\ dir[default] = 0)
    BY <1>4, <1>e, <2>0, <2>1 DEF ChooseKey
  <2>2. CASE ~(j.key = "new" \/ (j.key = "" /\ dir[default] = 0))
    <3> DEFINE k == IF j.key = "" THEN default ELSE j.key
               q == [proc[p] EXCEPT !.pc = "load", !.job.key = k]
    <3>1. proc' = [proc EXCEPT ![p] = q]
      BY <1>4, <2>2 DEF ChooseKey
    <3>2. k \in Names \cup {"", "new"}
      BY <2>0, KeyStoreAssumption DEF Running, Job
    <3> HIDE DEF k
    <3>3. q \in Running /\ q.pc = "load"
      BY <2>0, <3>2 DEF Running, Job
    <3> HIDE DEF q
    <3>4. Entitled(q, keys, Len(inodes))
      BY <3>3 DEF Entitled
    <3>5. QED
      BY <2>0, <3>1, <3>3, <3>4, Quiet
  <2>3. QED
    BY <2>1, <2>2
<1>5. ASSUME Load(p) PROVE Inv'
  <2>0. /\ UNCHANGED <<files, keys, facts>> /\ ~At(p, "write")
        /\ proc[p] \in Running
    BY <1>0, <1>5 DEF Load, At
  <2>1. CASE End(p)
    BY <2>0, <2>1, <1>e
  <2>2. ASSUME NEW k \in Nat, k \in 1..Len(keys),
               proc' = [proc EXCEPT ![p].pc = "region", ![p].key = k]
        PROVE  Inv'
    <3> DEFINE q == [proc[p] EXCEPT !.pc = "region", !.key = k]
    <3>1. proc[p] \in Running /\ k \in Nat
      BY <2>0
    <3>2. q \in Running /\ q.pc = "region" /\ q.key = k
      BY <3>1 DEF Running
    <3>3. proc' = [proc EXCEPT ![p] = q] /\ k \in 1..Len(keys)
      BY <2>2
    <3> HIDE DEF q
    <3>4. Entitled(q, keys, Len(inodes))
      BY <3>2, <3>3 DEF Entitled
    <3>5. QED
      BY <2>0, <3>2, <3>3, <3>4, Quiet
  <2>3. End(p) \/ \E k \in Saved(proc[p].job.key) :
                    proc' = [proc EXCEPT ![p].pc = "region", ![p].key = k]
    BY <1>5 DEF Load
  <2>4. \A k \in Saved(proc[p].job.key) : k \in 1..Len(keys)
    BY Zenon DEF Saved
  <2>5. keys \in Seq(Key)
    BY DEF Inv, TypeOK
  <2>6. \A k \in 1..Len(keys) : k \in Nat
    BY <2>5
  <2>7. QED
    BY <2>1, <2>2, <2>3, <2>4, <2>6
<1>6. HostKeyReady(p) => Inv'
  BY <1>e DEF HostKeyReady, At
<1>7. QED
  BY <1>1, <1>2, <1>3, <1>4, <1>5, <1>6

(* A new key is generated by a process that may write it.                   *)
LEMMA NewKeyInv ==
  ASSUME Inv, NEW p \in Procs, ~At(p, "idle"), ~At(p, "write"),
         NEW psk \in BOOLEAN, NEW persisted \in Nat, NEW selected \in Nat,
         NEW absent \in BOOLEAN, NewKey(p, psk, persisted, selected, absent),
         UNCHANGED <<files, facts>>,
         proc[p].job.key \in Names, proc[p].job.force \/ absent,
         proc[p].job.cmd = "genkey" /\ RegionAsked(proc[p].job)
           => selected = persisted /\ selected # 0
  PROVE  Inv'
<1> USE DEF files, facts
<1> DEFINE k == Len(keys) + 1
           q == [proc[p] EXCEPT !.pc = "create", !.key = k,
                                !.region = selected, !.absent = absent]
<1>1. keys \in Seq(Key) /\ Len(keys) \in Nat
  BY DEF Inv, TypeOK
<1>2. /\ keys' = Append(keys, [psk |-> psk, region |-> persisted])
      /\ keys' \in Seq(Key)
      /\ Len(keys') = k /\ keys'[k].region = persisted
      /\ \A j \in 1..Len(keys) : keys'[j] = keys[j]
  BY <1>1 DEF NewKey, Key
<1>3. proc' = [proc EXCEPT ![p] = q]
  BY <1>2 DEF NewKey
<1>r. proc[p] \in Running /\ k \in Nat
  BY <1>1, RunningType DEF Inv
<1>4. /\ q \in Running /\ q.job = proc[p].job /\ q.key = k
      /\ q.pc = "create" /\ q.region = selected
      /\ q.job.force \/ q.absent
  <2>1. q \in Running
    BY <1>r DEF Running
  <2>2. /\ q.job = proc[p].job /\ q.key = k
        /\ q.pc = "create" /\ q.region = selected
    BY <1>r DEF Running
  <2>3. absent => q.absent
    BY <1>r DEF Running
  <2>4. QED
    BY <2>1, <2>2, <2>3
<1> HIDE DEF q
<1>5. TypeOK'
  BY <1>2, <1>3, <1>4, RunningType DEF Inv, TypeOK
<1>6. \A r \in Procs : proc'[r] = IF r = p THEN q ELSE proc[r]
  BY <1>3 DEF Inv, TypeOK
<1>7. Len(inodes) \in Nat
  BY DEF Inv, TypeOK
<1>8. Entitled(q, keys', Len(inodes))
  BY <1>1, <1>2, <1>4 DEF Entitled
<1>9. \A r \in Procs : Entitled(proc'[r], keys', Len(inodes))
  <2> SUFFICES ASSUME NEW r \in Procs, r # p PROVE Entitled(proc[r], keys',
      Len(inodes))
    BY <1>6, <1>8
  <2>1. Entitled(proc[r], keys, Len(inodes))
    BY DEF Inv, Kept
  <2>2. Len(keys') \in Nat /\ Len(keys) <= Len(keys')
    BY <1>1, <1>2
  <2>3. QED
    BY <1>1, <1>2, <1>7, <2>1, <2>2 DEF Entitled
<1>10. \A i : Loads(i) => Loads(i)'
  <2>1. \A j \in 1..Len(keys) : Text(j)' = Text(j) /\ j \in 1..Len(keys')
    BY <1>1, <1>2 DEF Text
  <2>2. QED
    BY <2>1 DEF Loads
<1>11. \A r \in Procs : At(r, "write") => proc'[r] = proc[r]
  BY <1>6
<1>12. Whole'
  BY <1>10, <1>11 DEF Inv, Kept, Whole, At
<1>13. Files(dir, inodes, keys')
  BY <1>1, <1>2 DEF Inv, Kept, Files
<1>14. Addresses'
  BY <1>1, <1>2 DEF Inv, Kept, Addresses
<1>15. QED
  BY <1>5, <1>9, <1>12, <1>13, <1>14 DEF Inv, Kept

(* A process is killed: the file that it was about to write is torn.        *)
LEMMA CrashInv ==
  ASSUME Inv, NEW p \in Procs, Crash(p)
  PROVE  Inv'
<1>1. CASE ~At(p, "write")
  <2>1. UNCHANGED <<files, keys, facts>>
    BY <1>1 DEF Crash, files
  <2>2. proc' = [proc EXCEPT ![p] = Idle]
    BY DEF Crash, End
  <2>3. QED
    BY <1>1, <2>1, <2>2, IdleEntitled, Quiet
<1>2. CASE At(p, "write")
  <2>1. /\ UNCHANGED <<dir, inodes, keys, facts>>
        /\ proc' = [proc EXCEPT ![p] = Idle]
        /\ torn' = torn \cup {proc[p].inode}
    BY <1>2 DEF Crash, End
  <2>2. TypeOK'
    BY <2>1, RunningType, IdleEntitled DEF Inv, TypeOK
  <2>3. \A r \in Procs : proc'[r] = IF r = p THEN Idle ELSE proc[r]
    BY <2>1 DEF Inv, TypeOK
  <2>4. \A r \in Procs : Entitled(proc'[r], keys, Len(inodes))
    BY <2>3, IdleEntitled DEF Inv, Kept
  <2>5. \A i : Loads(i) => Loads(i)'
    BY <2>1 DEF Loads, Text
  <2>6. Whole'
    BY <2>1, <2>3, <2>5 DEF Inv, Kept, Whole, At
  <2>7. Files(dir, inodes, keys)' /\ Addresses'
    BY <2>1 DEF Inv, Kept, Addresses, facts
  <2>8. QED
    BY <2>1, <2>2, <2>4, <2>6, <2>7 DEF Inv, Kept
<1>3. QED
  BY <1>1, <1>2

(* genkey --delete removes a name, not what a process holds open.           *)
LEMMA DeleteInv ==
  ASSUME Inv, NEW p \in Procs, Delete(p)
  PROVE  Inv'
<1>1. /\ UNCHANGED <<inodes, keys, torn, facts>>
      /\ proc' = [proc EXCEPT ![p] = Idle] /\ At(p, "genkey")
      /\ dir' = [dir EXCEPT ![proc[p].job.key] = 0]
  BY DEF Delete, End
<1>2. dir' \in [Names -> Nat]
      /\ \A n \in Names : dir'[n] = dir[n] \/ dir'[n] = 0
  BY <1>1 DEF Inv, TypeOK
<1>3. TypeOK'
  BY <1>1, <1>2, RunningType, IdleEntitled DEF Inv, TypeOK
<1>4. \A r \in Procs : proc'[r] = IF r = p THEN Idle ELSE proc[r]
  BY <1>1 DEF Inv, TypeOK
<1>5. \A r \in Procs : Entitled(proc'[r], keys, Len(inodes))
  BY <1>4, IdleEntitled DEF Inv, Kept
<1>6. \A i : Loads(i) => Loads(i)'
  BY <1>1 DEF Loads, Text
<1>7. \A r \in Procs : At(r, "write") => proc'[r] = proc[r]
  BY <1>1, <1>4 DEF At
<1>8. Whole'
  BY <1>1, <1>6, <1>7 DEF Inv, Kept, Whole, At
<1>9. Addresses'
  BY <1>1 DEF Inv, Kept, Addresses, facts
<1>10. Len(inodes) \in Nat /\ Files(dir, inodes, keys)
  <2>1. inodes \in Seq(Seq(Block))
    BY DEF Inv, TypeOK
  <2>2. QED
    BY <2>1 DEF Inv, Kept
<1>11. Files(dir', inodes, keys)
  BY <1>2, <1>10 DEF Files
<1>12. QED
  BY <1>1, <1>3, <1>5, <1>8, <1>9, <1>11 DEF Inv, Kept

(* The options of genkey: a region that was asked for is saved; a key for a *)
(* client has none; whatever writes or removes a key has a name.            *)
LEMMA AskedRegion ==
  ASSUME NEW j \in Job
  PROVE  /\ RegionAsked(j) <=> Persists(j)
         /\ Mode(j) = "client" => ~RegionAsked(j)
         /\ Mode(j) \in {"client", "server", "delete"} => j.key \in Names
         /\ Mode(j) = "delete" => j.delete
<1>1. /\ j.region \in Nat /\ j.key \in Names \cup {"", "new"}
      /\ j.fixed \in BOOLEAN /\ j.embed \in BOOLEAN
  BY DEF Job
<1>2. RegionAsked(j) <=> Persists(j)
  BY <1>1 DEF RegionAsked, Persists
<1>3. Mode(j) = "client" => ~Persists(j)
  BY <1>1 DEF Mode, Generates, Persists
<1>4. Mode(j) \in {"client", "server", "delete"} => j.key \in Names
  BY <1>1 DEF Mode
<1>5. Mode(j) = "delete" => j.delete
  BY DEF Mode
<1>6. QED
  BY <1>2, <1>3, <1>4, <1>5

(* The SSH host key is generated when there is no file.                     *)
LEMMA EnsureHostKeyInv ==
  ASSUME Inv, NEW p \in Procs, EnsureHostKey(p)
  PROVE  Inv'
<1>1. UNCHANGED <<files, facts>> /\ At(p, "ssh")
  BY DEF EnsureHostKey
<1>2. ~At(p, "idle") /\ ~At(p, "write")
  BY <1>1 DEF At
<1>3. proc[p].job.cmd = "ssh" /\ proc[p].job.key \in Names
  BY <1>1 DEF Inv, Kept, Entitled, At
<1>4. CASE UNCHANGED keys /\ End(p)
  BY <1>1, <1>2, <1>4, IdleEntitled, Quiet DEF End
<1>5. CASE NewKey(p, FALSE, 0, 0, TRUE)
  BY <1>1, <1>2, <1>3, <1>5, NewKeyInv
<1>6. QED
  BY <1>4, <1>5 DEF EnsureHostKey

(* genkey's key: the region that is saved is the one that is printed.       *)
LEMMA GenerateInv ==
  ASSUME Inv, NEW p \in Procs, Generate(p)
  PROVE  Inv'
<1> DEFINE j == proc[p].job
<1>1. UNCHANGED <<files, facts>> /\ At(p, "generate")
  BY DEF Generate
<1>2. ~At(p, "idle") /\ ~At(p, "write") /\ proc[p] \in Running
  BY <1>1, RunningType DEF At, Inv
<1>m. Mode(j) \in {"client", "server"}
  BY <1>1 DEF Inv, Kept, Entitled, At
<1>f. j.force \/ proc[p].absent
  BY <1>1 DEF Inv, Kept, Entitled, At
<1>3. j \in Job
  BY <1>2 DEF Running
<1>a. proc[p].absent \in BOOLEAN
  BY <1>2 DEF Running
<1>4. j.key \in Names
  BY <1>3, <1>m, AskedRegion
<1>5. ASSUME Mode(j) = "client", NewKey(p, FALSE, 0, 0, proc[p].absent)
      PROVE  Inv'
  <2>1. ~RegionAsked(j)
    BY <1>3, <1>5, AskedRegion
  <2>2. QED
    BY <1>1, <1>2, <1>a, <1>f, <1>4, <1>5, <2>1, NewKeyInv
<1>6. ASSUME Mode(j) = "server", NEW map \in DerpMaps, NEW r,
             r = IF j.region = 0 THEN SelectDerpRegion(map) ELSE j.region,
             r \in map,
             NewKey(p, j.psk # "false", IF Persists(j) THEN r ELSE 0, r,
                    proc[p].absent)
      PROVE  Inv'
  <2> DEFINE b == j.psk # "false"
             s == IF Persists(j) THEN r ELSE 0
             a == proc[p].absent
  <2>1. r \in Nat /\ r # 0
    BY <1>6, KeyStoreAssumption DEF DerpMaps
  <2>2. b \in BOOLEAN /\ s \in Nat
    BY <2>1
  <2>3. RegionAsked(j) => r = s /\ r # 0
    BY <1>3, <2>1, AskedRegion
  <2>4. NewKey(p, b, s, r, a)
    BY <1>6
  <2>5. a \in BOOLEAN /\ (j.force \/ a)
    BY <1>a, <1>f
  <2> HIDE DEF b, s, a
  <2>6. QED
    BY <1>1, <1>2, <1>4, <2>1, <2>2, <2>3, <2>4, <2>5, NewKeyInv
<1>7. CASE End(p) /\ UNCHANGED keys
  BY <1>1, <1>2, <1>7, IdleEntitled, Quiet DEF End
<1>8. QED
  BY <1>5, <1>6, <1>7 DEF Generate

(* The address of a new key is printed.                                     *)
LEMMA ChmodInv ==
  ASSUME Inv, NEW p \in Procs, Chmod(p)
  PROVE  Inv'
<1> DEFINE k == proc[p].key
           j == proc[p].job
           a == [key |-> k, psk |-> keys[k].psk, region |-> proc[p].region,
                 kept |-> RegionAsked(j)]
<1>1. /\ UNCHANGED <<files, keys>> /\ ~At(p, "write")
      /\ proc' = [proc EXCEPT ![p] = Idle] /\ UNCHANGED serving
  BY DEF Chmod, At, End
<1>2. printed' \subseteq printed \cup {a}
  BY DEF Chmod
<1>3. k \in 1..Len(keys)
      /\ (RegionAsked(j) => proc[p].region = keys[k].region
                            /\ proc[p].region # 0)
  <2>1. At(p, "chmod") /\ j.cmd = "genkey"
    BY DEF Chmod
  <2>2. Entitled(proc[p], keys, Len(inodes))
    BY DEF Inv, Kept
  <2>3. QED
    BY <2>1, <2>2 DEF Entitled, At
<1>4. Addresses'
  BY <1>1, <1>2, <1>3 DEF Inv, Kept, Addresses
<1>5. QED
  BY <1>1, <1>4, Moves, IdleEntitled DEF Inv, Kept

(* A server is started on a saved key.                                      *)
LEMMA BootstrapInv ==
  ASSUME Inv, NEW p \in Procs, Bootstrap(p)
  PROVE  Inv'
<1> DEFINE k == proc[p].key
           saved == keys[k].region
           s(map) == [key |-> k,
                      region |-> IF saved # 0 THEN saved
                                 ELSE SelectDerpRegion(map),
                      plain |-> proc[p].job.psk = "unset",
                      psk |-> keys[k].psk /\ proc[p].job.psk # "false"]
<1>1. /\ UNCHANGED <<files, keys>> /\ ~At(p, "write")
      /\ proc' = [proc EXCEPT ![p] = Idle] /\ UNCHANGED printed
  BY DEF Bootstrap, At, End
<1>2. PICK map \in DerpMaps : serving' \subseteq serving \cup {s(map)}
  BY DEF Bootstrap
<1>3. k \in 1..Len(keys) /\ proc[p] \in Running
  BY RunningType DEF Bootstrap, Inv, Kept, Entitled, At
<1>4. keys[k].psk \in BOOLEAN
  BY <1>3, TextOf DEF Inv, Key
<1>5. s(map).plain => s(map).psk = keys[k].psk
  BY <1>3, <1>4
<1>6. Addresses'
  BY <1>1, <1>2, <1>3, <1>5 DEF Inv, Kept, Addresses
<1>7. QED
  BY <1>1, <1>6, Moves, IdleEntitled DEF Inv, Kept

(* Writing the first n elements of text over old: what is there comes from  *)
(* either, and once all of text is written it is what is there first.       *)
LEMMA Overwritten ==
  ASSUME NEW S, NEW text \in Seq(S), NEW old \in Seq(S),
         NEW n \in 0..Len(text)
  PROVE  LET s == SubSeq(text, 1, n) \o SubSeq(old, n + 1, Len(old))
         IN /\ s \in Seq(S)
            /\ \A i \in 1..Len(s) :
                 (\E j \in 1..Len(text) : s[i] = text[j])
                   \/ \E j \in 1..Len(old) : s[i] = old[j]
            /\ n = Len(text) => /\ Len(s) >= Len(text)
                                /\ SubSeq(s, 1, Len(text)) = text
<1> DEFINE a == SubSeq(text, 1, n)
           b == SubSeq(old, n + 1, Len(old))
<1>0. Len(text) \in Nat /\ Len(old) \in Nat /\ n \in Nat /\ n <= Len(text)
  OBVIOUS
<1>1. a \in Seq(S) /\ Len(a) = n /\ \A i \in 1..n : a[i] = text[i]
  BY <1>0, SubSeqProperties
<1>2. /\ b \in Seq(S) /\ Len(b) = IF n + 1 <= Len(old) THEN Len(old) - n ELSE 0
      /\ \A i \in 1..Len(b) : b[i] = old[n + i]
  <2>1. \A i \in n + 1..Len(old) : old[i] \in S
    BY <1>0
  <2>2. n + 1 \in Int /\ Len(old) \in Int
    BY <1>0
  <2> HIDE DEF b
  <2>3. /\ b \in Seq(S)
        /\ Len(b) = IF n + 1 <= Len(old) THEN Len(old) - (n + 1) + 1 ELSE 0
        /\ \A i \in 1..Len(old) - (n + 1) + 1 : b[i] = old[n + 1 + i - 1]
    BY <2>1, <2>2, SubSeqProperties DEF b
  <2>4. Len(b) = IF n + 1 <= Len(old) THEN Len(old) - n ELSE 0
    BY <1>0, <2>3
  <2>5. ASSUME NEW i \in 1..Len(b) PROVE b[i] = old[n + i]
    <3>1. i \in 1..Len(old) - (n + 1) + 1 /\ n + 1 + i - 1 = n + i
      BY <1>0, <2>4
    <3>2. QED
      BY <2>3, <3>1
  <2>6. QED
    BY <2>3, <2>4, <2>5
<1> HIDE DEF a, b
<1> DEFINE s == a \o b
<1>3. /\ s \in Seq(S) /\ Len(s) = n + Len(b)
      /\ \A i \in 1..Len(s) : s[i] = IF i <= n THEN a[i] ELSE b[i - n]
  <2>1. a \in Seq(S) /\ b \in Seq(S) /\ Len(a) = n
    BY <1>1, <1>2
  <2>2. QED
    BY <2>1, ConcatProperties, ZenonT(60)
<1> HIDE DEF s
<1>4. ASSUME NEW i \in 1..Len(s)
      PROVE  (\E j \in 1..Len(text) : s[i] = text[j])
               \/ \E j \in 1..Len(old) : s[i] = old[j]
  <2>1. CASE i <= n
    BY <1>0, <1>1, <1>3, <2>1
  <2>2. CASE i > n
    <3>1. i - n \in 1..Len(b) /\ n + (i - n) = i /\ i \in 1..Len(old)
      BY <1>0, <1>2, <1>3, <2>2
    <3>2. s[i] = old[i]
      BY <1>0, <1>2, <1>3, <2>2, <3>1
    <3>3. QED
      BY <3>1, <3>2
  <2>3. QED
    BY <1>0, <2>1, <2>2
<1>5. ASSUME n = Len(text)
      PROVE  Len(s) >= Len(text) /\ SubSeq(s, 1, Len(text)) = text
  <2>1. Len(s) >= n /\ Len(s) \in Nat
    BY <1>0, <1>2, <1>3
  <2>2. /\ SubSeq(s, 1, n) \in Seq(S) /\ Len(SubSeq(s, 1, n)) = n
        /\ \A i \in 1..n : SubSeq(s, 1, n)[i] = s[i]
    BY <1>0, <1>3, <2>1, SubSeqProperties
  <2>3. \A i \in 1..n : SubSeq(s, 1, n)[i] = text[i]
    BY <1>0, <1>1, <1>3, <2>1, <2>2
  <2>4. SubSeq(s, 1, n) = text
    BY <1>5, <2>2, <2>3, SeqEqual
  <2>5. QED
    BY <1>5, <2>1, <2>4
<1>6. QED
  BY <1>3, <1>4, <1>5 DEF s, a, b

(* A step that changes one file, the one of the process that takes it.      *)
LEMMA OneFile ==
  ASSUME Inv, NEW p \in Procs, UNCHANGED <<keys, facts>>,
         NEW i \in Nat, i \in 1..Len(inodes'),
         NEW q \in Running \cup {Idle},
         dir' \in [Names -> Nat],
         \A n \in Names : dir'[n] = i \/ dir'[n] = dir[n],
         inodes' \in Seq(Seq(Block)), Len(inodes) <= Len(inodes'),
         \A f \in 1..Len(inodes') :
           f # i => f \in 1..Len(inodes) /\ inodes'[f] = inodes[f],
         \A b \in 1..Len(inodes'[i]) : inodes'[i][b][1] \in 1..Len(keys),
         proc' = [proc EXCEPT ![p] = q],
         Entitled(q, keys, Len(inodes')),
         At(p, "write") => proc[p].inode = i,
         i \in torn' \/ (q.pc = "write" /\ q.inode = i) \/ Loads(inodes'[i]),
         \A f \in torn : f = i \/ f \in torn'
  PROVE  Inv'
<1>0. inodes \in Seq(Seq(Block)) /\ Len(inodes) \in Nat
  <2>1. inodes \in Seq(Seq(Block))
    BY DEF Inv, TypeOK
  <2>2. QED
    BY <2>1
<1>1. TypeOK'
  BY RunningType DEF Inv, TypeOK
<1>2. \A r \in Procs : proc'[r] = IF r = p THEN q ELSE proc[r]
  BY DEF Inv, TypeOK
<1>3. Len(inodes') \in Nat
  OBVIOUS
<1>4. \A r \in Procs : Entitled(proc'[r], keys, Len(inodes'))
  <2> SUFFICES ASSUME NEW r \in Procs, r # p
               PROVE  Entitled(proc[r], keys, Len(inodes'))
    BY <1>2
  <2>1. Entitled(proc[r], keys, Len(inodes))
    BY DEF Inv, Kept
  <2>2. \A x \in 1..Len(inodes) : x \in 1..Len(inodes')
    BY <1>0, <1>3
  <2> HIDE <1>0, <1>3
  <2>3. QED
    BY <2>1, <2>2 DEF Entitled
<1>5. Files(dir', inodes', keys)
  <2>1. \A n \in Names : dir[n] \in 0..Len(inodes)
    BY DEF Inv, Kept, Files
  <2>2. ASSUME NEW n \in Names PROVE dir'[n] \in 0..Len(inodes')
    <3>1. dir[n] \in 0..Len(inodes) /\ (dir'[n] = i \/ dir'[n] = dir[n])
      BY <2>1
    <3>2. i \in 0..Len(inodes') /\ 0..Len(inodes) \subseteq 0..Len(inodes')
      BY <1>0, <1>3
    <3>3. QED
      BY <3>1, <3>2
  <2>3. \A f \in 1..Len(inodes) : \A b \in 1..Len(inodes[f]) :
          inodes[f][b][1] \in 1..Len(keys)
    BY DEF Inv, Kept, Files
  <2>4. ASSUME NEW f \in 1..Len(inodes'), NEW b \in 1..Len(inodes'[f])
        PROVE  inodes'[f][b][1] \in 1..Len(keys)
    BY <2>3
  <2>5. QED
    BY <2>2, <2>4 DEF Files
<1>6. Whole'
  <2> SUFFICES ASSUME NEW f \in 1..Len(inodes')
               PROVE  \/ f \in torn'
                      \/ \E r \in Procs : At(r, "write")' /\ proc'[r].inode = f
                      \/ Loads(inodes[f])'
    BY DEF Whole
  <2>2. CASE f = i
    <3>1. proc'[p] = q /\ (At(p, "write")' <=> q.pc = "write")
      BY <1>2, SMTT(20) DEF At
    <3>2. Loads(inodes'[i]) => Loads(inodes[i])'
      BY DEF Loads, Text
    <3>3. QED
      BY <2>2, <3>1, <3>2
  <2>3. CASE f # i
    <3>1. f \in 1..Len(inodes) /\ inodes'[f] = inodes[f]
      BY <2>3
    <3>2. \/ f \in torn \/ Loads(inodes[f])
          \/ \E r \in Procs : At(r, "write") /\ proc[r].inode = f
      BY <3>1, SMTT(20) DEF Inv, Kept, Whole
    <3>3. Loads(inodes[f]) => Loads(inodes[f])'
      BY <3>1, ZenonT(60) DEF Loads, Text
    <3>4. ASSUME NEW r \in Procs, At(r, "write"), proc[r].inode = f
          PROVE  At(r, "write")' /\ proc'[r].inode = f
      BY <1>2, <2>3, <3>4 DEF At
    <3>5. QED
      BY <2>3, <3>2, <3>3, <3>4
  <2>4. QED
    BY <2>2, <2>3
<1>7. Addresses'
  BY DEF Inv, Kept, Addresses, facts
<1>8. QED
  BY <1>1, <1>4, <1>5, <1>6, <1>7 DEF Inv, Kept

(* A file is created, or an existing one emptied, by a process that will    *)
(* write it.                                                                *)
LEMMA CreateInv ==
  ASSUME Inv, NEW p \in Procs, Create(p)
  PROVE  Inv'
<1> DEFINE n == proc[p].job.key
           i == IF dir[n] = 0 THEN Len(inodes) + 1 ELSE dir[n]
           q == [proc[p] EXCEPT !.pc = "write", !.inode = i]
<1>1. At(p, "create") /\ UNCHANGED <<keys, torn, facts>>
  BY DEF Create
<1>2. proc[p] \in Running /\ ~At(p, "write")
  BY <1>1, RunningType DEF At, Inv
<1>3. Entitled(proc[p], keys, Len(inodes))
  BY DEF Inv, Kept
<1>4. n \in Names
  BY <1>1, <1>3 DEF Entitled, At
<1>5. inodes \in Seq(Seq(Block)) /\ dir \in [Names -> Nat]
  BY DEF Inv, TypeOK
<1>6. dir[n] \in 0..Len(inodes) /\ Len(inodes) \in Nat
  BY <1>4, <1>5 DEF Inv, Kept, Files
<1>7. dir' = [dir EXCEPT ![n] = i] /\ proc' = [proc EXCEPT ![p] = q]
  BY DEF Create
<1>8. inodes' = IF dir[n] = 0 THEN Append(inodes, <<>>)
                ELSE [inodes EXCEPT ![i] = <<>>]
  BY DEF Create
<1>e. <<>> \in Seq(Block) /\ Len(<<>>) = 0
  OBVIOUS
<1>9. /\ i \in Nat /\ inodes' \in Seq(Seq(Block)) /\ i \in 1..Len(inodes')
      /\ Len(inodes) <= Len(inodes') /\ inodes'[i] = <<>>
      /\ \A f \in 1..Len(inodes') :
           f # i => f \in 1..Len(inodes) /\ inodes'[f] = inodes[f]
  <2>1. CASE dir[n] = 0
    BY <1>5, <1>6, <1>8, <1>e, <2>1, AppendProperties
  <2>2. CASE dir[n] # 0
    <3>1. i \in 1..Len(inodes)
      BY <1>6, <2>2
    <3>2. inodes' = [inodes EXCEPT ![i] = <<>>]
      BY <1>8, <2>2
    <3> HIDE DEF i
    <3>3. QED
      BY <1>5, <1>6, <1>e, <3>1, <3>2, ExceptSeq
  <2>3. QED
    BY <2>1, <2>2
<1>10. q \in Running /\ q.pc = "write" /\ q.inode = i
  BY <1>2, <1>9 DEF Running
<1>11. /\ q.key = proc[p].key /\ q.job = proc[p].job
       /\ q.region = proc[p].region
  BY <1>2 DEF Running
<1>12. proc[p].absent => q.absent
  BY <1>2 DEF Running
<1> HIDE DEF q
<1>13. Entitled(q, keys, Len(inodes'))
  BY <1>1, <1>3, <1>9, <1>10, <1>11, <1>12 DEF Entitled, At
<1>14. /\ dir' \in [Names -> Nat]
       /\ \A m \in Names : dir'[m] = i \/ dir'[m] = dir[m]
  BY <1>5, <1>7, <1>9
<1>15. \A b \in 1..Len(inodes'[i]) : inodes'[i][b][1] \in 1..Len(keys)
  BY <1>9, <1>e
<1> HIDE DEF i
<1>16. UNCHANGED <<keys, facts>> /\ \A f \in torn : f = i \/ f \in torn'
  BY <1>1
<1>17. proc' = [proc EXCEPT ![p] = q] /\ q \in Running \cup {Idle}
  BY <1>7, <1>10
<1>18. QED
  BY <1>2, <1>9, <1>10, <1>13, <1>14, <1>15, <1>16, <1>17, OneFile

(* A file is written from its start: in whole, and then it loads, or in     *)
(* part, and then it is torn.                                               *)
LEMMA WriteInv ==
  ASSUME Inv, NEW p \in Procs, Write(p)
  PROVE  Inv'
<1> DEFINE k == proc[p].key
           i == proc[p].inode
           old == inodes[i]
           text == Text(k)
<1>1. At(p, "write") /\ UNCHANGED <<dir, keys, facts>>
  BY DEF Write
<1>2. proc[p] \in Running
  BY <1>1, RunningType DEF At, Inv
<1>3. Entitled(proc[p], keys, Len(inodes))
  BY DEF Inv, Kept
<1>4. k \in 1..Len(keys) /\ i \in 1..Len(inodes)
  BY <1>1, <1>3 DEF Entitled, At
<1>5. i \in Nat
  BY <1>2 DEF Running
<1>6. inodes \in Seq(Seq(Block)) /\ dir \in [Names -> Nat]
  BY DEF Inv, TypeOK
<1>7. old \in Seq(Block)
  BY <1>4, <1>6, ElementOfSeq
<1>8. text \in Seq(Block) /\ \A b \in 1..Len(text) : text[b][1] = k
  <2>1. TypeOK
    BY DEF Inv
  <2>2. text \in Seq(Block) /\ \A b \in 1..Len(text) : text[b] = <<k, b>>
    BY <1>4, <2>1, TextOf
  <2>3. QED
    BY <2>2
<1>9. PICK n \in (IF Faults THEN 0 ELSE Len(text))..Len(text) :
        /\ inodes' = [inodes EXCEPT ![i] =
                        SubSeq(text, 1, n) \o SubSeq(old, n + 1, Len(old))]
        /\ IF n = Len(text)
           THEN Goto(p, "chmod") /\ torn' = torn \ {i}
           ELSE End(p) /\ torn' = torn \cup {i}
  BY DEF Write
<1>10. n \in 0..Len(text)
  BY <1>8
<1>14. \A b \in 1..Len(old) : old[b][1] \in 1..Len(keys)
  BY <1>4 DEF Inv, Kept, Files
<1> DEFINE s == SubSeq(text, 1, n) \o SubSeq(old, n + 1, Len(old))
<1> HIDE DEF text, old
<1>11. /\ s \in Seq(Block)
       /\ \A b \in 1..Len(s) :
            (\E c \in 1..Len(text) : s[b] = text[c])
              \/ \E c \in 1..Len(old) : s[b] = old[c]
       /\ n = Len(text) => /\ Len(s) >= Len(text)
                           /\ SubSeq(s, 1, Len(text)) = text
  BY <1>7, <1>8, <1>10, Overwritten
<1>12. inodes' = [inodes EXCEPT ![i] = s]
  BY <1>9
<1> HIDE DEF s
<1>13. /\ inodes' \in Seq(Seq(Block)) /\ Len(inodes') = Len(inodes)
       /\ inodes'[i] = s
       /\ \A f \in 1..Len(inodes') :
            f # i => f \in 1..Len(inodes) /\ inodes'[f] = inodes[f]
  BY <1>4, <1>6, <1>11, <1>12, ExceptSeq
<1>15. \A b \in 1..Len(inodes'[i]) : inodes'[i][b][1] \in 1..Len(keys)
  <2>1. ASSUME NEW b \in 1..Len(s) PROVE s[b][1] \in 1..Len(keys)
    BY <1>4, <1>8, <1>11, <1>14
  <2>2. QED
    BY <1>13, <2>1
<1>16. n = Len(text) => Loads(inodes'[i])
  BY <1>4, <1>11, <1>13 DEF Loads, text
<1> DEFINE q == IF n = Len(text) THEN [proc[p] EXCEPT !.pc = "chmod"] ELSE Idle
<1>17. proc' = [proc EXCEPT ![p] = q]
  BY <1>9 DEF Goto, End
<1>18. q \in Running \cup {Idle}
  BY <1>2 DEF Running
<1>19. Entitled(q, keys, Len(inodes'))
  <2>1. CASE n = Len(text)
    <3> DEFINE c == [proc[p] EXCEPT !.pc = "chmod"]
    <3>1. /\ c.pc = "chmod" /\ c.key = proc[p].key
          /\ c.job = proc[p].job /\ c.region = proc[p].region
      BY <1>2 DEF Running
    <3>2. proc[p].absent => c.absent
      BY <1>2 DEF Running
    <3>3. q = c
      BY <2>1
    <3> HIDE DEF c, q
    <3>4. Entitled(c, keys, Len(inodes'))
      BY <1>1, <1>3, <3>1, <3>2 DEF Entitled, At
    <3>5. QED
      BY <3>3, <3>4
  <2>2. CASE n # Len(text)
    BY <2>2, IdleEntitled
  <2>3. QED
    BY <2>1, <2>2
<1> HIDE DEF q
<1>20. /\ i \in torn' \/ (q.pc = "write" /\ q.inode = i) \/ Loads(inodes'[i])
       /\ \A f \in torn : f = i \/ f \in torn'
  BY <1>9, <1>16
<1>21. /\ dir' \in [Names -> Nat]
       /\ \A m \in Names : dir'[m] = i \/ dir'[m] = dir[m]
  BY <1>1, <1>6
<1>22. Len(inodes) <= Len(inodes') /\ i \in 1..Len(inodes')
  <2>1. Len(inodes) \in Nat
    BY <1>6
  <2>2. QED
    BY <1>4, <1>13, <2>1
<1>23. UNCHANGED <<keys, facts>> /\ proc[p].inode = i
  BY <1>1
<1> HIDE DEF i
<1>24. QED
  BY <1>5, <1>13, <1>15, <1>17, <1>18, <1>19, <1>20, <1>21, <1>22, <1>23,
     OneFile

(* Every step keeps the invariant.                                          *)
LEMMA StepInv ==
  Inv /\ [Next]_vars => Inv'
<1> SUFFICES ASSUME Inv, [Next]_vars PROVE Inv'
  OBVIOUS
<1>1. ASSUME NEW p \in Procs, Step(p) PROVE Inv'
  BY <1>1, QuietSteps, CrashInv, DeleteInv, GenerateInv, CreateInv, WriteInv,
     ChmodInv, BootstrapInv, EnsureHostKeyInv DEF Step
<1>2. CASE UNCHANGED vars
  <2>1. UNCHANGED <<dir, inodes, keys, proc, printed, serving, torn>>
    BY <1>2 DEF vars, files, facts
  <2>2. TypeOK' /\ Addresses' /\ Files(dir, inodes, keys)'
    BY <2>1 DEF Inv, TypeOK, Kept, Addresses
  <2>3. \A i : Loads(i) => Loads(i)'
    BY <2>1 DEF Loads, Text
  <2>4. Whole'
    BY <2>1, <2>3 DEF Inv, Kept, Whole, At
  <2>5. \A p \in Procs : Entitled(proc[p], keys, Len(inodes))'
    BY <2>1 DEF Inv, Kept
  <2>6. QED
    BY <2>2, <2>4, <2>5 DEF Inv, Kept
<1>3. QED
  BY <1>1, <1>2 DEF Next

(* It holds at first.                                                       *)
LEMMA InitInv == Init => Inv
<1> SUFFICES ASSUME Init PROVE Inv
  OBVIOUS
<1>1. /\ dir = [n \in Names |-> 0] /\ inodes = <<>> /\ keys = <<>>
      /\ proc = [p \in Procs |-> Idle] /\ printed = {} /\ serving = {}
      /\ Len(<<>>) = 0
  BY DEF Init
<1>2. TypeOK
  BY <1>1 DEF TypeOK
<1>3. Files(dir, inodes, keys)
  BY <1>1 DEF Files
<1>4. \A p \in Procs : Entitled(proc[p], keys, Len(inodes))
  BY <1>1, IdleEntitled
<1>5. Whole /\ Addresses
  BY <1>1 DEF Whole, Addresses
<1>6. QED
  BY <1>2, <1>3, <1>4, <1>5 DEF Inv, Kept

(* In every state every file loads unless it is torn or a process is about  *)
(* to write it, every process that is past the test for an existing file was*)
(* told to --force or saw none, and addresses and servers agree with their  *)
(* keys (save_tailcat_key, make_server_bootstrap).                          *)
THEOREM FilesAccountedFor == Spec => []Inv
<1>1. Init => Inv
  BY InitInv
<1>2. Inv /\ [Next]_vars => Inv'
  BY StepInv
<1>3. QED
  BY <1>1, <1>2, PTL DEF Spec

(* However many commands race over a name, and wherever others were killed, *)
(* the file loads once none of them is about to write it, unless the last to*)
(* end on it failed (save_tailcat_key).                                     *)
THEOREM RacedFilesLoad == Spec => []RacedFileLoads
<1>1. Inv => RacedFileLoads
  <2> SUFFICES ASSUME Inv, NEW n \in Names, dir[n] \notin torn \cup {0},
                      \A p \in Procs : At(p, "write") => proc[p].inode # dir[n]
               PROVE  Saved(n) # {}
    BY DEF RacedFileLoads
  <2>1. inodes \in Seq(Seq(Block)) /\ dir \in [Names -> Nat]
    BY DEF Inv, TypeOK
  <2>2. dir[n] \in 0..Len(inodes) /\ Len(inodes) \in Nat
    BY <2>1 DEF Inv, Kept, Files
  <2>3. dir[n] \in 1..Len(inodes)
    BY <2>1, <2>2
  <2>4. Loads(inodes[dir[n]])
    BY <2>3 DEF Inv, Kept, Whole
  <2>5. PICK k \in 1..Len(keys) :
          /\ Len(inodes[dir[n]]) >= Len(Text(k))
          /\ SubSeq(inodes[dir[n]], 1, Len(Text(k))) = Text(k)
    BY <2>4 DEF Loads
  <2>6. dir[n] # 0
    OBVIOUS
  <2>7. k \in Saved(n)
    BY <2>5, <2>6, Zenon DEF Saved
  <2>8. QED
    BY <2>7
<1>2. QED
  BY <1>1, FilesAccountedFor, PTL

(* An address that genkey printed for a fixed region names the region of    *)
(* every server that runs on the key, and carries a PSK when the server     *)
(* expects one (genkey_command, make_server_bootstrap).                     *)
THEOREM AddressesReachServers == Spec => []AddressReachesServer
<1>1. Inv => AddressReachesServer
  BY DEF Inv, Kept, Addresses, AddressReachesServer
<1>2. QED
  BY <1>1, FilesAccountedFor, PTL

(* A name loads the same keys while the files stay, whatever was generated. *)
LEMMA SavedSame ==
  ASSUME Inv, Inv', NEW n \in Names, UNCHANGED <<dir, inodes>>,
         NEW e \in Key, keys' = keys \/ keys' = Append(keys, e)
  PROVE  Saved(n)' = Saved(n)
<1>1. keys \in Seq(Key) /\ inodes \in Seq(Seq(Block)) /\ dir \in [Names -> Nat]
  BY DEF Inv, TypeOK
<1>2. Len(keys) \in Nat /\ Len(inodes) \in Nat
  BY <1>1
<1>a. /\ Len(keys') \in Nat /\ Len(keys) <= Len(keys')
      /\ Len(keys') <= Len(keys) + 1
      /\ \A k \in 1..Len(keys) : keys'[k] = keys[k]
  BY <1>1, <1>2, AppendProperties
<1>3. ASSUME NEW k \in 1..Len(keys)
      PROVE  k \in 1..Len(keys') /\ Text(k)' = Text(k)
  <2>1. k \in 1..Len(keys') /\ keys'[k] = keys[k]
    BY <1>2, <1>a
  <2>2. QED
    BY <2>1 DEF Text
<1>4. \A k \in 1..Len(keys') : k \in 1..Len(keys) \/ k = Len(keys) + 1
  BY <1>1, <1>2
<1>5. ASSUME NEW k \in 1..Len(keys'), k = Len(keys) + 1 PROVE k \notin Saved(n)'
  <2> DEFINE f == inodes[dir[n]]
             t == Text(k)'
  <2>1. SUFFICES ASSUME dir[n] # 0, Len(f) >= Len(t), SubSeq(f, 1, Len(t)) = t
                 PROVE  FALSE
    BY DEF Saved
  <2>2. dir[n] \in 0..Len(inodes)
    BY DEF Inv, Kept, Files
  <2>3. dir[n] \in 1..Len(inodes)
    BY <1>1, <1>2, <2>1, <2>2
  <2>4. f \in Seq(Block) /\ \A b \in 1..Len(f) : f[b][1] \in 1..Len(keys)
    BY <1>1, <2>3, ElementOfSeq DEF Inv, Kept, Files
  <2>5. t \in Seq(Block) /\ Len(t) >= 1 /\ t[1] = <<k, 1>>
    <3>1. TypeOK'
      BY DEF Inv
    <3> HIDE DEF t
    <3>2. t \in Seq(Block) /\ Len(t) >= 1
          /\ \A b \in 1..Len(t) : t[b] = <<k, b>>
      BY <3>1, TextOfNext DEF t
    <3>3. 1 \in 1..Len(t)
      BY <3>2
    <3>4. QED
      BY <3>2, <3>3
  <2> HIDE DEF f, t
  <2>6. Len(t) \in Nat /\ Len(f) \in Nat /\ 1 \in 1..Len(f)
    BY <2>1, <2>4, <2>5
  <2>7. SubSeq(f, 1, Len(t))[1] = f[1]
    <3>1. \A b \in 1..Len(t) : f[b] \in Block
      BY <2>1, <2>4, <2>6
    <3>2. \A b \in 1..Len(t) - 1 + 1 : SubSeq(f, 1, Len(t))[b] = f[1 + b - 1]
      BY <2>6, <3>1, SubSeqProperties
    <3>3. 1 \in 1..Len(t) - 1 + 1 /\ 1 + 1 - 1 = 1
      BY <2>5, <2>6
    <3>4. QED
      BY <3>2, <3>3
  <2>8. f[1] = <<k, 1>>
    BY <2>1, <2>5, <2>7
  <2>9. k \in 1..Len(keys)
    BY <2>4, <2>6, <2>8
  <2>10. QED
    BY <1>2, <1>5, <2>9
<1>6. ASSUME NEW k \in 1..Len(keys)
      PROVE  k \in Saved(n)' <=> k \in Saved(n)
  <2>1. k \in 1..Len(keys') /\ Text(k)' = Text(k)
    BY <1>3
  <2>2. k \in Saved(n) <=> /\ dir[n] # 0 /\ Len(inodes[dir[n]]) >= Len(Text(k))
                           /\ SubSeq(inodes[dir[n]], 1, Len(Text(k))) = Text(k)
    BY Zenon DEF Saved
  <2>3. k \in Saved(n)' <=>
          /\ dir'[n] # 0 /\ Len(inodes'[dir'[n]]) >= Len(Text(k)')
          /\ SubSeq(inodes'[dir'[n]], 1, Len(Text(k)')) = Text(k)'
    BY <2>1, Zenon DEF Saved
  <2>4. QED
    BY <2>1, <2>2, <2>3
<1>7. Saved(n) \subseteq 1..Len(keys) /\ Saved(n)' \subseteq 1..Len(keys')
  BY Zenon DEF Saved
<1>8. QED
  BY <1>3, <1>4, <1>5, <1>6, <1>7

(* A step leaves the files alone, or it is of a process that may replace or *)
(* remove a key.                                                            *)
LEMMA ReplacingSteps ==
  ASSUME Inv, NEW p \in Procs, Step(p)
  PROVE  \/ /\ UNCHANGED <<dir, inodes>>
            /\ keys' = keys \/ \E e \in Key : keys' = Append(keys, e)
         \/ /\ ~At(p, "idle")
            /\ proc[p].job.force \/ proc[p].job.delete \/ proc[p].absent
<1> DEFINE Same == UNCHANGED <<dir, inodes>>
           More == keys' = keys \/ \E e \in Key : keys' = Append(keys, e)
<1>1. ASSUME NEW psk \in BOOLEAN, NEW r \in Nat, NEW s, NEW a,
             NewKey(p, psk, r, s, a)
      PROVE  More
  BY <1>1 DEF NewKey, Key
<1>2. ASSUME \/ \E j \in Jobs : Start(p, j)
             \/ Crash(p) \/ Reject(p) \/ TestAbsent(p) \/ Chmod(p)
             \/ ChooseKey(p) \/ Load(p) \/ Bootstrap(p) \/ HostKeyReady(p)
      PROVE  Same /\ More
  <2>1. (\E j \in Jobs : Start(p, j)) => Same /\ More
    BY DEF Start, files
  <2>2. Crash(p) \/ Reject(p) \/ TestAbsent(p) => Same /\ More
    BY DEF Crash, Reject, TestAbsent, files
  <2>3. Chmod(p) => Same /\ More
    BY DEF Chmod, files
  <2>4. ChooseKey(p) \/ Load(p) => Same /\ More
    BY DEF ChooseKey, Load, files
  <2>5. Bootstrap(p) => Same /\ More
    BY DEF Bootstrap, files
  <2>6. HostKeyReady(p) => Same /\ More
    BY DEF HostKeyReady, files
  <2>7. QED
    BY <1>2, <2>1, <2>2, <2>3, <2>4, <2>5, <2>6
<1>3. EnsureHostKey(p) => Same /\ More
  BY <1>1 DEF EnsureHostKey, files
<1>4. ASSUME Generate(p) PROVE Same /\ More
  <2> DEFINE j == proc[p].job
  <2>1. At(p, "generate") /\ Same
    BY <1>4 DEF Generate, files
  <2>2. j \in Job
    BY <2>1, RunningType DEF At, Inv, Running
  <2>3. ASSUME NEW map \in DerpMaps, NEW r, r \in map,
               NewKey(p, j.psk # "false", IF Persists(j) THEN r ELSE 0, r,
                      proc[p].absent)
        PROVE  More
    <3> DEFINE b == j.psk # "false"
               s == IF Persists(j) THEN r ELSE 0
    <3>1. b \in BOOLEAN /\ s \in Nat
      BY <2>3, KeyStoreAssumption DEF DerpMaps
    <3>2. NewKey(p, b, s, r, proc[p].absent)
      BY <2>3
    <3> HIDE DEF b, s
    <3>3. QED
      BY <1>1, <3>1, <3>2
  <2>4. ASSUME NewKey(p, FALSE, 0, 0, proc[p].absent) PROVE More
    BY <1>1, <2>4
  <2>5. QED
    BY <1>4, <2>1, <2>3, <2>4 DEF Generate
<1>5. ASSUME Delete(p) PROVE ~At(p, "idle") /\ proc[p].job.delete
  <2>1. At(p, "genkey") /\ Mode(proc[p].job) = "delete"
    BY <1>5 DEF Delete
  <2>2. proc[p].job \in Job
    BY <2>1, RunningType DEF At, Inv, Running
  <2>3. QED
    BY <2>1, <2>2, AskedRegion DEF At
<1>6. ASSUME Create(p) \/ Write(p)
      PROVE  ~At(p, "idle") /\ (proc[p].job.force \/ proc[p].absent)
  <2>1. At(p, "create") \/ At(p, "write")
    BY <1>6 DEF Create, Write
  <2>2. Entitled(proc[p], keys, Len(inodes))
    BY DEF Inv, Kept
  <2>3. QED
    BY <2>1, <2>2 DEF Entitled, At
<1>7. QED
  BY <1>2, <1>3, <1>4, <1>5, <1>6 DEF Step

(* No step of any command, killed or not, replaces or removes a saved key   *)
(* unless the command was told to --force or to --delete, or had seen no    *)
(* file (genkey_command, ensure_ssh_host_key).                              *)
THEOREM KeysReplacedByForce == Spec => ReplacedOnlyByForce
<1> DEFINE Allowed ==
      \A n \in Names :
        Saved(n) # {} /\ Saved(n)' # Saved(n) =>
          \E p \in Procs : ~At(p, "idle") /\
            (proc[p].job.force \/ proc[p].job.delete \/ proc[p].absent)
<1>1. Inv /\ Inv' /\ [Next]_vars => [Allowed]_vars
  <2> SUFFICES ASSUME Inv, Inv', Next PROVE Allowed
    OBVIOUS
  <2>1. PICK p \in Procs : Step(p)
    BY DEF Next
  <2>2. CASE /\ UNCHANGED <<dir, inodes>>
             /\ keys' = keys \/ \E e \in Key : keys' = Append(keys, e)
    <3>1. [psk |-> FALSE, region |-> 0] \in Key
      BY DEF Key
    <3>2. \A n \in Names : Saved(n)' = Saved(n)
      BY <2>2, <3>1, SavedSame
    <3>3. QED
      BY <3>2
  <2>3. QED
    BY <2>1, <2>2, ReplacingSteps
<1>2. QED
  BY <1>1, FilesAccountedFor, PTL DEF Spec, ReplacedOnlyByForce
=============================================================================
