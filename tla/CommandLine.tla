----------------------------- MODULE CommandLine -----------------------------
(* The command line (cli.cpp).  A word is a sequence of pieces: characters, *)
(* or longer pieces that are looked for as a whole, such as "--key=".  A    *)
(* call that throws has the empty set of results.                           *)
EXTENDS Integers, Sequences, SequencesExt

CONSTANT Addresses              \* what parse_tailcat_addr() accepts

(* The pieces that begin with '-'.                                          *)
Dashed == {"-", "--", "-h", "--help", "-V", "--version", "-v", "--verbose",
           "--key", "--key=", "-p", "--port", "--port=", "-P",
           "--skip-dns-safety-check", "--psk=false", "--psk=true", "--allow",
           "--allow=", "--ssh-authorized-keys", "--ssh-authorized-keys="}
IsOption(word) == word # <<>> /\ word[1] \in Dashed
Prefixed(word, prefix) == word # <<>> /\ word[1] = prefix

(* The place of the first such piece, 0 if there is none.                   *)
Find(word, piece) ==
  LET at == {i \in DOMAIN word : word[i] = piece}
  IN IF at = {} THEN 0 ELSE CHOOSE i \in at : \A j \in at : i <= j

Split(word, piece) ==
  FoldLeft(LAMBDA parts, c :
             IF c = piece THEN Append(parts, <<>>)
             ELSE [parts EXCEPT ![Len(parts)] = Append(@, c)],
           << <<>> >>, word)

-----------------------------------------------------------------------------
(* parse_command_line(): the options of the program stand before the        *)
(* command; what stands behind it belongs to the command.                   *)
NoArguments ==
  [command |-> <<>>, args |-> <<>>, key_path |-> <<>>, verbose |-> FALSE,
   show |-> "", wants |-> FALSE]

TakeWord(cl, arg) ==
  CASE cl.wants -> [cl EXCEPT !.wants = FALSE, !.key_path = arg]
    [] ~cl.wants /\ cl.command # <<>> -> [cl EXCEPT !.args = Append(@, arg)]
    [] OTHER ->
         CASE arg \in {<<"-V">>, <<"--version">>, <<"version">>} ->
                [cl EXCEPT !.show = "version"]
           [] arg \in {<<"-h">>, <<"--help">>} ->
                [cl EXCEPT !.show = IF @ = "version" THEN @ ELSE "help"]
           [] arg \in {<<"-v">>, <<"--verbose">>} -> [cl EXCEPT !.verbose = TRUE]
           [] arg = <<"--key">> -> [cl EXCEPT !.wants = TRUE]
           [] Prefixed(arg, "--key=") -> [cl EXCEPT !.key_path = Tail(arg)]
           [] OTHER -> IF arg # <<>> /\ ~IsOption(arg)
                       THEN [cl EXCEPT !.command = arg]
                       ELSE [cl EXCEPT !.args = Append(@, arg)]

ParseCommandLine(argv) ==
  LET places == {i \in DOMAIN argv : argv[i] = <<"--key=">>}
      Before(i) == FoldLeft(TakeWord, NoArguments, SubSeq(argv, 1, i - 1))
      cl == FoldLeft(TakeWord, NoArguments, argv)
  IN IF \/ cl.wants
        \/ \E i \in places : Before(i).command = <<>> /\ ~Before(i).wants
     THEN {} ELSE {cl}

(* run(): which of the commands a command line runs.                        *)
Commands ==
  {"parse", "ping", "serve", "forward", "ssh", "cp", "browse", "resolve",
   "socks", "genkey", "printpub"}
Dispatch(cl) ==
  CASE cl.show # "" -> cl.show
    [] cl.show = "" /\ cl.command = <<>> -> "listen"
    [] OTHER ->
         CASE Len(cl.command) = 1 /\ cl.command[1] \in Commands -> cl.command[1]
           [] cl.command[1] \in Addresses \cup {"tc"}
                \/ Find(cl.command, ".") # 0 -> "client"
           [] OTHER -> "unknown"
=============================================================================
