----------------------------- MODULE SshCommand -----------------------------
(* "tailcat ssh" and "tailcat cp" (ssh_command.cpp): they run the system's  *)
(* ssh with a ProxyCommand that runs tailcat again, as a client.            *)
EXTENDS CommandLine

CONSTANTS
  Executable,                   \* the path of the program, a word
  Ports                         \* what parse_ssh_port() accepts, words

-----------------------------------------------------------------------------
(* unix_shell_quote()                                                       *)
(* Mutant: '%' is left to ssh.                                              *)
UnixShellQuotePlain(word) ==
  <<"'">> \o FlattenSeq([i \in DOMAIN word |->
     IF word[i] = "'" THEN <<"'", "\"", "'", "\"", "'">> ELSE <<word[i]>>])
          \o <<"'">>

UnixShellQuote(word) ==
  <<"'">> \o FlattenSeq([i \in DOMAIN word |->
     CASE word[i] = "%" -> <<"%", "%">>
       [] word[i] = "'" -> <<"'", "\"", "'", "\"", "'">>
       [] OTHER -> <<word[i]>>]) \o <<"'">>

(* ssh_proxy_command(); a line end or a zero cannot be quoted.              *)
SshProxyCommand(address, port, verbose, key) ==
  LET words == <<Executable>>
                 \o (IF verbose THEN <<(<<"--verbose">>)>> ELSE <<>>)
                 \o (IF key # <<>> THEN <<(<<"--key=">> \o key)>> ELSE <<>>)
                 \o <<address, port>>
      Parts(i) == (IF i = 1 THEN <<>> ELSE <<" ">>) \o UnixShellQuote(words[i])
  IN IF \E i \in DOMAIN words : Find(words[i], "\n") # 0 THEN {}
     ELSE {FlattenSeq([i \in DOMAIN words |-> Parts(i)])}

(* The system's ssh: "%%" is '%', and any other '%' stands for something.   *)
PercentExpand(text) ==
  LET Next(acc, c) ==
        CASE acc.percent -> [acc EXCEPT !.percent = FALSE,
                              !.text = Append(@, IF c = "%" THEN c ELSE "?")]
          [] ~acc.percent /\ c = "%" -> [acc EXCEPT !.percent = TRUE]
          [] OTHER -> [acc EXCEPT !.text = Append(@, c)]
  IN FoldLeft(Next, [text |-> <<>>, percent |-> FALSE], text).text

(* The shell that ssh runs the command with: words are divided by blanks    *)
(* outside quotes, and '$' stands for something outside single quotes.      *)
ShellWords(text) ==
  LET Next(acc, c) ==
        CASE acc.quote = "" /\ c \in {"'", "\""} ->
               [acc EXCEPT !.quote = c, !.in = TRUE]
          [] acc.quote # "" /\ c = acc.quote -> [acc EXCEPT !.quote = ""]
          [] acc.quote = "" /\ c = " " ->
               IF acc.in THEN [acc EXCEPT !.words = Append(@, acc.word),
                                          !.word = <<>>, !.in = FALSE]
               ELSE acc
          [] OTHER ->
               [acc EXCEPT !.in = TRUE, !.word =
                  Append(@, IF c = "$" /\ acc.quote # "'" THEN "?" ELSE c)]
      last == FoldLeft(Next, [words |-> <<>>, word |-> <<>>, in |-> FALSE,
                              quote |-> ""], text)
  IN IF last.in THEN Append(last.words, last.word) ELSE last.words

-----------------------------------------------------------------------------
(* parse_ssh_args(): options up to the first word that is none.             *)
SshStart == [port |-> <<"22">>, destination |-> <<>>, tail |-> <<>>,
             options |-> TRUE, wants |-> FALSE, done |-> FALSE]

SshArg(s, arg) ==
  CASE s.done -> [s EXCEPT !.tail = Append(@, arg)]
    [] s.wants -> [s EXCEPT !.wants = FALSE, !.port = arg]
    [] OTHER ->
         CASE s.options /\ arg = <<"--">> -> [s EXCEPT !.options = FALSE]
           [] s.options /\ arg \in {<<"-p">>, <<"--port">>} ->
                [s EXCEPT !.wants = TRUE]
           [] s.options /\ (\/ Prefixed(arg, "-p") /\ Len(arg) > 1
                            \/ Prefixed(arg, "--port=")) ->
                [s EXCEPT !.port = Tail(arg)]
           [] s.options /\ arg = <<"--skip-dns-safety-check">> -> s
           [] OTHER -> [s EXCEPT !.destination = arg, !.done = TRUE]

(* Everything before an '@' is the user.                                    *)
User(word) == SubSeq(word, 1, Find(word, "@") - 1)
Host(word) == SubSeq(word, Find(word, "@") + 1, Len(word))

(* What ssh_destination_host() makes of an address: its hash.               *)
DestinationHost(address) == <<"tailcat-", address>>
At(user, host) == IF user = <<>> THEN host ELSE user \o <<"@">> \o host

(* run_ssh_command(): what ssh is run with.                                 *)
RunSsh(cl) ==
  LET s == FoldLeft(SshArg, SshStart, cl.args)
      host == Host(s.destination)
  IN IF \/ s.wants \/ s.destination = <<>> \/ s.port \notin Ports
        \/ host \notin {<<a>> : a \in Addresses}
     THEN {}
     ELSE {[proxy |-> p, host |-> host[1], port |-> s.port,
            words |-> <<At(User(s.destination), DestinationHost(host[1]))>>
                        \o s.tail] :
             p \in SshProxyCommand(host, s.port, cl.verbose, cl.key_path)}

-----------------------------------------------------------------------------
(* parse_tailcat_remote(): [user@]address:path.                             *)
HostPart(word) == Host(SubSeq(word, 1, Find(word, ":") - 1))
IsRemote(word) ==
  /\ Find(word, ":") # 0 /\ HostPart(word) # <<>>
  /\ HostPart(word)[1] \in Addresses \cup {"tc"}
ScpOperand(word) ==
  IF ~IsRemote(word) THEN word
  ELSE At(User(SubSeq(word, 1, Find(word, ":") - 1)),
          DestinationHost(HostPart(word)[1]))
         \o SubSeq(word, Find(word, ":"), Len(word))

ScpStart == [port |-> <<"22">>, operands |-> <<>>, remotes |-> <<>>,
             wants |-> FALSE, bad |-> FALSE]
ScpArg(s, arg) ==
  LET WithPort(p) == [s EXCEPT !.port = p, !.wants = FALSE,
                               !.bad = @ \/ p \notin Ports]
  IN CASE s.wants -> WithPort(arg)
       [] ~s.wants /\ arg = <<"-P">> -> [s EXCEPT !.wants = TRUE]
       [] ~s.wants /\ Prefixed(arg, "-P") /\ Len(arg) > 1 -> WithPort(Tail(arg))
       [] OTHER ->
            [s EXCEPT !.operands = Append(@, ScpOperand(arg)),
               !.remotes = IF IsRemote(arg) THEN Append(@, HostPart(arg)) ELSE @]

(* run_scp_command(): what scp is run with.                                 *)
RunScp(cl) ==
  LET s == FoldLeft(ScpArg, ScpStart, cl.args)
  IN IF \/ Len(cl.args) < 2 \/ s.wants \/ s.bad \/ Len(s.remotes) # 1
        \/ s.remotes[1] \notin {<<a>> : a \in Addresses}
     THEN {}
     ELSE {[proxy |-> p, host |-> s.remotes[1][1], port |-> s.port,
            words |-> s.operands] :
             p \in SshProxyCommand(s.remotes[1], s.port, cl.verbose,
                                   cl.key_path)}
=============================================================================
