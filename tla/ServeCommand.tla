---------------------------- MODULE ServeCommand ----------------------------
(* "tailcat serve": what is served to whom (run_serve() of cli.cpp), and    *)
(* the SSH keys that it accepts (ssh_authorized_keys.cpp).                  *)
EXTENDS CommandLine

CONSTANTS
  PortWords,                    \* what parse_port() accepts, words
  NodeKeys,                     \* what parse_node_public_text() accepts
  KeyTypes, Blobs,              \* what libssh knows and imports
  Files, Github                 \* the texts that paths and user names have

-----------------------------------------------------------------------------
(* Authorized keys.                                                         *)
Trim(word) ==
  LET solid == {i \in DOMAIN word : word[i] \notin {" ", "\r", "\n"}}
  IN IF solid = {} THEN <<>>
     ELSE SubSeq(word, CHOOSE i \in solid : \A j \in solid : i <= j,
                       CHOOSE i \in solid : \A j \in solid : i >= j)
WordsOf(line) == SelectSeq(Split(Trim(line), " "), LAMBDA w : w # <<>>)
IsKey(words) ==
  /\ Len(words) >= 2
  /\ words[1] \in {<<t>> : t \in KeyTypes}
  /\ words[2] \in {<<b>> : b \in Blobs}

AppendUnique(keys, more) ==
  FoldLeft(LAMBDA ks, k : IF Contains(ks, k) THEN ks ELSE Append(ks, k),
           keys, more)

(* The lines with something on them that is no comment.                     *)
Entries(text) ==
  SelectSeq([i \in DOMAIN Split(text, "\n") |-> WordsOf(Split(text, "\n")[i])],
            LAMBDA words : words # <<>> /\ words[1][1] # "#")

(* Mutant: a line with options is passed over.                              *)
ParseKeysLeniently(text) ==
  LET entries == SelectSeq(Entries(text), IsKey)
      keys == [i \in DOMAIN entries |-> entries[i][2][1]]
  IN IF entries = <<>> THEN {} ELSE {AppendUnique(<<>>, keys)}

(* parse_ssh_authorized_keys_text(): one line that is no key spoils all.    *)
ParseAuthorizedKeys(text) ==
  LET entries == Entries(text)
      keys == [i \in DOMAIN entries |-> entries[i][2][1]]
  IN IF entries = <<>> \/ ~(\A i \in DOMAIN entries : IsKey(entries[i]))
     THEN {} ELSE {AppendUnique(<<>>, keys)}

(* The text behind a source: of a GitHub user, the source itself when it    *)
(* looks like a key, or of a file.                                          *)
TextOf(source) ==
  LET user == Front(source)
  IN CASE Last(source) = "@github" ->
            {Github[u] : u \in {v \in DOMAIN Github : user = v}}
       [] OTHER ->
            IF \/ Find(source, "\n") # 0
               \/ Split(source, " ")[1] \in {<<t>> : t \in KeyTypes}
            THEN {source}
            ELSE {Files[f] : f \in {g \in DOMAIN Files : source = g}}

(* load_ssh_authorized_key_blobs()                                          *)
LoadAuthorizedKeys(sources) ==
  LET items == [i \in DOMAIN Split(sources, ",") |-> Trim(Split(sources, ",")[i])]
      Load(acc, item) ==
        UNION {{AppendUnique(keys, more) :
                  more \in UNION {ParseAuthorizedKeys(t) : t \in TextOf(item)}} :
               keys \in acc}
  IN IF \E i \in DOMAIN items : items[i] = <<>> THEN {}
     ELSE FoldLeft(Load, {<<>>}, items)

-----------------------------------------------------------------------------
(* run_serve(): the options and services in any order; an option that comes *)
(* twice counts as it is the last time.                                     *)
ServeStart == [psk |-> "default", limited |-> FALSE, allow |-> <<>>,
               sources |-> <<>>, ssh |-> FALSE, no_auth |-> FALSE,
               ports |-> <<>>, wants |-> "", bad |-> FALSE]

(* parse_allow_list()                                                       *)
Allow(s, spec) ==
  LET items == Split(spec, ",")
  IN [s EXCEPT !.wants = "", !.limited = TRUE,
        !.allow = IF spec = <<"none">> THEN <<>> ELSE items,
        !.bad = @ \/ /\ spec # <<"none">>
                     /\ ~(\A i \in DOMAIN items :
                            items[i] \in {<<k>> : k \in NodeKeys})]

ServeArg(s, arg) ==
  CASE s.wants = "--allow" -> Allow(s, arg)
    [] s.wants = "--ssh-authorized-keys" ->
         [s EXCEPT !.wants = "", !.sources = arg]
    [] OTHER ->
         CASE arg \in {<<"--psk=false">>, <<"--psk=true">>} ->
                [s EXCEPT !.psk = arg[1]]
           [] arg \in {<<"--allow">>, <<"--ssh-authorized-keys">>} ->
                [s EXCEPT !.wants = arg[1]]
           [] Prefixed(arg, "--allow=") -> Allow(s, Tail(arg))
           [] Prefixed(arg, "--ssh-authorized-keys=") ->
                [s EXCEPT !.sources = Tail(arg), !.bad = @ \/ Len(arg) = 1]
           [] arg = <<"ssh">> -> [s EXCEPT !.ssh = TRUE]
           [] arg = <<"no-auth-ssh">> -> [s EXCEPT !.no_auth = TRUE]
           [] OTHER -> [s EXCEPT !.ports = Append(@, arg),
                                 !.bad = @ \/ arg \notin PortWords]

Consistent(s) ==
  /\ s.ssh \/ s.no_auth \/ s.ports # <<>>
  /\ ~(s.ssh /\ s.no_auth)
  /\ s.ssh <=> s.sources # <<>>
  /\ s.ssh \/ s.no_auth => ~Contains(s.ports, <<"22">>)

(* A server that starts: its services have the ports to themselves (listen()*)
(* does not take one that is taken) and its keys are loaded.                *)
RunServe(args) ==
  LET s == FoldLeft(ServeArg, ServeStart, args)
      keys == IF s.ssh THEN LoadAuthorizedKeys(s.sources) ELSE {<<>>}
  IN IF \/ s.bad \/ s.wants # "" \/ ~Consistent(s)
        \/ \E i, j \in DOMAIN s.ports : i # j /\ s.ports[i] = s.ports[j]
     THEN {}
     ELSE {[ssh |-> s.ssh \/ s.no_auth, allow_none |-> s.no_auth, keys |-> k,
            ports |-> s.ports, limited |-> s.limited, allow |-> s.allow] :
             k \in keys}
=============================================================================
