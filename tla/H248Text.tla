------------------------------ MODULE H248Text ------------------------------
(***************************************************************************)
(* The H.248 text codec: parseActions and what it calls, the replies of    *)
(* simpleActionReplies and BuildActionReply, and descriptorBodies          *)
(* (src/internal/h248/message.go, interop.go, src/internal/bridge/         *)
(* h248.go).                                                               *)
(*                                                                         *)
(* A text is a sequence of tokens: words and the marks that steer the      *)
(* parser.  Two words are never adjacent, O- stands before a name, and a   *)
(* backslash with the quote it escapes is one token.  Which words mean the *)
(* same in upper and lower case is left out, and so is the fallback by     *)
(* regular expressions for texts in which no command is found.             *)
(***************************************************************************)
EXTENDS Integers, Sequences, SequencesExt

Space == " "
Quote == "quote"
Escaped == "escaped quote"
Marks == {Space, Quote, Escaped, "=", "{", "}", ",", "$", "*"}

Nil == "nil"

\* CompactCommand
CompactCommand ==
  [ServiceChange |-> "SC", Add |-> "A", Modify |-> "MF", Subtract |-> "S",
   Move |-> "MV", Notify |-> "N", AuditValue |-> "AV", AuditCapabilities |-> "AC"]

\* canonicalCommand followed by isCommand
CanonicalCommand(name) ==
  IF name \in DOMAIN CompactCommand THEN name
  ELSE IF \E c \in DOMAIN CompactCommand : CompactCommand[c] = name
       THEN CHOOSE c \in DOMAIN CompactCommand : CompactCommand[c] = name
       ELSE Nil

----------------------------------------------------------------------------
(* Scanning *)

\* The first place from i on whose token is not in S, or the end.
Past(text, i, S) ==
  LET j == SelectInSubSeq(text, i, Len(text), LAMBDA t : t \notin S)
  IN IF j = 0 THEN Len(text) + 1 ELSE j

\* The first place from i on whose token is in S, or the end.
Until(text, i, S) ==
  LET j == SelectInSubSeq(text, i, Len(text), LAMBDA t : t \in S)
  IN IF j = 0 THEN Len(text) + 1 ELSE j

TokenAt(text, i) == IF i <= Len(text) THEN text[i] ELSE Nil

\* Mutant: braces in a quoted string count.
BalancedEndUnquoted(text, start) ==
  LET Depth[i \in start - 1 .. Len(text)] ==
        IF i < start THEN 0
        ELSE Depth[i - 1] + (CASE text[i] = "{" -> 1 [] text[i] = "}" -> -1 [] OTHER -> 0)
      ends == {i \in start .. Len(text) : text[i] = "}" /\ Depth[i] = 0}
  IN IF ends = {} THEN 0 ELSE CHOOSE i \in ends : \A j \in ends : i <= j

\* balancedEnd: where the brace at start is closed, or 0.
BalancedEnd(text, start) ==
  LET Scan[i \in start - 1 .. Len(text)] ==
        IF i < start THEN [depth |-> 0, quoted |-> FALSE]
        ELSE LET before == Scan[i - 1]
             IN IF text[i] = Quote THEN [before EXCEPT !.quoted = ~ @]
                ELSE IF before.quoted THEN before
                ELSE IF text[i] = "{" THEN [before EXCEPT !.depth = @ + 1]
                ELSE IF text[i] = "}" THEN [before EXCEPT !.depth = @ - 1]
                ELSE before
      ends == {i \in start .. Len(text) :
                 text[i] = "}" /\ Scan[i] = [depth |-> 0, quoted |-> FALSE]}
  IN IF ends = {} THEN 0 ELSE CHOOSE i \in ends : \A j \in ends : i <= j

\* Where the braces that open at b, if they do, are closed; all of the text if
\* they never are.
EnclosedEnd(text, b) ==
  IF TokenAt(text, b) # "{" THEN b - 1
  ELSE LET end == BalancedEnd(text, b) IN IF end = 0 THEN Len(text) ELSE end

\* skipUnknownItem
SkipUnknownItem(text, i) == EnclosedEnd(text, Until(text, i, {",", "}", "{"})) + 1

\* The place after the value at v, which may be quoted.
ValueEnd(text, v) ==
  IF TokenAt(text, v) = Quote
  THEN Min({Until(text, v + 1, {Quote}), Len(text)}) + 1
  ELSE Until(text, v, {Space, "{", "}", ","})

\* The item with its value between v and after and its body between b and end.
Item(text, name, optional, v, after, b, end) ==
  [name |-> name, optional |-> optional,
   value |-> SelectSeq(SubSeq(text, v, after - 1), LAMBDA t : t # Quote),
   body |-> SubSeq(text, b, end), next |-> end + 1]

ItemAt(text, name, optional, v, after) ==
  LET b == Past(text, after, {Space})
  IN Item(text, name, optional, v, after, b, EnclosedEnd(text, b))

\* parseAssignments: a closing brace ends the text.  The next item has its
\* name at n and its = at e; without = it is skipped with what it encloses.
Assignments(text) ==
  LET From[i \in Nat] ==
        LET s == Past(text, i, {Space, ","})
            optional == TokenAt(text, s) = "O-"
            n == IF optional THEN s + 1 ELSE s
            e == Past(text, n + 1, {Space})
            v == Past(text, e + 1, {Space})
            item == ItemAt(text, text[n], optional, v, ValueEnd(text, v))
        IN IF TokenAt(text, s) \in {Nil, "}"} THEN <<>>
           ELSE IF text[s] \in Marks THEN From[s + 1]
           ELSE IF TokenAt(text, e) # "=" THEN From[SkipUnknownItem(text, e)]
           ELSE <<item>> \o From[item.next]
  IN From[1]

\* trimOuterBraces
TrimOuterBraces(text) ==
  IF Len(text) >= 2 /\ text[1] = "{" /\ text[Len(text)] = "}"
  THEN SubSeq(text, 2, Len(text) - 1) ELSE text

\* parseActions: the commands of a transaction, each with its Context.
ParseActions(text) ==
  LET actions == SelectSeq(Assignments(text), LAMBDA a : a.name = "C" /\ a.body # <<>>)
      CommandsOf(action) ==
        LET items == SelectSeq(Assignments(TrimOuterBraces(action.body)),
                               LAMBDA x : CanonicalCommand(x.name) # Nil)
        IN [k \in DOMAIN items |->
             [name |-> CanonicalCommand(items[k].name), terminationID |-> items[k].value,
              body |-> items[k].body, contextID |-> action.value,
              optional |-> items[k].optional]]
  IN FlattenSeq([k \in DOMAIN actions |-> CommandsOf(actions[k])])

\* Parse of what follows the Transaction ID, with assignmentBody.
Parse(text) ==
  LET b == Past(text, 1, {Space})
      end == IF TokenAt(text, b) = "{" THEN BalancedEnd(text, b) ELSE 0
  IN IF end = 0 THEN <<>> ELSE ParseActions(SubSeq(text, b + 1, end - 1))

\* descriptorBodies: what every descriptor with this name encloses.
DescriptorBodies(text, token) ==
  LET From[i \in Nat] ==
        LET index == Until(text, i, {token})
            cursor == Past(text, index + 1, {Space})
            end == IF TokenAt(text, cursor) = "{" THEN BalancedEnd(text, cursor) ELSE 0
        IN IF index > Len(text) THEN <<>>
           ELSE IF end = 0 THEN From[index + 1]
           ELSE <<SubSeq(text, cursor + 1, end - 1)>> \o From[end + 1]
  IN From[1]

----------------------------------------------------------------------------
(* Replies *)

\* SimpleCommandReply, and the descriptor a ServiceChange is answered with
CommandReply(command) ==
  <<CompactCommand[command.name], "=">> \o command.terminationID
    \o (IF command.name = "ServiceChange" THEN <<"{", "SV", "{", "V", "=", "1", "}", "}">>
        ELSE <<>>)

\* Mutant: only the last action is looked at for the Context.
AddReplyToLast(actions, command) ==
  IF actions # <<>> /\ Last(actions).contextID = command.contextID
  THEN [actions EXCEPT ![Len(actions)].commands = Append(@, CommandReply(command))]
  ELSE Append(actions, [contextID |-> command.contextID,
                        commands |-> <<CommandReply(command)>>])

\* The reply goes into the action of its Context, or into a new one.
AddReply(actions, command) ==
  LET index == SelectInSeq(actions, LAMBDA a : a.contextID = command.contextID)
  IN IF index # 0
     THEN [actions EXCEPT ![index].commands = Append(@, CommandReply(command))]
     ELSE Append(actions, [contextID |-> command.contextID,
                           commands |-> <<CommandReply(command)>>])

\* simpleActionReplies: none in case of an error, which the whole transaction
\* gets.
SimpleActionReplies(commands) ==
  IF commands = <<>> \/ \E k \in DOMAIN commands : commands[k].terminationID = <<>>
  THEN <<>> ELSE FoldLeft(AddReply, <<>>, commands)

\* The texts with a comma between them
Joined(texts) ==
  FoldLeft(LAMBDA all, text : IF all = <<>> THEN text ELSE all \o <<",">> \o text, <<>>, texts)

\* BuildActionReply after the Transaction ID; BuildReply puts white space
\* between the actions.
BuildActionReply(actions) ==
  <<"{", Space>>
    \o FlattenSeq([k \in DOMAIN actions |->
         <<"C", "=">> \o actions[k].contextID \o <<"{">> \o Joined(actions[k].commands)
           \o <<"}", Space>>])
    \o <<"}">>

----------------------------------------------------------------------------
(* Properties of a transaction, given as its actions: a sequence of        *)
(* Contexts, each with its items.                                          *)

\* The text of an item and of a transaction, compact or spaced out.
ItemText(x, spaced) ==
  LET gap == IF spaced THEN <<Space>> ELSE <<>>
  IN IF ~ x.assigned THEN <<x.name>> \o gap \o x.body
     ELSE (IF x.optional THEN <<"O-">> ELSE <<>>) \o <<x.name>> \o gap \o <<"=">> \o gap
            \o (IF spaced THEN <<Quote>> \o x.value \o <<Quote>> ELSE x.value)
            \o gap \o x.body
TransactionText(actions, spaced) ==
  LET ActionText(a) ==
        ItemText([name |-> "C", assigned |-> TRUE, optional |-> FALSE, value |-> a.contextID,
                  body |-> <<"{">>
                    \o Joined([k \in DOMAIN a.items |-> ItemText(a.items[k], spaced)])
                    \o <<"}">>], spaced)
  IN <<"{">> \o Joined([k \in DOMAIN actions |-> ActionText(actions[k])]) \o <<"}">>

\* The commands it contains.
CommandsIn(actions) ==
  FlattenSeq([k \in DOMAIN actions |->
    LET items == SelectSeq(actions[k].items,
                           LAMBDA x : x.assigned /\ CanonicalCommand(x.name) # Nil)
    IN [j \in DOMAIN items |->
         [name |-> CanonicalCommand(items[j].name), terminationID |-> items[j].value,
          body |-> items[j].body, contextID |-> actions[k].contextID,
          optional |-> items[j].optional]]])

\* parseAssignments, balancedEnd, skipUnknownItem: every command is found with
\* its own Context, termination and body, in order, and nothing else is taken
\* for one: not the inside of a body, of an unknown item or of a quoted string,
\* whatever braces, commas and escaped quotes are in it.
ParsesCommands(actions, spaced) ==
  CommandsIn(actions) # <<>> =>
    Parse(TransactionText(actions, spaced)) = CommandsIn(actions)

\* The replies have one block per Context, and a reader finds as many commands
\* answered as were given, in each Context in their order.
AnswersInOrder(commands, replies, answered) ==
  LET Of(cs, c) == LET own == SelectSeq(cs, LAMBDA x : x.contextID = c)
                   IN [k \in DOMAIN own |-> <<own[k].name, own[k].terminationID>>]
  IN /\ \A j, k \in DOMAIN replies :
          replies[j].contextID = replies[k].contextID => j = k
     /\ Len(answered) = Len(commands)
     /\ \A k \in DOMAIN commands :
          Of(answered, commands[k].contextID) = Of(commands, commands[k].contextID)

\* simpleActionReplies and BuildActionReply: unless the whole transaction is
\* refused, the Reply has every Context of the request in one C= block, in
\* which a reader that parses as the gateway does finds the reply to each of
\* its commands, in the order they came in.
RepliesByContext(actions) ==
  LET commands == CommandsIn(actions)
      replies  == SimpleActionReplies(commands)
  IN replies # <<>> =>
       AnswersInOrder(commands, replies, Parse(BuildActionReply(replies)))

\* descriptorBodies: the descriptors of a transaction are found wherever they
\* are, but not one inside another.
FindsDescriptors(actions, spaced) ==
  DescriptorBodies(TransactionText(actions, spaced), "R") =
    FlattenSeq([k \in DOMAIN actions |->
      FlattenSeq([j \in DOMAIN actions[k].items |-> actions[k].items[j].remote])])
=============================================================================
