-------------------------------- MODULE Lines --------------------------------
(***************************************************************************)
(* What becomes of the text of a line between journal and client: the      *)
(* record journalctl prints is parsed (core/journal.rs), its message masked*)
(* for the templates (mask.rs) and held against the quiet rules (quiet.rs),*)
(* and an anomaly is put into the words of the protocol (daemon/wire.rs).  *)
(*                                                                         *)
(* A message is its characters, by their width in bytes with 0 for a byte  *)
(* that is no character; its tokens, each a row of pieces of which the     *)
(* marks at either end are cut off; and the patterns of rules it matches.  *)
(***************************************************************************)
EXTENDS Integers, SequencesExt

CONSTANTS
  Messages,       \* [chars, tokens, rules]
  StampTexts, PidTexts, PriorityTexts, LineUnits,  \* what the other fields may hold, <<x>> or
                  \* Absent, also what is no time or number of theirs
  StampRange, PidRange, PriorityRange,  \* u64, i32, u8
  AnomalyLevels,  \* of what leaves the analysis
  Forms,          \* the masks a core fits, of a core that fits any
  QuietRules,     \* config.quiet: [unit, pattern]
  Compiling,      \* the patterns that are regular expressions
  SampleMax,      \* SAMPLE_MESSAGE_MAX_BYTES
  MarkerBytes     \* bytes of TRUNCATION_MARKER

Absent == <<>>

ASSUME LinesAssumption ==
  /\ {MarkerBytes, SampleMax} \subseteq Nat /\ SampleMax > MarkerBytes /\ PidRange \subseteq Int
  /\ \A message \in Messages : "chars" \in DOMAIN message /\ message.chars \in Seq(0..4)

VARIABLES
  record,   \* the record last parsed
  told,     \* the event it became, or Absent
  masked,   \* its message as the templates get it
  earlier   \* history: tokens and masked tokens of the record before it

journey == <<record, told, masked, earlier>>

LinesInit == record = Absent /\ told = Absent /\ masked = <<>> /\ earlier = [tokens |-> <<>>, masked |-> <<>>]

-----------------------------------------------------------------------------
\* parse_journal_line.

\* from_utf8_lossy of a message of bytes: three bytes stand for one that is no character.
Lossy(chars) == [i \in DOMAIN chars |-> IF chars[i] = 0 THEN 3 ELSE chars[i]]
Parsed(text, range) == IF text # Absent /\ text[1] \in range THEN text ELSE Absent
Silent == [chars |-> <<>>, tokens |-> <<>>, rules |-> {}]

Parse(raw) ==
  [unit |-> raw.unit, pid |-> Parsed(raw.pid, PidRange),
   priority |-> Parsed(raw.priority, PriorityRange),
   message |-> IF raw.message = Absent THEN Silent ELSE [raw.message EXCEPT !.chars = Lossy(@)]]

-----------------------------------------------------------------------------
\* mask_message.

TrimChars == {",", ".", ":", ";", "(", ")"}
Masks == <<"TIMESTAMP", "UUID", "MAC", "PID", "IPV6", "IPV4", "HEX", "PATH", "NUM">>

\* split_punctuation: the marks at the ends, and what is between them.
LeadOf(token) == SelectInSeq(token, LAMBDA piece : piece \notin TrimChars)
Core(token) ==
  IF LeadOf(token) = 0 THEN <<>>
  ELSE SubSeq(token, LeadOf(token), SelectLastInSeq(token, LAMBDA piece : piece \notin TrimChars))

\* The first of Masks that a core fits.
FirstMask(core) ==
  Masks[CHOOSE n \in DOMAIN Masks :
          Masks[n] \in Forms[core] /\ \A k \in DOMAIN Masks : k < n => Masks[k] \notin Forms[core]]

\* No expression lets a placeholder through, and what fits that of a MAC is too short for a
\* UUID and too long for a time.  A line may hold a placeholder of its own.
ASSUME MasksAssumption ==
  \A core \in DOMAIN Forms :
    /\ core \in Seq(STRING) \ {<<>>} /\ Forms[core] \cap ToSet(Masks) # {}
    /\ \A k \in DOMAIN core : core[k] \notin ToSet(Masks)
    /\ "MAC" \in Forms[core] => {"TIMESTAMP", "UUID"} \cap Forms[core] = {}

\* Mutant: the mask for IPv6 before that for MAC.
MaskCoreIpFirst(core) ==
  IF core \notin DOMAIN Forms THEN core
  ELSE IF "IPV6" \in Forms[core] THEN <<"IPV6">> ELSE <<FirstMask(core)>>

\* mask_core: the first mask that fits; of a process with its pid the name stays.
MaskCore(core) ==
  IF core \notin DOMAIN Forms THEN core
  ELSE IF FirstMask(core) = "PID" THEN <<Head(core), "PID">> ELSE <<FirstMask(core)>>

MaskToken(token) ==
  LET lead == IF LeadOf(token) = 0 THEN token ELSE SubSeq(token, 1, LeadOf(token) - 1)
  IN  <<lead, MaskCore(Core(token)), SubSeq(token, Len(lead) + Len(Core(token)) + 1, Len(token))>>

-----------------------------------------------------------------------------
\* QuietFilter: a rule whose pattern does not compile is left out.

Compiled == {rule \in QuietRules : rule.pattern \in Compiling}
IsQuiet(line) ==
  \E rule \in Compiled : rule.unit \in {Absent, line.unit} /\ rule.pattern \in line.message.rules

-----------------------------------------------------------------------------
\* build_anomaly_event.

Bytes(chars) ==
  LET upto[n \in 0..Len(chars)] == IF n = 0 THEN 0 ELSE upto[n - 1] + chars[n]
  IN  upto[Len(chars)]

\* Mutant: up to the end of the character that does not fit.
TruncateUpwards(chars) ==
  IF Bytes(chars) <= SampleMax THEN [chars |-> chars, marker |-> FALSE]
  ELSE LET n == CHOOSE k \in 0..Len(chars) :
                  /\ Bytes(SubSeq(chars, 1, k)) >= SampleMax - MarkerBytes
                  /\ \A j \in 0..(k - 1) : Bytes(SubSeq(chars, 1, j)) < SampleMax - MarkerBytes
       IN  [chars |-> SubSeq(chars, 1, n), marker |-> TRUE]

\* truncate_sample_message: back to where a character begins.
Truncate(chars) ==
  IF Bytes(chars) <= SampleMax THEN [chars |-> chars, marker |-> FALSE]
  ELSE LET n == CHOOSE k \in 0..Len(chars) :
                  /\ Bytes(SubSeq(chars, 1, k)) <= SampleMax - MarkerBytes
                  /\ Bytes(SubSeq(chars, 1, k + 1)) > SampleMax - MarkerBytes
       IN  [chars |-> SubSeq(chars, 1, n), marker |-> TRUE]

\* A pid below zero is none.
Event(line, level) ==
  [sample |-> Truncate(line.message.chars), unit |-> line.unit, priority |-> line.priority,
   pid |-> IF line.pid # Absent /\ line.pid[1] >= 0 THEN line.pid ELSE Absent, level |-> level]

TokensOf(raw) == IF raw = Absent \/ raw.message = Absent THEN <<>> ELSE raw.message.tokens

\* A record comes in: without a time it is an error, otherwise the templates get its tokens
\* and, unless a rule wants it quiet, the analysis may find it remarkable.
Read(raw) ==
  LET line == Parse(raw)
  IN  IF Parsed(raw.stamp, StampRange) = Absent
      THEN told' = Absent /\ UNCHANGED <<record, masked, earlier>>
      ELSE /\ record' = raw
           /\ masked' = [i \in DOMAIN line.message.tokens |-> MaskToken(line.message.tokens[i])]
           /\ earlier' = [tokens |-> TokensOf(record), masked |-> masked]
           /\ \/ told' = Absent
              \/ ~IsQuiet(line) /\ \E level \in AnomalyLevels : told' = Event(line, level)

LinesNext ==
  \E stamp \in StampTexts, pid \in PidTexts, priority \in PriorityTexts, unit \in LineUnits,
     message \in Messages \cup {Absent} :
    Read([stamp |-> stamp, pid |-> pid, priority |-> priority, unit |-> unit, message |-> message])

-----------------------------------------------------------------------------
(* Properties                                                              *)

\* A client gets the message of an anomaly whole, or as many of its characters as fit with
\* the marker, never more bytes than allowed, and the pid the line had or none
\* (truncate_sample_message, build_anomaly_event).
SampleIsWhole ==
  told # Absent =>
    LET all == IF record.message = Absent THEN <<>> ELSE Lossy(record.message.chars)
        size == Bytes(told.sample.chars) + IF told.sample.marker THEN MarkerBytes ELSE 0
    IN  /\ IsPrefix(told.sample.chars, all) /\ size <= SampleMax
        /\ IF told.sample.marker THEN size + all[Len(told.sample.chars) + 1] > SampleMax
                                 ELSE told.sample.chars = all
        /\ told.pid \in {Absent, record.pid}

\* What a core passes for: the masks it fits, and the placeholder it spells.
Kinds(core) ==
  (IF core \in DOMAIN Forms THEN Forms[core] ELSE {}) \cup (ToSet(core) \cap ToSet(Masks))

\* Two tokens of lines one after the other that are the same to the templates have the same
\* core, or both pass for one and the same mask: the names of two processes stay apart, and a
\* MAC, which fits the expression for IPv6 as well, is never taken for an address (mask_core,
\* maskiert_mac_nicht_als_ipv6).  Nothing is said of what an expression lets through: 1:02:03
\* is no time to the first one and becomes an address.
MasksKeepKindsApart ==
  \A i \in DOMAIN earlier.masked, j \in DOMAIN masked :
    earlier.masked[i] = masked[j] =>
      LET a == Core(earlier.tokens[i])
          b == Core(TokensOf(record)[j])
      IN  \/ a = b
          \/ \E mask \in Kinds(a) \cap Kinds(b) :
               /\ mask = "PID" => Head(a) = Head(b)
               /\ "MAC" \in Kinds(a) \cup Kinds(b) => mask = "MAC"
=============================================================================
