--------------------------- MODULE ProtocolStats ----------------------------
(***************************************************************************)
(* GetProtocolStats (netproto.go): /proc/net/snmp and /proc/net/netstat,   *)
(* parsed into one map.  For each protocol a file has a line of names and  *)
(* a line of values; lines may be missing from what is read, and a kernel  *)
(* may write more columns in one of the two than in the other.             *)
(***************************************************************************)
EXTENDS Integers, Sequences

CONSTANTS
  Tables,    \* what the two files say: the protocols of each, in order
  MaxColumns \* bound: columns of a line

\* The protocols of the two files.
Protocols == UNION {{t[f][i] : i \in DOMAIN t[f]} : t \in Tables, f \in {1, 2}}

\* "Both files share a format and carry disjoint protocol keys."
ASSUME ProtocolAssumption ==
  /\ MaxColumns \in Nat /\ Tables \subseteq Seq(Seq(Protocols))
  /\ \A t \in Tables : Len(t) = 2 /\ \A f, g \in {1, 2} :
       \A i \in DOMAIN t[f], j \in DOMAIN t[g] : t[f][i] = t[g][j] => f = g /\ i = j

VARIABLES
  parseAt,   \* where the call is
  tables,    \* the protocols of each file
  width,     \* columns of each line, none of one that is missing
  readable,  \* files that are there
  fileNo,    \* the file being parsed
  lineNo,    \* lines of it gone through
  pending,   \* pendingProto and pendingHeader: a line, or none
  protocols  \* Protocols: the columns filled in, with what they were named by

protoVars == <<parseAt, tables, width, readable, fileNo, lineNo, pending, protocols>>

NoLine == <<>>
Kinds  == {"names", "values"}

\* Their lines.
Lines == Protocols \X Kinds

\* Line n of a file: the protocols' names and values by turns.
LineOf(protos, n) ==
  <<protos[(n + 1) \div 2], IF n % 2 = 1 THEN "names" ELSE "values">>

\* A counter: the protocol it is filed under, the line that names it, the line
\* its number is from, and the column in both.
Counter == Protocols \X Lines \X Lines \X (1..MaxColumns)

-----------------------------------------------------------------------------
\* Types of every variable.
ProtocolTypeOK ==
  /\ parseAt \in {"idle", "open", "lines", "returned"}
  /\ tables \in Tables /\ width \in [Lines -> 0..MaxColumns]
  /\ readable \subseteq {1, 2}
  /\ fileNo \in 1..3 /\ lineNo \in Nat
  /\ pending \in Lines \cup {NoLine}
  /\ protocols \subseteq Counter

ProtocolInit ==
  /\ parseAt = "idle" /\ tables \in Tables
  /\ width \in [Lines -> 0..MaxColumns]
  /\ readable \in SUBSET {1, 2}
  /\ fileNo = 1 /\ lineNo = 0 /\ pending = NoLine /\ protocols = {}

BeginParse ==
  /\ parseAt = "idle" /\ parseAt' = "open"
  /\ UNCHANGED <<tables, width, readable, fileNo, lineNo, pending, protocols>>

-----------------------------------------------------------------------------
(* getProtocolStats' loop over the files.                                  *)

\* "A missing file is skipped rather than fatal."  Each file is parsed with a
\* pending header of its own.
OpenFile ==
  /\ parseAt = "open" /\ fileNo <= 2
  /\ IF fileNo \in readable
     THEN parseAt' = "lines" /\ UNCHANGED fileNo
     ELSE fileNo' = fileNo + 1 /\ UNCHANGED parseAt
  /\ lineNo' = 0 /\ pending' = NoLine
  /\ UNCHANGED <<tables, width, readable, protocols>>

FilesRead ==
  /\ parseAt = "open" /\ fileNo > 2
  /\ parseAt' = "returned"
  /\ UNCHANGED <<tables, width, readable, fileNo, lineNo, pending, protocols>>

-----------------------------------------------------------------------------
(* parseProcNetSNMP.                                                       *)

\* Mutant: lines are paired by their order alone.
PairsByOrder(line) == pending # NoLine

\* The header waiting for its values is of the same protocol.
Pairs(line) == pending # NoLine /\ pending[1] = line[1]

\* The columns both lines have; a name is not a number and is passed over.
Columns(header, line) ==
  IF line[2] = "names" THEN {}
  ELSE {<<line[1], header, line, k>> :
          k \in {c \in 1..MaxColumns : c <= width[header] /\ c <= width[line]}}

\* A line without columns is passed over, as one that is missing; any other
\* that does not pair is a new header, and the one that waited is given up.
ParseLine ==
  /\ parseAt = "lines" /\ lineNo < 2 * Len(tables[fileNo])
  /\ lineNo' = lineNo + 1
  /\ LET line == LineOf(tables[fileNo], lineNo + 1)
     IN  IF width[line] = 0
         THEN UNCHANGED <<pending, protocols>>
         ELSE IF Pairs(line)
              THEN /\ protocols' = protocols \cup Columns(pending, line)
                   /\ pending' = NoLine
              ELSE pending' = line /\ UNCHANGED protocols
  /\ UNCHANGED <<parseAt, tables, width, readable, fileNo>>

FileParsed ==
  /\ parseAt = "lines" /\ lineNo = 2 * Len(tables[fileNo])
  /\ parseAt' = "open" /\ fileNo' = fileNo + 1
  /\ UNCHANGED <<tables, width, readable, lineNo, pending, protocols>>

ProtocolNext == BeginParse \/ OpenFile \/ FilesRead \/ ParseLine \/ FileParsed

ProtocolSpec == ProtocolInit /\ [][ProtocolNext]_protoVars

-----------------------------------------------------------------------------
(* Properties.                                                             *)

\* The lines of p are both there.
Whole(p) ==
  /\ \E f \in readable : \E i \in DOMAIN tables[f] : tables[f][i] = p
  /\ \A k \in Kinds : width[<<p, k>>] > 0

\* "If a value line is missing (a torn read), a naive alternating parser would
\* zip Tcp's header against Udp's numbers" (netproto.go:78-81): whatever lines
\* are missing, a counter is the protocol's own number under its own name; and a
\* protocol whose two lines were read has every column both of them have,
\* whatever was missing around it.
CountersPaired ==
  /\ \A c \in protocols : c[2] = <<c[1], "names">> /\ c[3] = <<c[1], "values">>
  /\ parseAt = "returned" =>
       \A p \in Protocols : Whole(p) =>
         {c[4] : c \in {d \in protocols : d[1] = p}}
           = {k \in 1..MaxColumns : \A l \in Kinds : k <= width[<<p, l>>]}
=============================================================================
