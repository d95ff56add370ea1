----------------------------- MODULE RecordLink -----------------------------
(***************************************************************************)
(* FastCGI records over a socket: begin_res_task of output_control.cpp     *)
(* writes an output as a header, its content and padding, and flushes;     *)
(* record.cpp lays out the header, and a peer that follows FastCGI takes   *)
(* the bytes apart again.  A byte of a number of 16 bits has Base values,   *)
(* 256 in the code.                                                        *)
(***************************************************************************)
EXTENDS Socket, SequencesExt

CONSTANTS Base, Outputs, MaxOutputs     \* MaxOutputs: bound of the model

\* The id of an output is that of a request, which had 16 bits in a header.
ASSUME LinkAssumption ==
  /\ Base \in Nat \ {0}
  /\ Outputs \subseteq [type : Nat, id : 0..(Base * Base - 1), src : Seq(Nat)]

VARIABLES outputs,   \* what was given to output_control::write
          todo       \* what is still to be written of the last one

linkVars == <<socketVars, outputs, todo>>

HeaderLen == 8      \* FCGI_HEADER_LEN
Version   == 1      \* FCGI_VERSION_1
U16       == Base * Base

read_u16_be(bytes, at)  == bytes[at] * Base + bytes[at + 1]
write_u16_be_Fault(val) == <<val % Base, (val \div Base) % Base>>
write_u16_be(val)       == <<(val \div Base) % Base, val % Base>>

\* record::serialize; the last byte is not set.
Serialize(r, reserved) ==
  <<Version, r.type>> \o write_u16_be(r.id) \o write_u16_be(r.content_len)
     \o <<r.padding_len, reserved>>

\* record::parse
ParseHeader(bytes) ==
  [type |-> bytes[2], id |-> read_u16_be(bytes, 3), content_len |-> read_u16_be(bytes, 5),
   padding_len |-> bytes[7]]

\* The record that announces an output of this size
RecordOf(o) ==
  [type |-> o.type, id |-> o.id % U16, content_len |-> Len(o.src) % U16,
   padding_len |-> Len(o.src) % HeaderLen]

LinkInit == SocketInit /\ outputs = <<>> /\ todo = <<>>

Output(o) ==
  /\ todo = <<>> /\ writer.pc = "idle" /\ Available(m_out_buffer) = 0
  /\ Len(outputs) < MaxOutputs
  /\ outputs' = Append(outputs, o)
  /\ \E reserved \in {0, Base - 1} :
       todo' = <<Serialize(RecordOf(o), reserved), o.src,
                 [k \in 1..RecordOf(o).padding_len |-> 0]>>
  /\ UNCHANGED socketVars

WritePart ==
  /\ todo # <<>>
  /\ Write(Head(todo))
  /\ todo' = Tail(todo)
  /\ UNCHANGED outputs

FlushAll == todo = <<>> /\ Flush /\ UNCHANGED <<outputs, todo>>

\* A connection that has ended stays so.
Rest == (shut \/ broken) /\ UNCHANGED linkVars

LinkNext ==
  \/ Rest
  \/ \E o \in Outputs : Output(o)
  \/ WritePart \/ FlushAll
  \/ (Reads \/ Kernel \/ Shutdown \/ Break) /\ UNCHANGED <<outputs, todo>>

LinkSpec == LinkInit /\ [][LinkNext]_linkVars
FairLinkSpec == LinkSpec /\ SocketFairness

-----------------------------------------------------------------------------
(* The peer, and the properties *)

NoRecord == [header |-> <<>>, src |-> <<>>, padding |-> 0]

\* The peer's state after another byte, with the outputs it has taken apart
Eat(p, byte) ==
  LET at == p.at
      q  == IF Len(at.header) < HeaderLen THEN [at EXCEPT !.header = Append(@, byte)]
            ELSE IF Len(at.src) < ParseHeader(at.header).content_len
                 THEN [at EXCEPT !.src = Append(@, byte)]
                 ELSE [at EXCEPT !.padding = @ + 1]
      h  == ParseHeader(q.header)
  IN  IF Len(q.header) = HeaderLen /\ Len(q.src) = h.content_len /\ q.padding = h.padding_len
      THEN [at |-> NoRecord,
            taken |-> Append(p.taken, [type |-> h.type, id |-> h.id, src |-> q.src])]
      ELSE [p EXCEPT !.at = q]

Taken == FoldLeft(Eat, [at |-> NoRecord, taken |-> <<>>], got).taken

\* The peer finds the outputs in the bytes, as they were given to
\* output_control::write, up to the first whose size 16 bits cannot hold.
Framed ==
  \A k \in DOMAIN Taken :
    (\A j \in DOMAIN outputs : j <= k => Len(outputs[j].src) < U16)
      => k \in DOMAIN outputs /\ Taken[k] = outputs[k]

\* When the last output has been written and is being flushed, every byte
\* arrives, however often the rings are full.
Delivered ==
  writer.pc = "flushing" /\ todo = <<>> /\ Len(outputs) = MaxOutputs
    ~> got = sent \/ shut \/ broken
=============================================================================
