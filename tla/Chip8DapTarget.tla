--------------------------- MODULE Chip8DapTarget ---------------------------
(***************************************************************************)
(* What the host of the debug port is promised.  Packets are executed in    *)
(* the order sent, each at most once, only when whole; writes, holds and    *)
(* releases of the core need the unlock; OK is answered for what was done   *)
(* completely, any other status for what left no trace.                     *)
(***************************************************************************)
EXTENDS Chip8DapPackets

CONSTANTS RomSize, SeqSpace

VARIABLES todo,           \* packets sent or to be sent and not executed
          work,           \* the packet under way and its effects so far
          unlocked, hold, \* the lock, and the hold of the core
          release,        \* the core is let go: a pulse
          regs, rom,      \* registers and program memory
          next,           \* sequence number of the next ROM chunk
          answers         \* all answers begun

lock       == <<unlocked, hold>>
data       == <<regs, rom, next>>
still      == <<todo, work, lock, data, answers>>    \* all but the pulse
targetVars == <<still, release>>

Start ==
  /\ work = <<>> /\ answers = <<>>
  /\ ~ unlocked /\ ~ hold /\ ~ release /\ next = 0

Take(p)     == \E k \in DOMAIN todo :
                 todo[k] = p /\ todo' = SubSeq(todo, k + 1, Len(todo))
Refusals    == {"BAD_SOF", "BAD_VERSION", "BAD_CRC", "BAD_LEN", "BAD_CMD", "LOCKED",
                "BAD_SEQ", "ROM_CRC"}
Reply(seq, status, payload) == answers' = Append(answers, Answer(seq, status, payload))

(* Bytes that are no packet are answered and change nothing.                *)
Garbage == /\ work = <<>> /\ UNCHANGED <<todo, work, lock, data>>
           /\ answers' # <<>>
           /\ LET last == answers'[Len(answers')]
              IN last.status \in Refusals /\ Reply(last.seq, last.status, <<>>)

Refuse(p) == /\ work = <<>> /\ Take(p)
             /\ \E status \in Refusals : Reply(p.seq, status, <<>>)
             /\ unlocked' \in {unlocked, FALSE} /\ UNCHANGED <<work, hold, data>>

Ok(p, payload) == Reply(p.seq, "OK", payload)
Local(p) ==
  /\ work = <<>> /\ Take(p)
  /\ \/ p.cmd = Code.PING /\ Ok(p, <<>>) /\ UNCHANGED lock
     \/ p.cmd = Code.ID /\ Ok(p, Identity) /\ UNCHANGED lock
     \/ p.cmd = Code.GET_STATUS /\ Ok(p, <<IF unlocked THEN 0 ELSE 1, next>>) /\ UNCHANGED lock
     \/ p.cmd = Code.UNLOCK /\ p.payload = <<Key>> /\ Ok(p, <<>>) /\ unlocked' /\ UNCHANGED hold
     \/ p.cmd = Code.LOCK /\ Ok(p, <<>>) /\ ~ unlocked' /\ ~ hold'
  /\ UNCHANGED <<work, data>>

(* One holds the core, zero lets it go. *)
Hold(p) ==
  /\ work = <<>> /\ unlocked /\ Take(p) /\ p.cmd = Code.HOLD_CORE /\ Ok(p, <<>>)
  /\ hold' = (Switch(p.payload) = 1) /\ release' = (Switch(p.payload) = 0)
  /\ UNCHANGED <<work, unlocked, data>>

Begin(p) ==
  /\ work = <<>> /\ Take(p)
  /\ \/ p.cmd = Code.READ32
     \/ p.cmd \in {Code.WRITE32, Code.ROM_WRITE} /\ unlocked
  /\ work' = <<[p |-> p, done |-> 0]>> /\ UNCHANGED <<lock, data, answers>>

Doing(cmd) == work # <<>> /\ work[1].p.cmd = cmd
Advance    == work' = [work EXCEPT ![1].done = @ + 1]

WriteRegister ==
  /\ Doing(Code.WRITE32) /\ work[1].done = 0 /\ Advance
  /\ LET a == work[1].p.payload[1].n
     IN regs' = [regs EXCEPT ![a] = [val |-> work[1].p.payload[2].n, odd |-> ~ @.odd]]
  /\ UNCHANGED <<todo, lock, rom, next, answers>>

WriteByte ==
  /\ Doing(Code.ROM_WRITE) /\ work[1].done < LengthByte(work[1].p.payload) /\ Advance
  /\ LET p == work[1].p
         k == work[1].done
     IN /\ p.seq = next
        /\ rom' = [rom EXCEPT ![(ChunkOffset(p.payload) + k) % RomSize] =
                     ChunkByte(p.payload, k + 1)]
        /\ next' = IF k + 1 = LengthByte(p.payload) THEN (next + 1) % SeqSpace ELSE next
  /\ UNCHANGED <<todo, lock, regs, answers>>

Finish ==
  /\ work # <<>> /\ work' = <<>> /\ UNCHANGED <<todo, lock, data>>
  /\ LET p == work[1].p
         done == work[1].done
     IN \/ p.cmd = Code.READ32 /\ Ok(p, <<regs[p.payload[1].n].val>>)
        \/ p.cmd = Code.WRITE32 /\ done = 1 /\ Ok(p, <<>>)
        \/ p.cmd = Code.ROM_WRITE /\ done > 0 /\ done = LengthByte(p.payload) /\ Ok(p, <<>>)
        \/ /\ p.cmd = Code.ROM_WRITE /\ done = 0
           /\ Reply(p.seq, "BAD_SEQ", <<next>>) \/ Reply(p.seq, "ROM_CRC", <<>>)

(* The pulse of a release ends with the next step, or in one of its own.    *)
Step == \/ Garbage \/ WriteRegister \/ WriteByte \/ Finish
        \/ \E k \in DOMAIN todo : Refuse(todo[k]) \/ Local(todo[k]) \/ Begin(todo[k])
Do   == \/ ~ release' /\ (Step \/ UNCHANGED still)
        \/ \E k \in DOMAIN todo : Hold(todo[k])
Target == Start /\ [][Do]_targetVars
=============================================================================
