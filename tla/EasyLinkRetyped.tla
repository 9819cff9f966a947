-------------------------- MODULE EasyLinkRetyped --------------------------
(***************************************************************************)
(* The driver of EasyLinkRx when the sender is started again with another  *)
(* password while a password is being reassembled (a user who mistyped     *)
(* it): the statics of STA_MonPktSend live on, and frames of several       *)
(* passwords meet in one buffer.  Nothing but the 16-bit sum in the last   *)
(* frame can tell a mixture from a password.                               *)
(***************************************************************************)
EXTENDS EasyLinkRx

CONSTANT Passwords    \* what the sender was started with; Pwd is one of them

ASSUME PasswordsAssumption ==
    /\ Pwd \in Passwords
    /\ \A p \in Passwords : /\ p \in Seq(Byte)
                            /\ FrmCount(Len(p)) = FrmCount(Len(Pwd))

\* Data frames of a password.
NPairs == FrmCount(Len(Pwd)) - 2

\* What a data frame with index k can carry.
PairsAt(k) == {StrPairs(p)[k] : p \in Passwords}

\* The other stations send frames of these passwords, and none that look like
\* an SSID or like one of the five frames of an address.
OnlyRetyped ==
    \A f \in Noise :
        \/ FrmType(f) = TYPE_CHANNEL
        \/ FrmType(f) = TYPE_REIP /\ FrmIndex(f) > 4
        \/ \E p \in Passwords : \E i \in 0 .. NPairs + 1 :
               f = CredFrame(TYPE_PSWD, p, i)

\* Each pair from one of the passwords.
Mixtures == {m \in [1 .. NPairs -> UNION {PairsAt(k) : k \in 1 .. NPairs}] :
                \A k \in 1 .. NPairs : m[k] \in PairsAt(k)}

SumsOf == {PairSum(StrPairs(p), NPairs) : p \in Passwords}

\* No mixture has the sum of a password unless it is one.
Distinguishable ==
    \A m \in Mixtures : PairSum(m, NPairs) \in SumsOf =>
                            m \in {StrPairs(p) : p \in Passwords}

-----------------------------------------------------------------------------
(***************************************************************************)
(* The additive checksum of the driver keeps passwords whole: when no      *)
(* mixture of the passwords on the air has the byte sum of one of them,    *)
(* the accepted password is one that was really sent, whatever was lost,   *)
(* repeated or reordered while the sender was started again, and the       *)
(* address is not disturbed by frames beyond its five.                     *)
(***************************************************************************)
AcceptedWhole ==
    /\ TYPE_PSWD \in uRecOK =>
         \E p \in Passwords : Held(TYPE_PSWD) = Padded(p)
    /\ TYPE_REIP \in uRecOK => uReip = Reip

-----------------------------------------------------------------------------
(***************************************************************************)
(* Why it holds: after the first frame 0, a pair whose bit is set is the   *)
(* pair of some password, not always of the same one; the sum kept with    *)
(* the last bit is that of some password; what was accepted is complete    *)
(* and has the sum that was kept when it was accepted.                     *)
(***************************************************************************)
MixedInv ==
    /\ uLen[TYPE_PSWD] \in {0, NPairs + 2}
    /\ uLen[TYPE_PSWD] = 0 => 0 \notin uRecMask[TYPE_PSWD]
    /\ uLen[TYPE_PSWD] # 0 =>
         \A k \in 1 .. Chunks :
            IF k \in uRecMask[TYPE_PSWD] /\ k <= NPairs
            THEN buf[Cell(TYPE_PSWD, k)] \in PairsAt(k)
            ELSE buf[Cell(TYPE_PSWD, k)] = Zero
    /\ uLen[TYPE_PSWD] # 0 /\ NPairs + 1 \in uRecMask[TYPE_PSWD] =>
         \E s \in SumsOf : uCrc[TYPE_PSWD] = MAGIC + (NPairs + 2) + s
    /\ TYPE_PSWD \in uRecOK =>
         /\ uLen[TYPE_PSWD] # 0
         /\ Complete(uRecMask[TYPE_PSWD], uLen[TYPE_PSWD])
         /\ uCrc[TYPE_PSWD] = CredSum(TYPE_PSWD, buf, NPairs + 2)
=============================================================================
