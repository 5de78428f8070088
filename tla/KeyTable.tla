----------------------------- MODULE KeyTable ------------------------------
(***************************************************************************)
(* __UsasgeType of vkbd.c: the HID usage or bit a key code of the backend  *)
(* stands for, and which of the three kinds it is.  A block lists the      *)
(* usages of consecutive codes.                                            *)
(***************************************************************************)
EXTENDS Integers, Sequences

KeyBlock ==
    { <<1, << \h29, \h1E, \h1F, \h20, \h21, \h22, \h23, \h24, \h25,
              \h26, \h27, \h2D, \h2E, \h2A, \h2B, \h14, \h1A, \h08,
              \h15, \h17, \h1C, \h18, \h0C, \h12, \h13, \h2F, \h30,
              \h28, \hE0, \h04, \h16, \h07, \h09, \h0A, \h0B, \h0D,
              \h0E, \h0F, \h33, \h34, \h35, \hE1, \h31, \h1D, \h1B,
              \h06, \h19, \h05, \h11, \h10, \h36, \h37, \h38, \hE5,
              \h55, \hE2, \h2C, \h39, \h3A, \h3B, \h3C, \h3D, \h3E,
              \h3F, \h40, \h41, \h42, \h43, \h53, \h47, \h5F, \h60,
              \h61, \h56, \h5C, \h5D, \h5E, \h57, \h59, \h5A, \h5B,
              \h62, \h63 >> >>,
      <<85, << \h87, \h32, \h44, \h45, \h88, \h89, \h8A, \h8B, \h8C, \h8D >> >>,
      <<96, << \h58, \hE4, \h54, \h46, \hE6 >> >>,
      <<102, << \h4A, \h52, \h4B, \h50, \h4F, \h4D, \h51, \h4E, \h49, \h4C >> >>,
      <<113, << \h7F, \h81, \h80, \h66, \h86, \hD7, \h48 >> >>,
      <<121, << \h85, \h8E, \h8F, \h90, \hE3, \hE7, \h65 >> >>,
      <<131, << \h7A >> >>,
      <<133, << \h7C >> >>,
      <<135, << \h7D >> >>,
      <<137, << \h7B, \h75, \h76 >> >>,
      <<179, << \hB6, \hB7 >> >>,
      <<182, << \h79, \h68, \h69, \h6A, \h6B, \h6C, \h6D, \h6E, \h6F,
                \h70, \h71, \h72, \h73 >> >> }

\* The rows of a set of blocks, as <<code, value>>.
Rows(blocks) == UNION { {<<b[1] + i - 1, b[2][i]>> : i \in 1 .. Len(b[2])} :
                        b \in blocks }

Codes(blocks) == {r[1] : r \in Rows(blocks)}

Value(blocks) == [c \in Codes(blocks) |->
                    (CHOOSE r \in Rows(blocks) : r[1] = c)[2]]

Bits == <<\h01, \h02, \h04, \h08, \h10, \h20, \h40, \h80>>

\* KEYBOARD_KEY: the usage that goes into Keys.
KeyUsage == Value(KeyBlock)

\* Mutant of ModifierBit: the first two bits are exchanged.
ModifierBitSwapped ==
    Value({<<\hE0, <<\h02, \h01>> \o SubSeq(Bits, 3, 8)>>})

\* KEYBOARD_MODIFIER: the bit of Modifiers.
ModifierBit == Value({<<\hE0, Bits>>})

\* MOUSE_BUTTON: the bit of Buttons.
ButtonBit == Value({<<\h110, SubSeq(Bits, 1, 5)>>})

\* What the arrays and bit sets of Vkbd rest on: a usage or bit belongs to
\* one code of its kind, a code is of one kind, and no usage is the 0 of an
\* empty entry or wider than a UCHAR.
ASSUME TableAssumption ==
    /\ \A f \in {KeyUsage, ModifierBit, ButtonBit} :
          \A c, d \in DOMAIN f : f[c] = f[d] => c = d
    /\ DOMAIN KeyUsage \cap DOMAIN ModifierBit = {}
    /\ \A c \in DOMAIN KeyUsage : KeyUsage[c] \in 1 .. 255
============================================================================
