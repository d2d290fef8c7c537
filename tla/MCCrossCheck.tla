--------------------------- MODULE MCCrossCheck ---------------------------
\* One host, thirty-one machines and fifteen chains: each machine differs
\* from a plain one of its platform in what one or two variables point at.
EXTENDS CrossCheck

Cert(id, subject, issuer, until) ==
  [id |-> id, subject |-> subject, issuer |-> issuer, from |-> -10, until |-> until,
   san |-> TRUE, names |-> {<<"*", "api", "com">>}]
Root     == Cert("Root", "root", "root", 900)    \* the bundled one
Reissued == Cert("Reissued", "root", "root", 900) \* the same name, newer
Corp     == Cert("Corp", "corp", "corp", 900)    \* added to the machine
Corp2    == Cert("Corp2", "corp", "corp", 900)
Sub      == Cert("Sub", "sub", "root", 900)
Cross    == Cert("Cross", "sub", "corp", 900)   \* the same CA under another issuer
Old      == Cert("Old", "sub", "root", 0)
Ageing   == Cert("Ageing", "sub", "root", 60)
Early    == [Cert("Early", "leaf", "root", 900) EXCEPT !.from = 1]
Plain    == Cert("Plain", "leaf", "root", 900)
Inspected == Cert("Inspected", "leaf", "corp", 900)
Under    == Cert("Under", "leaf", "sub", 900)
Ring     == Cert("Ring", "ring", "leaf", 900)
Looped   == [Cert("Looped", "leaf", "ring", 900) EXCEPT !.names = {}]
MCBundled == {Root}
MCCerts == {Root, Reissued, Corp, Corp2, Sub, Cross, Old, Ageing, Early, Plain, Inspected, Under, Ring, Looped}

Host == <<"eu", "api", "com">>
Got(chain) == [ok |-> TRUE, chain |-> chain, rank |-> 3, sni |-> Host]
MCCaptures ==
  {Got(chain) : chain \in {<<>>, <<Junk>>, <<Plain>>, <<Plain, Root>>, <<Plain, Reissued>>,
     <<Inspected>>, <<Inspected, Corp>>, <<Inspected, Corp, Root>>, <<Under, Sub, Root>>,
     <<Under, Old, Root>>, <<Under, Root, Ageing>>, <<Under, Sub, Cross, Root>>, <<Early, Root>>,
     <<Looped, Ring>>}}
  \cup {[Got(<<Plain, Root>>) EXCEPT !.rank = 1]}

F(blocks) == [state |-> "there", blocks |-> blocks]
No(state) == [state |-> state, blocks |-> {}]
Part(kind, der) == [kind |-> kind, der |-> der]
Open(der) == Part("cert", der)
K(format, parts) == [state |-> "there", format |-> format, parts |-> parts]
On(platform, keychains) ==
  [platform |-> platform, keychains |-> keychains, nodeExtra |-> No("unset"), sslFile |-> No("unset"),
   requests |-> No("unset"), sslDir |-> [state |-> "unset", files |-> <<>>],
   certifi |-> <<F({Root})>>, cacerts |-> <<K("jks", <<Open(Root)>>)>>]
Linux == On("linux", <<F({Root, Corp})>>)
Dir(files) == [state |-> "there", files |-> files]
MCWorlds ==
  {Linux, On("linux", <<F({Root})>>), On("linux", <<No("huge")>>), On("linux", <<F({Corp, Junk})>>),
   On("other", <<>>), On("darwin", <<F({Root}), F({Corp, Corp2})>>), On("win32", <<F({Corp2, Reissued})>>),
   [Linux EXCEPT !.nodeExtra = F({Corp})], [Linux EXCEPT !.nodeExtra = No("absent")],
   [Linux EXCEPT !.nodeExtra = F({Corp, Junk})],
   [Linux EXCEPT !.sslFile = F({Root, Corp}), !.requests = F({Corp})],
   [Linux EXCEPT !.sslFile = No("unreadable")], [Linux EXCEPT !.sslFile = F({Root}), !.requests = No("absent")],
   [Linux EXCEPT !.sslDir = Dir(<<F({Root}), No("unreadable"), F({Corp})>>)],
   [Linux EXCEPT !.sslDir = Dir(<<F({Root}), F({Corp})>>)],
   [Linux EXCEPT !.sslDir = [state |-> "unreadable", files |-> <<>>], !.certifi = <<>>],
   [Linux EXCEPT !.certifi = <<F({Root}), F({Root, Corp}), No("unreadable")>>],
   [Linux EXCEPT !.cacerts = <<>>], [Linux EXCEPT !.cacerts = <<K("pkcs12", <<Part("sealed", Corp), Open(Root)>>), K("pkcs12", <<Open(Corp)>>)>>],
   [Linux EXCEPT !.cacerts = <<K("pkcs12", <<Part("sealed", Corp)>>),
                               K("jks", <<Open(Corp), Part("truncated", Junk), Open(Root)>>)>>],
   [Linux EXCEPT !.cacerts = <<K("jks", <<Open(Root), Part("key", Corp)>>), K("other", <<>>)>>],
   [Linux EXCEPT !.cacerts = <<K("pkcs12", <<Open(Root), Part("key", Junk), Part("rider", Corp)>>)>>],
   [Linux EXCEPT !.cacerts = <<K("pkcs12", <<Open(Root), Open(Sub), Part("sealed", Corp)>>),
                               [K("jks", <<>>) EXCEPT !.state = "huge"]>>],
   [Linux EXCEPT !.cacerts = <<K("pkcs12", <<Open(Corp), Part("unsupported-format", Junk)>>),
                               K("jks", <<Part("key", Root)>>)>>],
   [Linux EXCEPT !.certifi = <<F({Root, Junk})>>, !.requests = F({Corp})],
   On("win32", <<F({Corp, Junk})>>),
   [Linux EXCEPT !.nodeExtra = F({Corp}), !.requests = F({Corp}), !.cacerts = <<K("jks", <<Open(Corp)>>)>>],
   [On("linux", <<F({Corp2})>>) EXCEPT !.cacerts = <<K("jks", <<Open(Corp)>>)>>, !.nodeExtra = F({Corp})],
   [On("linux", <<F({Root})>>) EXCEPT !.certifi = <<No("unreadable")>>],
   [On("darwin", <<F({Root})>>) EXCEPT !.cacerts = <<>>],
   [On("darwin", <<F({Corp})>>) EXCEPT !.sslFile = F({Corp}), !.cacerts = <<K("pkcs12", <<Open(Root), Open(Corp)>>)>>,
                                       !.nodeExtra = F({Corp})]}
\* The machines of the two findings about stores that were not read whole.
MCSilentWorlds == {[On("linux", <<F({Root})>>) EXCEPT !.certifi = <<No("unreadable")>>]}
MCDirWorlds ==
  {[Linux EXCEPT !.sslDir = Dir(<<F({Root}), No("unreadable"), F({Corp})>>)],
   [Linux EXCEPT !.sslDir = Dir(<<F({Root}), F({Corp})>>)]}
MCTargets == {"eu"}
MCRuntimes == <<"node", "go", "python", "java">>
=============================================================================
