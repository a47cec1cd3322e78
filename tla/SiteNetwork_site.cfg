\* Three sites: a ring, a restart of the concentrator, a lost call.
CONSTANTS
 A=A B=B C=C a=a b=b c=c a2=a2 ab=ab ab2=ab2 bc=bc ca=ca netA=netA netB=netB far=far
 Ids={a,b,c,a2} Switches={A,B,C} SwitchOf <- MCSwitchOf EndsOf <- MCEndsOf HomeOf <- MCHomeOf
 Concentrators={A} Links={ab,ab2,bc,ca} Subnets={netA,far} Elsewhere=Elsewhere NoEdge=NoEdge NoRule=NoRule NoSite=NoSite
 Layouts <- MCLayouts
SPECIFICATION Spec
INVARIANTS TypeOK RulesWritten PacketsArrive Forgotten EndsKnow
PROPERTIES LinksDiscovered DeadLinksForgotten
CHECK_DEADLOCK FALSE
