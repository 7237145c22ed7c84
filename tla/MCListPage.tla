------------------------------ MODULE MCListPage ------------------------------
EXTENDS ListPage

MCOrder == <<1, 2>>
MCTitles == <<2, 1>>
SharedList == [owner |-> 1, members |-> {1, 2}, editors |-> {1, 2}, type |-> "SHARED"]
PersonalList == [owner |-> 1, members |-> {1}, editors |-> {1}, type |-> "PERSONAL"]
MCLists == {SharedList, PersonalList}
MCSearches == {[EmptySearch EXCEPT !.page = 2, !.sort = <<Asc("display_title")>>],
               [EmptySearch EXCEPT !.params = {"context_status"}]}
MCSorts == {<<>>, <<Asc("display_title")>>}
DescSorts == {<<>>, <<Desc("list_order")>>}
MCFilters == {{"context_status"}}
MCGroups == {None, "context_status"}
=============================================================================
